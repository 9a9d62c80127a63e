---------------------- MODULE EnvironmentPolicyProofs -----------------------
(***************************************************************************)
(* What the codec of the payloads and the decisions of a policy guarantee, *)
(* for every input, every policy, every environment and any sets of        *)
(* Agents, attributes and types.                                           *)
(***************************************************************************)
EXTENDS EnvironmentPolicy, WellFoundedInduction, SequenceTheorems, TLAPS

\* Every non-empty set of naturals has a least element.
LEMMA LeastNatural ==
    ASSUME NEW T, T \subseteq Nat, T # {}
    PROVE  \E n \in T : \A k \in T : n <= k
<1>1. PICK n \in T : \A k \in T : ~(<<k, n>> \in OpToRel(<, Nat))
  BY NatLessThanWellFounded, WFMin
<1>2. \A k \in T : ~(k < n)
  BY <1>1 DEF OpToRel
<1> QED BY <1>2

(***************************************************************************)
(* The decisions of a policy.                                              *)
(***************************************************************************)
\* get finds an attribute exactly when the environment has it, and then a value it holds.
LEMMA GetFinds ==
    ASSUME NEW e, IsSequence(e), NEW id
    PROVE  IF \E i \in DOMAIN e : e[i].id = id
           THEN \E i \in DOMAIN e : e[i].id = id /\ Get(e, id) = e[i].value
           ELSE Get(e, id) = NoValue
<1>1. CASE \E i \in DOMAIN e : e[i].id = id
  <2> DEFINE T == {i \in DOMAIN e : e[i].id = id}
  <2>1. T # {} /\ T \subseteq Nat
    BY <1>1 DEF IsSequence
  <2>2. PICK n \in T : \A k \in T : n <= k
    BY <2>1, LeastNatural
  <2>3. n \in DOMAIN e /\ e[n].id = id
    OBVIOUS
  <2>4. \A j \in 1..(n - 1) : e[j].id # id
    BY <2>1, <2>2 DEF IsSequence
  <2> DEFINE P(i) == e[i].id = id /\ \A j \in 1..(i - 1) : e[j].id # id
  <2>5. \E i \in DOMAIN e : P(i)
    BY <2>3, <2>4
  <2> DEFINE m == CHOOSE i \in DOMAIN e : P(i)
  <2>6. m \in DOMAIN e /\ P(m)
    BY <2>5
  <2>7. Get(e, id) = e[m].value
    BY <1>1 DEF Get
  <2> QED BY <1>1, <2>6, <2>7
<1>2. CASE ~\E i \in DOMAIN e : e[i].id = id
  BY <1>2 DEF Get
<1> QED BY <1>1, <1>2

\* In an environment that validate_environment accepts for an identity, an attribute of the
\* CA reads as what the CA approved for that identity, and is missing if nothing was.
LEMMA ReadsAsApproved ==
    ASSUME NEW p, NEW a, NEW e, IsSequence(e), ValidEnvironment(p, a, e),
           NEW x \in Attributes, p.rules[x].authority = "CaIssued"
    PROVE  Get(e, x) = p.approvals[<<a, x>>]
<1>1. CASE p.approvals[<<a, x>>] # NoValue
  BY <1>1 DEF ValidEnvironment
<1>2. CASE p.approvals[<<a, x>>] = NoValue
  <2>1. CASE \E i \in DOMAIN e : e[i].id = x
    <3>1. PICK i \in DOMAIN e : e[i].id = x /\ Get(e, x) = e[i].value
      BY <2>1, GetFinds
    <3>2. ValidAttribute(p, a, e[i])
      BY DEF ValidEnvironment
    <3> QED BY <3>1, <3>2 DEF ValidAttribute
  <2>2. CASE ~\E i \in DOMAIN e : e[i].id = x
    BY <1>2, <2>2, GetFinds
  <2> QED BY <2>1, <2>2
<1> QED BY <1>1, <1>2

\* authorize_delivery decides by the approvals of the two identities alone: whatever valid
\* environments publisher and subscriber have, an isolation or a requirement is met exactly
\* when what the CA approved for them meets it.
THEOREM DecidesByApprovals ==
    ASSUME NEW policy, Grounded(policy), NEW p, NEW s, NEW type \in Types,
           NEW publisher, NEW subscriber, IsSequence(publisher), IsSequence(subscriber)
    PROVE  AuthorizesDelivery(policy, p, publisher, s, subscriber, type) <=>
               /\ ValidEnvironment(policy, p, publisher)
               /\ ValidEnvironment(policy, s, subscriber)
               /\ AuthorizedByApprovals(policy, p, s, type)
<1>1. SUFFICES ASSUME ValidEnvironment(policy, p, publisher),
                      ValidEnvironment(policy, s, subscriber)
               PROVE  AllowsDelivery(policy, type, publisher, subscriber) <=>
                          AuthorizedByApprovals(policy, p, s, type)
  BY DEF AuthorizesDelivery
<1>2. \A x \in policy.isolation[type] :
          /\ Get(publisher, x) = policy.approvals[<<p, x>>]
          /\ Get(subscriber, x) = policy.approvals[<<s, x>>]
  BY <1>1, ReadsAsApproved DEF Grounded
<1>3. \A x \in Attributes : policy.requirements[<<type, x>>] # {} =>
          Get(subscriber, x) = policy.approvals[<<s, x>>]
  BY <1>1, ReadsAsApproved DEF Grounded
<1> QED BY <1>2, <1>3 DEF AllowsDelivery, AuthorizedByApprovals

(***************************************************************************)
(* The codec.  EncodeMembers and ReadMembers are recursive functions;      *)
(* induction over the members of a list goes by the least element of a set *)
(* of naturals.                                                            *)
(***************************************************************************)
\* Induction up to a bound, over a set of naturals.
LEMMA UpTo ==
    ASSUME NEW k \in Nat, NEW S, 0 \in S, \A n \in 1..k : n - 1 \in S => n \in S
    PROVE  \A n \in 0..k : n \in S
<1> DEFINE T == {n \in 0..k : n \notin S}
<1>1. SUFFICES ASSUME T # {} PROVE FALSE OBVIOUS
<1>2. T \subseteq Nat OBVIOUS
<1>3. PICK n \in T : \A j \in T : n <= j BY <1>1, <1>2, LeastNatural
<1>4. n \in 1..k /\ n - 1 \in 0..k /\ ~(n <= n - 1) OBVIOUS
<1>5. n - 1 \in S BY <1>3, <1>4
<1> QED BY <1>4, <1>5

\* The recursive function that EncodeMembers is defined by exists, and is unfolded.
LEMMA PrefixExists ==
    ASSUME NEW k \in Nat, NEW e
    PROVE  \E f : f = [n \in 0..k |-> IF n = 0 THEN <<>> ELSE f[n - 1] \o e[n]]
<1> DEFINE S == {m \in 0..k : \E f : f = [n \in 0..m |-> IF n = 0 THEN <<>> ELSE f[n - 1] \o e[n]]}
<1>1. 0 \in S
  <2> DEFINE g == [n \in 0..0 |-> <<>>]
  <2>1. g = [n \in 0..0 |-> IF n = 0 THEN <<>> ELSE g[n - 1] \o e[n]] OBVIOUS
  <2> HIDE DEF g
  <2>2. \E f : f = [n \in 0..0 |-> IF n = 0 THEN <<>> ELSE f[n - 1] \o e[n]] BY <2>1
  <2> QED BY <2>2
<1>2. ASSUME NEW m \in 1..k, m - 1 \in S PROVE m \in S
  <2>1. PICK f : f = [n \in 0..(m - 1) |-> IF n = 0 THEN <<>> ELSE f[n - 1] \o e[n]] BY <1>2
  <2>2. \A n \in 0..(m - 1) : f[n] = IF n = 0 THEN <<>> ELSE f[n - 1] \o e[n] BY <2>1, Zenon
  <2> DEFINE g == [n \in 0..m |-> IF n = m THEN f[m - 1] \o e[m] ELSE f[n]]
             h == [n \in 0..m |-> IF n = 0 THEN <<>> ELSE g[n - 1] \o e[n]]
  <2>3. ASSUME NEW n \in 0..m PROVE g[n] = h[n]
    <3>1. CASE n = 0 BY <2>2, <3>1
    <3>2. CASE n \in 1..(m - 1)
      <4>1. n \in 0..(m - 1) /\ n # 0 /\ n # m /\ n - 1 \in 0..m /\ n - 1 # m BY <3>2
      <4>2. f[n] = f[n - 1] \o e[n] BY <2>2, <4>1
      <4>3. g[n] = f[n] /\ g[n - 1] = f[n - 1] BY <4>1
      <4> HIDE DEF g
      <4>4. h[n] = g[n - 1] \o e[n] BY <4>1
      <4> QED BY <4>2, <4>3, <4>4
    <3>3. CASE n = m
      <4>1. n - 1 \in 0..m /\ n - 1 # m /\ n # 0 BY <3>3
      <4>2. g[n - 1] = f[n - 1] /\ g[n] = f[n - 1] \o e[n] BY <3>3, <4>1
      <4> HIDE DEF g
      <4>3. h[n] = g[n - 1] \o e[n] BY <4>1
      <4> QED BY <4>2, <4>3
    <3> QED BY <3>1, <3>2, <3>3
  <2>4. g = h
    <3>1. g = [n \in 0..m |-> g[n]] /\ h = [n \in 0..m |-> h[n]] OBVIOUS
    <3> HIDE DEF g, h
    <3> QED BY <2>3, <3>1
  <2> HIDE DEF g
  <2>5. \E x : x = [n \in 0..m |-> IF n = 0 THEN <<>> ELSE x[n - 1] \o e[n]] BY <2>4
  <2>6. m \in 0..k OBVIOUS
  <2> QED BY <2>5, <2>6, Zenon
<1> HIDE DEF S
<1>3. k \in S BY <1>1, <1>2, UpTo
<1> QED BY <1>3 DEF S

LEMMA MembersUnfold ==
    ASSUME NEW k \in Nat, NEW e, Len(e) = k
    PROVE  \E f : /\ f = [n \in 0..k |-> IF n = 0 THEN <<>> ELSE f[n - 1] \o e[n]]
                  /\ EncodeMembers(e) = f[k]
<1> DEFINE P(f) == f = [n \in 0..k |-> IF n = 0 THEN <<>> ELSE f[n - 1] \o e[n]]
           f == CHOOSE f : P(f)
<1>1. P(f) BY PrefixExists
<1>2. EncodeMembers(e) = f[k] BY DEF EncodeMembers
<1> QED BY <1>1, <1>2

\* What an encoding is made of: numbers, and the identities that stand for byte strings.
Symbols == Int \cup Types \cup Agents

\* From a position on, the input is `word` as far as the input goes.
Agrees(input, at, word) ==
    \A i \in 1..Len(word) : at + i - 1 <= Len(input) => input[at + i - 1] = word[i]

\* The input does not end before `word` does.
Fits(input, at, word) == at + Len(word) <= Len(input) + 1

\* The positions of a concatenation.
LEMMA ConcatIndex ==
    ASSUME NEW u \in Seq(Symbols), NEW w \in Seq(Symbols)
    PROVE  /\ u \o w \in Seq(Symbols) /\ Len(u \o w) = Len(u) + Len(w)
           /\ Len(u) \in Nat /\ Len(w) \in Nat
           /\ \A i \in 1..Len(u) : (u \o w)[i] = u[i]
           /\ \A i \in 1..Len(w) : (u \o w)[Len(u) + i] = w[i]
<1>1. /\ u \o w \in Seq(Symbols) /\ Len(u \o w) = Len(u) + Len(w)
      /\ \A i \in 1..Len(u) + Len(w) :
             (u \o w)[i] = IF i <= Len(u) THEN u[i] ELSE w[i - Len(u)]
  BY ConcatProperties
<1>2. Len(u) \in Nat /\ Len(w) \in Nat BY LenProperties
<1>3. \A i \in 1..Len(u) : i \in 1..Len(u) + Len(w) /\ i <= Len(u) BY <1>2
<1>4. \A i \in 1..Len(w) : /\ Len(u) + i \in 1..Len(u) + Len(w)
                           /\ ~(Len(u) + i <= Len(u)) /\ (Len(u) + i) - Len(u) = i
  BY <1>2
<1> QED BY <1>1, <1>2, <1>3, <1>4

LEMMA AgreesSplit ==
    ASSUME NEW u \in Seq(Symbols), NEW w \in Seq(Symbols), NEW at \in Nat,
           NEW input \in Seq(Symbols), Agrees(input, at, u \o w)
    PROVE  Agrees(input, at, u) /\ Agrees(input, at + Len(u), w)
<1>1. /\ Len(u \o w) = Len(u) + Len(w) /\ Len(u) \in Nat /\ Len(w) \in Nat /\ Len(input) \in Nat
      /\ \A i \in 1..Len(u) + Len(w) :
             (u \o w)[i] = IF i <= Len(u) THEN u[i] ELSE w[i - Len(u)]
  BY ConcatProperties, LenProperties
<1>2. ASSUME NEW i \in 1..Len(u), at + i - 1 <= Len(input) PROVE input[at + i - 1] = u[i]
  <2>1. i \in 1..Len(u) + Len(w) /\ i <= Len(u) BY <1>1
  <2>2. input[at + i - 1] = (u \o w)[i] BY <1>1, <1>2, <2>1 DEF Agrees
  <2> QED BY <1>1, <2>1, <2>2
<1>3. ASSUME NEW i \in 1..Len(w), at + Len(u) + i - 1 <= Len(input)
      PROVE  input[at + Len(u) + i - 1] = w[i]
  <2> DEFINE j == Len(u) + i
  <2>1. /\ j \in 1..Len(u) + Len(w) /\ ~(j <= Len(u)) /\ j - Len(u) = i
        /\ at + j - 1 = at + Len(u) + i - 1
    BY <1>1
  <2> HIDE DEF j
  <2>2. input[at + j - 1] = (u \o w)[j] BY <1>1, <1>3, <2>1 DEF Agrees
  <2> QED BY <1>1, <2>1, <2>2
<1> QED BY <1>2, <1>3 DEF Agrees

\* The word that write_value makes of a value.
LEMMA ValueWord ==
    ASSUME NEW v, IsValue(v)
    PROVE  /\ EncodeValue(v) \in Seq(Symbols)
           /\ Len(EncodeValue(v)) = IF v.kind = "Bytes" THEN Len(v.data) + 2 ELSE 2
           /\ EncodeValue(v)[1] =
                  CASE v.kind = "Bool" -> 1 [] v.kind = "I64" -> 2 [] v.kind = "Bytes" -> 3
           /\ v.kind # "Bytes" => EncodeValue(v)[2] = v.data[1] /\ v.data = <<v.data[1]>>
           /\ v.kind = "Bytes" =>
                  /\ EncodeValue(v)[2] = Len(v.data)
                  /\ \A i \in 1..Len(v.data) : EncodeValue(v)[i + 2] = v.data[i]
<1>1. v.data \in Seq(Int) /\ Len(v.data) \in Nat BY DEF IsValue
<1>2. v.data \in Seq(Symbols) BY <1>1, SeqMonotonic DEF Symbols
<1>3. CASE v.kind = "Bool" \/ v.kind = "I64"
  <2> DEFINE c == IF v.kind = "Bool" THEN 1 ELSE 2
  <2>1. EncodeValue(v) = <<c>> \o v.data BY <1>3 DEF EncodeValue
  <2>2. Len(v.data) = 1 BY <1>3 DEF IsValue
  <2>3. v.data = <<v.data[1]>> BY <1>1, <2>2
  <2>4. <<c>> \in Seq(Symbols) /\ Len(<<c>>) = 1 /\ <<c>>[1] = c BY DEF Symbols
  <2> HIDE DEF c
  <2> DEFINE h == <<c>>
             d == v.data
  <2>5. h \in Seq(Symbols) /\ d \in Seq(Symbols) /\ Len(h) = 1 /\ h[1] = c /\ Len(d) = 1
    BY <1>2, <2>2, <2>4
  <2> HIDE DEF h, d
  <2>6. h \o d \in Seq(Symbols) /\ Len(h \o d) = 2 /\ (h \o d)[1] = c /\ (h \o d)[2] = d[1]
    <3>1. 1 \in 1..Len(h) /\ 1 \in 1..Len(d) /\ Len(h) + 1 = 2 /\ Len(h) + Len(d) = 2 BY <2>5
    <3> QED BY <2>5, <3>1, ConcatIndex
  <2> QED BY <1>3, <2>1, <2>3, <2>6 DEF c, d, h
<1>4. CASE v.kind = "Bytes"
  <2> DEFINE h == <<3, Len(v.data)>>
  <2>1. EncodeValue(v) = h \o v.data BY <1>4 DEF EncodeValue
  <2>2. h \in Seq(Symbols) /\ Len(h) = 2 /\ h[1] = 3 /\ h[2] = Len(v.data) BY <1>1 DEF Symbols
  <2> HIDE DEF h
  <2> DEFINE d == v.data
  <2>3. d \in Seq(Symbols) /\ Len(d) \in Nat /\ h[2] = Len(d) BY <1>1, <1>2, <2>2
  <2> HIDE DEF d
  <2>4. /\ h \o d \in Seq(Symbols) /\ Len(h \o d) = Len(d) + 2
        /\ (h \o d)[1] = 3 /\ (h \o d)[2] = Len(d)
        /\ \A i \in 1..Len(d) : (h \o d)[i + 2] = d[i]
    <3>1. 1 \in 1..Len(h) /\ 2 \in 1..Len(h) /\ Len(h) + Len(d) = Len(d) + 2 BY <2>2, <2>3
    <3>2. \A i \in 1..Len(d) : Len(h) + i = i + 2 BY <2>2, <2>3
    <3>3. /\ h \o d \in Seq(Symbols) /\ Len(h \o d) = Len(h) + Len(d)
          /\ \A i \in 1..Len(h) : (h \o d)[i] = h[i]
          /\ \A i \in 1..Len(d) : (h \o d)[Len(h) + i] = d[i]
      BY <2>2, <2>3, ConcatIndex
    <3> QED BY <2>2, <2>3, <3>1, <3>2, <3>3
  <2> QED BY <1>4, <2>1, <2>4 DEF d
<1> QED BY <1>3, <1>4 DEF IsValue

\* bytes_u16 and read_value read back what was written, and fail exactly when the data
\* is over the limit or cut short.
LEMMA ReadsBytes ==
    ASSUME NEW input \in Seq(Symbols), NEW at \in Nat \ {0}, NEW data \in Seq(Symbols),
           NEW maximum \in Nat, at <= Len(input), input[at] = Len(data),
           \A i \in 1..Len(data) : at + i <= Len(input) => input[at + i] = data[i]
    PROVE  IF Len(data) <= maximum /\ at + Len(data) <= Len(input)
           THEN ReadBytes(input, at, maximum) = Cursor(at + Len(data) + 1, data)
           ELSE ReadBytes(input, at, maximum).error # "None"
<1> DEFINE b == SubSeq(input, at + 1, at + Len(data))
<1>1. Len(input) \in Nat /\ Len(data) \in Nat BY LenProperties
<1>2. ReadBytes(input, at, maximum) =
          IF Len(data) > maximum THEN Failed("Oversized")
          ELSE IF at + Len(data) > Len(input) THEN Failed("Malformed")
          ELSE Cursor(at + Len(data) + 1, b)
  BY <1>1 DEF ReadBytes
<1>3. CASE Len(data) > maximum BY <1>1, <1>2, <1>3 DEF Failed
<1>4. CASE ~(Len(data) > maximum) /\ at + Len(data) > Len(input)
  BY <1>1, <1>2, <1>4 DEF Failed
<1>5. CASE ~(Len(data) > maximum) /\ ~(at + Len(data) > Len(input))
  <2>1. \A i \in (at + 1)..(at + Len(data)) : i \in 1..Len(input) /\ input[i] \in Symbols
    BY <1>1, <1>5, ElementOfSeq
  <2>2. /\ b \in Seq(Symbols) /\ Len(b) = Len(data)
        /\ \A i \in 1..Len(data) : b[i] = input[at + i]
    <3>1. at + 1 \in Int /\ at + Len(data) \in Int BY <1>1
    <3>2. /\ b \in Seq(Symbols)
          /\ Len(b) = IF at + 1 <= at + Len(data) THEN (at + Len(data)) - (at + 1) + 1 ELSE 0
          /\ \A i \in 1..((at + Len(data)) - (at + 1) + 1) : b[i] = input[(at + 1) + i - 1]
      BY <2>1, <3>1, SubSeqProperties
    <3> HIDE DEF b
    <3>3. \A i \in 1..Len(data) : /\ i \in 1..((at + Len(data)) - (at + 1) + 1)
                                  /\ (at + 1) + i - 1 = at + i
      BY <1>1
    <3> QED BY <1>1, <3>2, <3>3
  <2> HIDE DEF b
  <2>3. \A i \in 1..Len(data) : b[i] = data[i]
    <3>1. \A i \in 1..Len(data) : at + i <= Len(input) BY <1>1, <1>5
    <3> QED BY <2>2, <3>1, Zenon
  <2>4. b = data BY <2>2, <2>3, SeqEqual
  <2> QED BY <1>1, <1>2, <1>5, <2>4
<1> QED BY <1>1, <1>3, <1>4, <1>5

LEMMA ReadsValue ==
    ASSUME NEW input \in Seq(Symbols), NEW at \in Nat \ {0}, NEW v, IsValue(v),
           Agrees(input, at, EncodeValue(v))
    PROVE  IF ~TooLong(v) /\ Fits(input, at, EncodeValue(v))
           THEN ReadValue(input, at) = Cursor(at + Len(EncodeValue(v)), v)
           ELSE ReadValue(input, at).error # "None"
<1> DEFINE w == EncodeValue(v)
           d == v.data
<1>1. Len(input) \in Nat /\ Len(d) \in Nat /\ d \in Seq(Int) BY DEF IsValue
<1>2. d \in Seq(Symbols) BY <1>1, SeqMonotonic DEF Symbols
<1>3. Len(w) = IF v.kind = "Bytes" THEN Len(d) + 2 ELSE 2 BY ValueWord
<1>4. /\ v.kind = "Bool" => w[1] = 1
      /\ v.kind = "I64" => w[1] = 2
      /\ v.kind = "Bytes" => w[1] = 3
      /\ v.kind # "Bytes" => w[2] = d[1] /\ d = <<d[1]>>
      /\ v.kind = "Bytes" => w[2] = Len(d) /\ \A i \in 1..Len(d) : w[i + 2] = d[i]
  BY ValueWord
<1>5. v = Value(v.kind, d) /\ v.kind \in Kinds /\ (v.kind = "Bool" => d[1] \in {0, 1})
  BY DEF IsValue, Kinds
<1>6. TooLong(v) <=> v.kind = "Bytes" /\ Len(d) > MaxAttributeBytes BY DEF TooLong
<1>7. \A i \in 1..Len(w) : at + i - 1 <= Len(input) => input[at + i - 1] = w[i] BY DEF Agrees
<1> HIDE DEF w, d
<1>8. CASE at + 1 > Len(input)
  <2>1. ReadValue(input, at).error = "Malformed" BY <1>8 DEF ReadValue, Failed
  <2>2. ~Fits(input, at, w) BY <1>1, <1>3, <1>8 DEF Fits
  <2> QED BY <2>1, <2>2 DEF w
<1>9. CASE at + 1 <= Len(input)
  <2>1. input[at] = w[1] /\ input[at + 1] = w[2]
    <3>1. 1 \in 1..Len(w) /\ 2 \in 1..Len(w) BY <1>1, <1>3
    <3>2. at + 1 - 1 = at /\ at + 2 - 1 = at + 1 /\ at <= Len(input) BY <1>1, <1>9
    <3> QED BY <1>7, <1>9, <3>1, <3>2
  <2>2. CASE v.kind # "Bytes"
    <3>1. ReadValue(input, at) = Cursor(at + 2, Value(v.kind, <<d[1]>>))
      <4>1. CASE v.kind = "Bool" BY <1>1, <1>4, <1>5, <1>9, <2>1, <4>1 DEF ReadValue
      <4>2. CASE v.kind = "I64" BY <1>1, <1>4, <1>9, <2>1, <4>2 DEF ReadValue
      <4> QED BY <1>5, <2>2, <4>1, <4>2 DEF Kinds
    <3>2. ~TooLong(v) /\ Fits(input, at, w) BY <1>1, <1>3, <1>6, <1>9, <2>2 DEF Fits
    <3> QED BY <1>3, <1>4, <1>5, <2>2, <3>1, <3>2 DEF w
  <2>3. CASE v.kind = "Bytes"
    <3> DEFINE r == ReadBytes(input, at + 1, MaxAttributeBytes)
    <3>1. ReadValue(input, at) = IF r.error # "None" THEN r ELSE Cursor(r.at, BytesValue(r.read))
      BY <1>1, <1>4, <1>9, <2>1, <2>3 DEF ReadValue
    <3>2. input[at + 1] = Len(d) BY <1>4, <2>1, <2>3
    <3>3. Len(w) = Len(d) + 2 /\ \A i \in 1..Len(d) : w[i + 2] = d[i] BY <1>3, <1>4, <2>3
    <3>4. ASSUME NEW i \in 1..Len(d), at + 1 + i <= Len(input) PROVE input[at + 1 + i] = d[i]
      <4>1. i + 2 \in 1..Len(w) /\ at + (i + 2) - 1 = at + 1 + i BY <1>1, <3>3
      <4>2. input[at + 1 + i] = w[i + 2] BY <1>7, <3>4, <4>1
      <4> QED BY <3>3, <4>2
    <3>5. Fits(input, at, w) <=> at + 1 + Len(d) <= Len(input) BY <1>1, <3>3 DEF Fits
    <3>6. MaxAttributeBytes \in Nat BY PayloadLimitAssumption
    <3>7. at + 1 \in Nat \ {0} OBVIOUS
    <3>8. IF Len(d) <= MaxAttributeBytes /\ at + 1 + Len(d) <= Len(input)
          THEN r = Cursor(at + 1 + Len(d) + 1, d)
          ELSE r.error # "None"
      BY <1>2, <1>9, <3>2, <3>4, <3>6, <3>7, ReadsBytes
    <3>9. TooLong(v) <=> ~(Len(d) <= MaxAttributeBytes) BY <1>1, <1>6, <2>3, <3>6
    <3> HIDE DEF r
    <3>10. CASE ~TooLong(v) /\ Fits(input, at, w)
      <4>1. r = Cursor(at + 1 + Len(d) + 1, d) BY <3>5, <3>8, <3>9, <3>10
      <4>2. r.error = "None" /\ r.at = at + 1 + Len(d) + 1 /\ r.read = d BY <4>1 DEF Cursor
      <4>3. at + 1 + Len(d) + 1 = at + Len(w) BY <1>1, <3>3
      <4>4. v = BytesValue(d) BY <1>5, <2>3 DEF BytesValue
      <4> QED BY <3>1, <3>10, <4>2, <4>3, <4>4 DEF w
    <3>11. CASE TooLong(v) \/ ~Fits(input, at, w)
      <4>1. r.error # "None" BY <3>5, <3>8, <3>9, <3>11
      <4> QED BY <3>1, <3>11, <4>1 DEF w
    <3> QED BY <3>10, <3>11
  <2> QED BY <2>2, <2>3
<1> QED BY <1>1, <1>8, <1>9

\* A list is an environment or a predicate; its members are attributes or clauses.
EncodeMember(list, m) == IF list = "environment" THEN EncodeAttribute(m) ELSE EncodeClause(m)

ReadMember(input, cursor, list) ==
    IF list = "environment" THEN ReadAttribute(input, cursor) ELSE ReadClause(input, cursor)

IsMember(list, m) ==
    /\ IsValue(m.value)
    /\ IF list = "environment" THEN m = Attribute(m.id, m.value) /\ m.id \in Int
       ELSE /\ m = Clause(m.attribute, m.operator, m.value) /\ m.attribute \in Int
            /\ \E i \in DOMAIN Operators : m.operator = Operators[i]

\* What the parser asks of a member after those it has read.
MayFollow(list, read, m) ==
    /\ ~TooLong(m.value)
    /\ list = "environment" => \A i \in DOMAIN read : read[i].id # m.id

\* One turn of the loop reads back one member, or fails: on an identifier read before, on a
\* value that is too long or on the end of the input.
LEMMA MemberWord ==
    ASSUME NEW list, NEW m, IsMember(list, m)
    PROVE  EncodeMember(list, m) \in Seq(Symbols)
<1>1. EncodeValue(m.value) \in Seq(Symbols) BY ValueWord DEF IsMember
<1>2. CASE list = "environment"
  <2>1. <<m.id>> \in Seq(Symbols) BY <1>2 DEF IsMember, Symbols
  <2> QED BY <1>1, <1>2, <2>1, ConcatProperties DEF EncodeMember, EncodeAttribute
<1>3. CASE list # "environment"
  <2>1. OperatorCode(m.operator) \in DOMAIN Operators /\ m.attribute \in Int
    BY <1>3 DEF IsMember, OperatorCode
  <2>2. DOMAIN Operators = 1..6 BY DEF Operators
  <2>3. <<m.attribute, OperatorCode(m.operator)>> \in Seq(Symbols) BY <2>1, <2>2 DEF Symbols
  <2> QED BY <1>1, <1>3, <2>3, ConcatProperties DEF EncodeMember, EncodeClause
<1> QED BY <1>2, <1>3

LEMMA ReadsAttribute ==
    ASSUME NEW input \in Seq(Symbols), NEW at \in Nat \ {0}, NEW read,
           NEW m, IsMember("environment", m), Agrees(input, at, EncodeAttribute(m))
    PROVE  IF MayFollow("environment", read, m) /\ Fits(input, at, EncodeAttribute(m))
           THEN ReadAttribute(input, Cursor(at, read)) =
                    Cursor(at + Len(EncodeAttribute(m)), Append(read, m))
           ELSE ReadAttribute(input, Cursor(at, read)).error # "None"
<1> DEFINE u == <<m.id>>
           v == EncodeValue(m.value)
           r == ReadValue(input, at + 1)
<1>1. m = Attribute(m.id, m.value) /\ m.id \in Int /\ IsValue(m.value) BY DEF IsMember
<1>2. u \in Seq(Symbols) /\ Len(u) = 1 /\ u[1] = m.id BY <1>1 DEF Symbols
<1>3. v \in Seq(Symbols) /\ Len(v) \in Nat BY <1>1, ValueWord
<1>4. EncodeAttribute(m) = u \o v BY DEF EncodeAttribute
<1> HIDE DEF u, v, r
<1>5. u \o v \in Seq(Symbols) /\ Len(u \o v) = 1 + Len(v) BY <1>2, <1>3, ConcatIndex
<1>6. Agrees(input, at, u) /\ Agrees(input, at + 1, v)
  BY <1>2, <1>3, <1>4, AgreesSplit
<1>7. Len(input) \in Nat BY LenProperties
<1>8. Fits(input, at, u \o v) <=> Fits(input, at + 1, v) BY <1>3, <1>5, <1>7 DEF Fits
<1>9. IF ~TooLong(m.value) /\ Fits(input, at + 1, v)
      THEN r = Cursor(at + 1 + Len(v), m.value)
      ELSE r.error # "None"
  <2>1. at + 1 \in Nat \ {0} OBVIOUS
  <2> QED BY <1>1, <1>6, <2>1, ReadsValue DEF r, v
<1>10. CASE at > Len(input)
  <2>1. ReadAttribute(input, Cursor(at, read)).error = "Malformed"
    BY <1>10 DEF ReadAttribute, Cursor, Failed
  <2>2. ~Fits(input, at, u \o v) BY <1>3, <1>5, <1>7, <1>10 DEF Fits
  <2> QED BY <1>4, <1>5, <2>1, <2>2
<1>11. CASE ~(at > Len(input))
  <2>1. input[at] = m.id
    <3>1. 1 \in 1..Len(u) /\ at + 1 - 1 = at /\ at <= Len(input) BY <1>2, <1>7, <1>11
    <3> QED BY <1>2, <1>6, <3>1 DEF Agrees
  <2>2. ReadAttribute(input, Cursor(at, read)) =
            IF \E i \in DOMAIN read : read[i].id = m.id THEN Failed("Malformed")
            ELSE IF r.error # "None" THEN r
            ELSE Cursor(r.at, Append(read, Attribute(m.id, r.read)))
    BY <1>11, <2>1 DEF ReadAttribute, Cursor, r
  <2>3. CASE \E i \in DOMAIN read : read[i].id = m.id
    <3>1. ~MayFollow("environment", read, m) BY <2>3 DEF MayFollow
    <3>2. ReadAttribute(input, Cursor(at, read)).error = "Malformed" BY <2>2, <2>3 DEF Failed
    <3> QED BY <1>4, <1>5, <3>1, <3>2
  <2>4. CASE ~\E i \in DOMAIN read : read[i].id = m.id
    <3>1. MayFollow("environment", read, m) <=> ~TooLong(m.value) BY <2>4 DEF MayFollow
    <3>2. CASE ~TooLong(m.value) /\ Fits(input, at + 1, v)
      <4>1. r = Cursor(at + 1 + Len(v), m.value) BY <1>9, <3>2
      <4>2. r.error = "None" /\ r.at = at + 1 + Len(v) /\ r.read = m.value BY <4>1 DEF Cursor
      <4>3. ReadAttribute(input, Cursor(at, read)) = Cursor(at + 1 + Len(v), Append(read, m))
        BY <1>1, <2>2, <2>4, <4>2
      <4>4. at + 1 + Len(v) = at + Len(u \o v) BY <1>3, <1>5
      <4> QED BY <1>4, <1>5, <1>8, <3>1, <3>2, <4>3, <4>4
    <3>3. CASE ~(~TooLong(m.value) /\ Fits(input, at + 1, v))
      <4>1. r.error # "None" BY <1>9, <3>3
      <4> QED BY <1>4, <1>5, <1>8, <2>2, <2>4, <3>1, <3>3, <4>1
    <3> QED BY <3>2, <3>3
  <2> QED BY <2>3, <2>4
<1> QED BY <1>10, <1>11

LEMMA ReadsClause ==
    ASSUME NEW input \in Seq(Symbols), NEW at \in Nat \ {0}, NEW read,
           NEW m, IsMember("predicate", m), Agrees(input, at, EncodeClause(m))
    PROVE  IF ~TooLong(m.value) /\ Fits(input, at, EncodeClause(m))
           THEN ReadClause(input, Cursor(at, read)) =
                    Cursor(at + Len(EncodeClause(m)), Append(read, m))
           ELSE ReadClause(input, Cursor(at, read)).error # "None"
<1> DEFINE c == OperatorCode(m.operator)
           u == <<m.attribute, c>>
           v == EncodeValue(m.value)
           r == ReadValue(input, at + 2)
<1>1. /\ m = Clause(m.attribute, m.operator, m.value) /\ m.attribute \in Int /\ IsValue(m.value)
      /\ \E i \in DOMAIN Operators : Operators[i] = m.operator
  BY DEF IsMember
<1>2. c \in DOMAIN Operators /\ Operators[c] = m.operator BY <1>1 DEF OperatorCode
<1>3. DOMAIN Operators = 1..6 BY DEF Operators
<1> HIDE DEF c
<1>4. u \in Seq(Symbols) /\ Len(u) = 2 /\ u[1] = m.attribute /\ u[2] = c
  BY <1>1, <1>2, <1>3 DEF Symbols
<1>5. v \in Seq(Symbols) /\ Len(v) \in Nat BY <1>1, ValueWord
<1>6. EncodeClause(m) = u \o v BY DEF EncodeClause, c
<1> HIDE DEF u, v, r
<1>7. u \o v \in Seq(Symbols) /\ Len(u \o v) = 2 + Len(v)
  <2>1. u \o v \in Seq(Symbols) /\ Len(u \o v) = Len(u) + Len(v) BY <1>4, <1>5, ConcatIndex
  <2> QED BY <1>4, <2>1
<1>8. Agrees(input, at, u) /\ Agrees(input, at + 2, v)
  BY <1>4, <1>5, <1>6, AgreesSplit
<1>9. Len(input) \in Nat BY LenProperties
<1>10. Fits(input, at, u \o v) <=> Fits(input, at + 2, v) BY <1>5, <1>7, <1>9 DEF Fits
<1>11. IF ~TooLong(m.value) /\ Fits(input, at + 2, v)
       THEN r = Cursor(at + 2 + Len(v), m.value)
       ELSE r.error # "None"
  <2>1. at + 2 \in Nat \ {0} OBVIOUS
  <2> QED BY <1>1, <1>8, <2>1, ReadsValue DEF r, v
<1>12. CASE at + 1 > Len(input)
  <2>1. ReadClause(input, Cursor(at, read)).error = "Malformed"
    BY <1>12 DEF ReadClause, Cursor, Failed
  <2>2. ~Fits(input, at, u \o v) BY <1>5, <1>7, <1>9, <1>12 DEF Fits
  <2> QED BY <1>6, <1>7, <2>1, <2>2
<1>13. CASE ~(at + 1 > Len(input))
  <2>1. input[at] = m.attribute /\ input[at + 1] = c
    <3>1. /\ 1 \in 1..Len(u) /\ 2 \in 1..Len(u) /\ at + 1 - 1 = at /\ at + 2 - 1 = at + 1
          /\ at <= Len(input) /\ at + 1 <= Len(input)
      BY <1>4, <1>9, <1>13
    <3> QED BY <1>4, <1>8, <3>1 DEF Agrees
  <2>2. ReadClause(input, Cursor(at, read)) =
            IF r.error # "None" THEN r
            ELSE Cursor(r.at, Append(read, Clause(m.attribute, m.operator, r.read)))
    BY <1>2, <1>13, <2>1 DEF ReadClause, Cursor, r
  <2>3. CASE ~TooLong(m.value) /\ Fits(input, at + 2, v)
    <3>1. r = Cursor(at + 2 + Len(v), m.value) BY <1>11, <2>3
    <3>2. r.error = "None" /\ r.at = at + 2 + Len(v) /\ r.read = m.value BY <3>1 DEF Cursor
    <3>3. ReadClause(input, Cursor(at, read)) = Cursor(at + 2 + Len(v), Append(read, m))
      BY <1>1, <2>2, <3>2
    <3>4. at + 2 + Len(v) = at + Len(u \o v) BY <1>5, <1>7
    <3> QED BY <1>6, <1>7, <1>10, <2>3, <3>3, <3>4
  <2>4. CASE ~(~TooLong(m.value) /\ Fits(input, at + 2, v))
    <3>1. r.error # "None" BY <1>11, <2>4
    <3> QED BY <1>6, <1>7, <1>10, <2>2, <2>4, <3>1
  <2> QED BY <2>3, <2>4
<1> QED BY <1>12, <1>13

\* The loop that reads the members of a list, as a function of the turn.
Turns(t, input, at, list, k) ==
    t = [n \in 0..k |-> IF n = 0 THEN Cursor(at + 1, <<>>)
                        ELSE IF t[n - 1].error # "None" THEN t[n - 1]
                        ELSE ReadMember(input, t[n - 1], list)]

LEMMA TurnsExist ==
    ASSUME NEW input, NEW at, NEW list, NEW k \in Nat
    PROVE  \E t : Turns(t, input, at, list, k)
<1> DEFINE S == {m \in 0..k : \E t : Turns(t, input, at, list, m)}
           Step(c) == IF c.error # "None" THEN c ELSE ReadMember(input, c, list)
<1>1. \A t, m : Turns(t, input, at, list, m) <=>
          t = [n \in 0..m |-> IF n = 0 THEN Cursor(at + 1, <<>>) ELSE Step(t[n - 1])]
  BY DEF Turns
<1> HIDE DEF Step
<1>2. 0 \in S
  <2> DEFINE g == [n \in 0..0 |-> Cursor(at + 1, <<>>)]
  <2>1. g = [n \in 0..0 |-> IF n = 0 THEN Cursor(at + 1, <<>>) ELSE Step(g[n - 1])] OBVIOUS
  <2> HIDE DEF g
  <2>2. \E t : Turns(t, input, at, list, 0) BY <1>1, <2>1
  <2> QED BY <2>2
<1>3. ASSUME NEW m \in 1..k, m - 1 \in S PROVE m \in S
  <2>1. PICK f : Turns(f, input, at, list, m - 1) BY <1>3
  <2>2. f = [n \in 0..(m - 1) |-> IF n = 0 THEN Cursor(at + 1, <<>>) ELSE Step(f[n - 1])]
    BY <1>1, <2>1
  <2>3. \A n \in 0..(m - 1) : f[n] = IF n = 0 THEN Cursor(at + 1, <<>>) ELSE Step(f[n - 1])
    BY <2>2, Zenon
  <2> DEFINE g == [n \in 0..m |-> IF n = m THEN Step(f[m - 1]) ELSE f[n]]
             h == [n \in 0..m |-> IF n = 0 THEN Cursor(at + 1, <<>>) ELSE Step(g[n - 1])]
  <2>4. ASSUME NEW n \in 0..m PROVE g[n] = h[n]
    <3>1. CASE n = 0 BY <2>3, <3>1
    <3>2. CASE n \in 1..(m - 1)
      <4>1. n \in 0..(m - 1) /\ n # 0 /\ n # m /\ n - 1 \in 0..m /\ n - 1 # m BY <3>2
      <4>2. f[n] = Step(f[n - 1]) BY <2>3, <4>1
      <4>3. g[n] = f[n] /\ g[n - 1] = f[n - 1] BY <4>1
      <4> HIDE DEF g
      <4>4. h[n] = Step(g[n - 1]) BY <4>1
      <4> QED BY <4>2, <4>3, <4>4
    <3>3. CASE n = m
      <4>1. n - 1 \in 0..m /\ n - 1 # m /\ n # 0 BY <3>3
      <4>2. g[n - 1] = f[n - 1] /\ g[n] = Step(f[n - 1]) BY <3>3, <4>1
      <4> HIDE DEF g
      <4>3. h[n] = Step(g[n - 1]) BY <4>1
      <4> QED BY <4>2, <4>3
    <3> QED BY <3>1, <3>2, <3>3
  <2>5. g = h
    <3>1. g = [n \in 0..m |-> g[n]] /\ h = [n \in 0..m |-> h[n]] OBVIOUS
    <3> HIDE DEF g, h
    <3> QED BY <2>4, <3>1
  <2> HIDE DEF g
  <2>6. \E t : Turns(t, input, at, list, m) BY <1>1, <2>5
  <2>7. m \in 0..k OBVIOUS
  <2> QED BY <2>6, <2>7, Zenon
<1> HIDE DEF S
<1>4. k \in S BY <1>2, <1>3, UpTo
<1> QED BY <1>4 DEF S

Limit(list) == IF list = "environment" THEN MaxAttributes ELSE MaxClauses

LEMMA MembersRead ==
    ASSUME NEW input, NEW at, NEW list, ~(at > Len(input)), ~(input[at] > Limit(list)),
           input[at] \in Nat
    PROVE  \E t : /\ Turns(t, input, at, list, input[at])
                  /\ ReadMembers(input, at, list) = t[input[at]]
<1> DEFINE t == CHOOSE t : Turns(t, input, at, list, input[at])
<1>1. Turns(t, input, at, list, input[at]) BY TurnsExist
<1>2. ReadMembers(input, at, list) = t[input[at]]
  BY DEF ReadMembers, Turns, ReadMember, Limit
<1> QED BY <1>1, <1>2

\* The word of a list, and what a list must be for the parser to accept it.
Encodings(list, ms) == [i \in DOMAIN ms |-> EncodeMember(list, ms[i])]
ListWord(list, ms) == <<Len(ms)>> \o EncodeMembers(Encodings(list, ms))
Before(ms, n) == [i \in 1..(n - 1) |-> ms[i]]
Acceptable(list, ms) == \A n \in 1..Len(ms) : MayFollow(list, Before(ms, n), ms[n])

\* A word is built member by member.
LEMMA MembersWord ==
    ASSUME NEW M, NEW ms \in Seq(M), NEW list, \A i \in DOMAIN ms : IsMember(list, ms[i])
    PROVE  \E f : /\ f[0] = <<>>
                  /\ \A n \in 1..Len(ms) : f[n] = f[n - 1] \o EncodeMember(list, ms[n])
                  /\ \A n \in 0..Len(ms) : f[n] \in Seq(Symbols)
                  /\ EncodeMembers(Encodings(list, ms)) = f[Len(ms)]
<1> DEFINE k == Len(ms)
           e == Encodings(list, ms)
<1>1. k \in Nat /\ DOMAIN ms = 1..k BY LenProperties
<1>2. \A n \in 1..k : e[n] = EncodeMember(list, ms[n]) /\ e[n] \in Seq(Symbols)
  BY <1>1, MemberWord DEF Encodings
<1>3. Len(e) = k
  <2>1. e = [i \in 1..k |-> e[i]] BY <1>1 DEF Encodings
  <2> HIDE DEF e
  <2> QED BY <1>1, <1>2, <2>1
<1> HIDE DEF e, k
<1>4. PICK f : /\ f = [n \in 0..k |-> IF n = 0 THEN <<>> ELSE f[n - 1] \o e[n]]
               /\ EncodeMembers(e) = f[k]
  BY <1>1, <1>3, MembersUnfold
<1>5. \A n \in 0..k : f[n] = IF n = 0 THEN <<>> ELSE f[n - 1] \o e[n] BY <1>4, Zenon
<1>6. f[0] = <<>> BY <1>1, <1>5
<1>7. \A n \in 1..k : f[n] = f[n - 1] \o e[n]
  <2>1. \A n \in 1..k : n \in 0..k /\ n # 0 BY <1>1
  <2> QED BY <1>5, <2>1, Zenon
<1>8. \A n \in 0..k : f[n] \in Seq(Symbols)
  <2> DEFINE S == {n \in 0..k : f[n] \in Seq(Symbols)}
  <2>1. 0 \in S
    <3>1. 0 \in 0..k /\ <<>> \in Seq(Symbols) BY <1>1
    <3> QED BY <1>6, <3>1, Zenon
  <2>2. ASSUME NEW n \in 1..k, n - 1 \in S PROVE n \in S
    <3>1. f[n] = f[n - 1] \o e[n] /\ f[n - 1] \in Seq(Symbols) /\ e[n] \in Seq(Symbols)
      BY <1>2, <1>7, <2>2
    <3>2. f[n] \in Seq(Symbols) BY <3>1, ConcatProperties
    <3> QED BY <1>1, <3>2
  <2> HIDE DEF S
  <2>3. \A n \in 0..k : n \in S BY <1>1, <2>1, <2>2, UpTo
  <2> QED BY <2>3 DEF S
<1>9. \A n \in 1..k : f[n] = f[n - 1] \o EncodeMember(list, ms[n]) BY <1>2, <1>7
<1> QED BY <1>4, <1>6, <1>8, <1>9 DEF k, e

LEMMA ListWordType ==
    ASSUME NEW M, NEW ms \in Seq(M), NEW list, \A i \in DOMAIN ms : IsMember(list, ms[i])
    PROVE  /\ ListWord(list, ms) \in Seq(Symbols)
           /\ EncodeMembers(Encodings(list, ms)) \in Seq(Symbols)
           /\ <<Len(ms)>> \in Seq(Symbols)
           /\ Len(ListWord(list, ms)) = 1 + Len(EncodeMembers(Encodings(list, ms)))
<1>1. Len(ms) \in Nat BY LenProperties
<1>2. EncodeMembers(Encodings(list, ms)) \in Seq(Symbols)
  <2>1. Len(ms) \in 0..Len(ms) BY <1>1
  <2> QED BY <2>1, MembersWord
<1>3. <<Len(ms)>> \in Seq(Symbols) /\ Len(<<Len(ms)>>) = 1 BY <1>1 DEF Symbols
<1> QED BY <1>2, <1>3, ConcatProperties DEF ListWord

\* Reading a list of any length: by induction over the members, the parser is behind the
\* word of the first n of them and has read exactly these, or has failed.
LEMMA ReadsMembers ==
    ASSUME NEW M, NEW ms \in Seq(M), NEW list \in {"environment", "predicate"},
           \A i \in DOMAIN ms : IsMember(list, ms[i]),
           NEW input \in Seq(Symbols), NEW at \in Nat \ {0}, Agrees(input, at, ListWord(list, ms))
    PROVE  IF /\ Len(ms) <= Limit(list) /\ Acceptable(list, ms)
              /\ Fits(input, at, ListWord(list, ms))
           THEN ReadMembers(input, at, list) = Cursor(at + Len(ListWord(list, ms)), ms)
           ELSE ReadMembers(input, at, list).error # "None"
<1> DEFINE k == Len(ms)
           u == <<k>>
           w == EncodeMembers(Encodings(list, ms))
<1>1. k \in Nat /\ DOMAIN ms = 1..k /\ Len(input) \in Nat BY LenProperties
<1>2. PICK f : /\ f[0] = <<>>
               /\ \A n \in 1..k : f[n] = f[n - 1] \o EncodeMember(list, ms[n])
               /\ \A n \in 0..k : f[n] \in Seq(Symbols)
               /\ w = f[k]
  BY MembersWord
<1>3. /\ ListWord(list, ms) = u \o w /\ u \in Seq(Symbols) /\ w \in Seq(Symbols)
      /\ Len(u) = 1 /\ u[1] = k
      /\ Len(u \o w) = 1 + Len(w)
  <2>1. ListWord(list, ms) = u \o w BY DEF ListWord
  <2>2. u \in Seq(Symbols) /\ w \in Seq(Symbols) /\ Len(ListWord(list, ms)) = 1 + Len(w)
    BY ListWordType
  <2> QED BY <2>1, <2>2
<1>4. \A n \in 0..k : Len(f[n]) \in Nat BY <1>2, LenProperties
<1>5. \A n \in 1..k : EncodeMember(list, ms[n]) \in Seq(Symbols) BY <1>1, MemberWord
<1> HIDE DEF u, w
<1>6. Len(w) \in Nat BY <1>3, LenProperties
<1>7. Agrees(input, at, u) /\ Agrees(input, at + 1, w)
  BY <1>3, AgreesSplit
<1>8. CASE at > Len(input)
  <2>1. ReadMembers(input, at, list).error = "Malformed" BY <1>8 DEF ReadMembers, Failed
  <2>2. ~Fits(input, at, u \o w) BY <1>1, <1>2, <1>3, <1>4, <1>8 DEF Fits
  <2> QED BY <1>3, <2>1, <2>2
<1>9. CASE ~(at > Len(input))
  <2>1. input[at] = k
    <3>1. 1 \in 1..Len(u) /\ at + 1 - 1 = at /\ at <= Len(input) BY <1>1, <1>3, <1>9
    <3> QED BY <1>3, <1>7, <3>1 DEF Agrees
  <2>2. CASE k > Limit(list)
    <3>1. ReadMembers(input, at, list).error = "Oversized"
      BY <1>9, <2>1, <2>2 DEF ReadMembers, Failed, Limit
    <3>2. Limit(list) \in Nat BY PayloadLimitAssumption DEF Limit
    <3>3. ~(k <= Limit(list)) BY <1>1, <2>2, <3>2
    <3> QED BY <3>1, <3>3
  <2>3. CASE ~(k > Limit(list))
    <3>1. PICK t : Turns(t, input, at, list, k) /\ ReadMembers(input, at, list) = t[k]
      BY <1>1, <1>9, <2>1, <2>3, MembersRead
    <3>2. \A n \in 0..k : t[n] = IF n = 0 THEN Cursor(at + 1, <<>>)
                                 ELSE IF t[n - 1].error # "None" THEN t[n - 1]
                                 ELSE ReadMember(input, t[n - 1], list)
      BY <3>1, Zenon DEF Turns
    <3>3. \A n \in 0..k : Agrees(input, at + 1, f[n])
      <4> DEFINE S == {j \in 0..k : Agrees(input, at + 1, f[k - j])}
      <4>1. 0 \in S
        <5>1. k - 0 = k BY <1>1
        <5> QED BY <1>1, <1>2, <1>7, <5>1
      <4>2. ASSUME NEW j \in 1..k, j - 1 \in S PROVE j \in S
        <5> DEFINE n == k - (j - 1)
        <5>1. n \in 1..k /\ k - j = n - 1 /\ n - 1 \in 0..k BY <1>1
        <5>2. Agrees(input, at + 1, f[n]) BY <4>2
        <5> HIDE DEF n
        <5>3. f[n] = f[n - 1] \o EncodeMember(list, ms[n]) /\ f[n - 1] \in Seq(Symbols)
          BY <1>2, <5>1
        <5>4. at + 1 \in Nat OBVIOUS
        <5>5. Agrees(input, at + 1, f[n - 1])
          BY <1>5, <5>1, <5>2, <5>3, <5>4, AgreesSplit
        <5>6. j \in 0..k BY <1>1
        <5>7. Agrees(input, at + 1, f[k - j]) BY <5>1, <5>5, Zenon
        <5> QED BY <5>6, <5>7, Zenon
      <4> HIDE DEF S
      <4>3. \A j \in 0..k : j \in S BY <1>1, <4>1, <4>2, UpTo
      <4>4. ASSUME NEW n \in 0..k PROVE Agrees(input, at + 1, f[n])
        <5>1. k - n \in 0..k /\ k - (k - n) = n BY <1>1
        <5>2. k - n \in S BY <4>3, <5>1
        <5> QED BY <5>1, <5>2 DEF S
      <4> QED BY <4>4
    <3> DEFINE Good(n) == /\ \A i \in 1..n : MayFollow(list, Before(ms, i), ms[i])
                          /\ Fits(input, at + 1, f[n])
               Right(n) == IF Good(n) THEN t[n] = Cursor(at + 1 + Len(f[n]), Before(ms, n + 1))
                           ELSE t[n].error # "None"
    <3>4. Right(0)
      <4>1. t[0] = Cursor(at + 1, <<>>) BY <1>1, <3>2
      <4>2. Before(ms, 0 + 1) = <<>> BY DEF Before
      <4>3. Len(f[0]) = 0 /\ at + 1 + 0 = at + 1 BY <1>2
      <4>4. Fits(input, at + 1, f[0]) BY <1>1, <1>9, <4>3 DEF Fits
      <4>5. Good(0) BY <4>4
      <4> QED BY <4>1, <4>2, <4>3, <4>5
    <3>5. ASSUME NEW n \in 1..k, Right(n - 1) PROVE Right(n)
      <4> DEFINE m == ms[n]
                 w1 == f[n - 1]
                 w2 == EncodeMember(list, m)
                 p == at + 1 + Len(w1)
      <4>1. /\ w1 \in Seq(Symbols) /\ w2 \in Seq(Symbols) /\ f[n] = w1 \o w2
            /\ Len(w1) \in Nat /\ Len(w2) \in Nat
        <5>1. n - 1 \in 0..k BY <1>1
        <5>2. w1 \in Seq(Symbols) /\ Len(w1) \in Nat BY <1>2, <1>4, <5>1
        <5>3. w2 \in Seq(Symbols) BY <1>5
        <5>4. f[n] = w1 \o w2 BY <1>2
        <5> QED BY <5>2, <5>3, <5>4, LenProperties
      <4> HIDE DEF w1, w2, m
      <4>2. Len(f[n]) = Len(w1) + Len(w2) BY <4>1, ConcatProperties
      <4>3. at + 1 \in Nat /\ p \in Nat \ {0} BY <4>1
      <4>4. Agrees(input, p, w2)
        <5>1. n \in 0..k BY <1>1
        <5>2. Agrees(input, at + 1, w1 \o w2) BY <3>3, <4>1, <5>1, Zenon
        <5> QED BY <4>1, <4>3, <5>2, AgreesSplit
      <4>5. IsMember(list, m) BY <1>1 DEF m
      <4>6. ASSUME NEW read
            PROVE  IF MayFollow(list, read, m) /\ Fits(input, p, w2)
                   THEN ReadMember(input, Cursor(p, read), list) =
                            Cursor(p + Len(w2), Append(read, m))
                   ELSE ReadMember(input, Cursor(p, read), list).error # "None"
        <5> HIDE DEF p
        <5>1. CASE list = "environment"
          BY <4>3, <4>4, <4>5, <5>1, ReadsAttribute DEF ReadMember, EncodeMember, w2
        <5>2. CASE list = "predicate"
          BY <4>3, <4>4, <4>5, <5>2, ReadsClause DEF ReadMember, EncodeMember, MayFollow, w2
        <5> QED BY <5>1, <5>2
      <4>7. Fits(input, at + 1, f[n]) <=> Fits(input, p, w2)
        BY <1>1, <4>1, <4>2 DEF Fits
      <4>8. Fits(input, at + 1, f[n]) => Fits(input, at + 1, w1)
        BY <1>1, <4>1, <4>2 DEF Fits
      <4>9. Good(n) <=> Good(n - 1) /\ MayFollow(list, Before(ms, n), m) /\ Fits(input, p, w2)
        <5>1. \A i \in 1..n : i \in 1..(n - 1) \/ i = n OBVIOUS
        <5>2. \A i \in 1..(n - 1) : i \in 1..n OBVIOUS
        <5>3. n \in 1..n OBVIOUS
        <5> QED BY <4>7, <4>8, <5>1, <5>2, <5>3 DEF w1, m
      <4>10. t[n] = IF t[n - 1].error # "None" THEN t[n - 1]
                    ELSE ReadMember(input, t[n - 1], list)
        BY <1>1, <3>2
      <4>11. (n - 1) + 1 = n OBVIOUS
      <4>12. CASE ~Good(n - 1)
        <5>1. t[n - 1].error # "None" BY <3>5, <4>12
        <5> QED BY <4>9, <4>10, <4>12, <5>1
      <4>13. CASE Good(n - 1)
        <5>1. t[n - 1] = Cursor(p, Before(ms, n)) BY <3>5, <4>11, <4>13 DEF w1
        <5>2. t[n - 1].error = "None" BY <5>1 DEF Cursor
        <5>3. t[n] = ReadMember(input, Cursor(p, Before(ms, n)), list) BY <4>10, <5>1, <5>2
        <5>4. Append(Before(ms, n), m) = Before(ms, n + 1)
          <6>1. Before(ms, n) \in Seq(M) /\ Len(Before(ms, n)) = n - 1 BY <1>1 DEF Before
          <6> QED BY <1>1, <6>1 DEF Before, m
        <5>5. p + Len(w2) = at + 1 + Len(f[n]) BY <4>1, <4>2
        <5> HIDE DEF Good, p
        <5>6. CASE MayFollow(list, Before(ms, n), m) /\ Fits(input, p, w2)
          <6>1. t[n] = Cursor(p + Len(w2), Append(Before(ms, n), m)) BY <4>6, <5>3, <5>6
          <6>2. Good(n) BY <4>9, <4>13, <5>6
          <6> QED BY <5>4, <5>5, <6>1, <6>2
        <5>7. CASE ~(MayFollow(list, Before(ms, n), m) /\ Fits(input, p, w2))
          <6>1. t[n].error # "None" BY <4>6, <5>3, <5>7
          <6>2. ~Good(n) BY <4>9, <5>7
          <6> QED BY <6>1, <6>2
        <5> QED BY <5>6, <5>7
      <4> QED BY <4>12, <4>13
    <3>6. Right(k)
      <4> DEFINE S == {n \in 0..k : Right(n)}
      <4> HIDE DEF Right
      <4>1. 0 \in S BY <1>1, <3>4
      <4>2. \A n \in 1..k : n - 1 \in S => n \in S BY <1>1, <3>5
      <4> HIDE DEF S
      <4>3. \A n \in 0..k : n \in S BY <1>1, <4>1, <4>2, UpTo
      <4>4. k \in 0..k BY <1>1
      <4>5. k \in S BY <4>3, <4>4
      <4> QED BY <4>5 DEF S
    <3>7. Good(k) <=> Acceptable(list, ms) /\ Fits(input, at, u \o w)
      <4>1. f[k] = w BY <1>2
      <4>2. Fits(input, at + 1, w) <=> Fits(input, at, u \o w)
        BY <1>1, <1>3, <1>6 DEF Fits
      <4> QED BY <4>1, <4>2 DEF Acceptable
    <3>8. Before(ms, k + 1) = ms BY <1>1 DEF Before
    <3>9. at + 1 + Len(f[k]) = at + Len(u \o w)
      <4>1. f[k] = w BY <1>2
      <4>2. at + 1 + Len(w) = at + Len(u \o w) BY <1>3, <1>6
      <4> QED BY <4>1, <4>2
    <3>10. k <= Limit(list)
      <4>1. Limit(list) \in Nat BY PayloadLimitAssumption DEF Limit
      <4> QED BY <1>1, <2>3, <4>1
    <3> HIDE DEF Good
    <3> QED BY <1>3, <3>1, <3>6, <3>7, <3>8, <3>9, <3>10
  <2> QED BY <2>2, <2>3
<1> QED BY <1>8, <1>9

\* A word agrees with itself.
LEMMA AgreesSelf ==
    ASSUME NEW input \in Seq(Symbols) PROVE Agrees(input, 1, input)
<1>1. Len(input) \in Nat BY LenProperties
<1>2. \A i \in 1..Len(input) : 1 + i - 1 = i BY <1>1
<1> QED BY <1>2 DEF Agrees

\* parse_operation of a SetEnvironment: an input that agrees with an encoding as far as it
\* goes is accepted only if it is the whole encoding, within the limits and with no identifier
\* twice; the environment is then the one that was encoded.
LEMMA EnvironmentWord ==
    ASSUME NEW M, NEW env \in Seq(M), \A i \in DOMAIN env : IsMember("environment", env[i])
    PROVE  /\ EncodeAttributes(env) = ListWord("environment", env)
           /\ << 1 >> \o EncodeAttributes(env) \in Seq(Symbols)
           /\ Len(EncodeAttributes(env)) \in Nat
           /\ Len(<< 1 >> \o EncodeAttributes(env)) = 1 + Len(EncodeAttributes(env))
           /\ Len(<< 1 >> \o EncodeAttributes(env)) >= 2
<1> DEFINE h == << 1 >>
           x == EncodeAttributes(env)
           y == EncodeMembers(Encodings("environment", env))
<1>1. x = ListWord("environment", env)
  BY DEF EncodeAttributes, ListWord, Encodings, EncodeMember
<1>2. h \in Seq(Symbols) /\ Len(h) = 1 BY DEF Symbols
<1>3. x \in Seq(Symbols) /\ Len(x) = 1 + Len(y) /\ Len(y) \in Nat
  BY <1>1, ListWordType, LenProperties
<1> HIDE DEF h, x, y
<1>4. h \o x \in Seq(Symbols) /\ Len(h \o x) = Len(h) + Len(x) BY <1>2, <1>3, ConcatIndex
<1>5. Len(x) \in Nat /\ Len(h \o x) = 1 + Len(x) /\ Len(h \o x) >= 2 BY <1>2, <1>3, <1>4
<1> QED BY <1>1, <1>4, <1>5 DEF h, x

LEMMA ParsesEnvironment ==
    ASSUME NEW M, NEW env \in Seq(M), \A i \in DOMAIN env : IsMember("environment", env[i]),
           NEW input \in Seq(Symbols), input # <<>>,
           Agrees(input, 1, << 1 >> \o EncodeAttributes(env))
    PROVE  IF /\ Len(env) <= MaxAttributes /\ Acceptable("environment", env)
              /\ Len(input) = Len(<< 1 >> \o EncodeAttributes(env))
           THEN ParseOperation(input) =
                    [error |-> "None",
                     operation |-> [kind |-> "SetEnvironment", attributes |-> env]]
           ELSE ParseOperation(input).error # "None"
<1> DEFINE u == << 1 >>
           w == ListWord("environment", env)
           r == ReadMembers(input, 2, "environment")
<1>1. EncodeAttributes(env) = w BY EnvironmentWord
<1>2. u \in Seq(Symbols) /\ Len(u) = 1 /\ u[1] = 1 BY DEF Symbols
<1>3. w \in Seq(Symbols) /\ Len(w) \in Nat BY ListWordType, LenProperties
<1> HIDE DEF u, w, r
<1>4. u \o w \in Seq(Symbols) /\ Len(u \o w) = 1 + Len(w) BY <1>1, EnvironmentWord DEF u
<1>5. Agrees(input, 1, u) /\ Agrees(input, 2, w)
  <2>1. Agrees(input, 1, u \o w) BY <1>1 DEF u
  <2>2. 1 + Len(u) = 2 /\ 1 \in Nat BY <1>2
  <2>3. Agrees(input, 1, u) /\ Agrees(input, 1 + Len(u), w)
    BY <1>2, <1>3, <2>1, <2>2, AgreesSplit
  <2> QED BY <2>2, <2>3
<1>6. Len(input) \in Nat /\ Len(input) >= 1 BY LenProperties, EmptySeq
<1>7. input[1] = 1
  <2>1. 1 \in 1..Len(u) /\ 1 + 1 - 1 = 1 BY <1>2
  <2> QED BY <1>2, <1>5, <1>6, <2>1 DEF Agrees
<1>8. IF Len(env) <= MaxAttributes /\ Acceptable("environment", env) /\ Fits(input, 2, w)
      THEN r = Cursor(2 + Len(w), env)
      ELSE r.error # "None"
  <2>1. 2 \in Nat \ {0} /\ "environment" \in {"environment", "predicate"} OBVIOUS
  <2>2. Limit("environment") = MaxAttributes BY DEF Limit
  <2> QED BY <1>5, <2>1, <2>2, ReadsMembers DEF r, w
<1>9. ParseOperation(input) =
          IF r.error # "None" THEN r
          ELSE Parsed(input, r, [kind |-> "SetEnvironment", attributes |-> r.read])
  BY <1>7 DEF ParseOperation, ParseEnvironment, r
<1>10. CASE Len(env) <= MaxAttributes /\ Acceptable("environment", env) /\ Fits(input, 2, w)
  <2>1. r = Cursor(2 + Len(w), env) BY <1>8, <1>10
  <2>2. r.error = "None" /\ r.at = 2 + Len(w) /\ r.read = env BY <2>1 DEF Cursor
  <2>3. ParseOperation(input) =
            IF 2 + Len(w) # Len(input) + 1 THEN Failed("Malformed")
            ELSE [error |-> "None", operation |-> [kind |-> "SetEnvironment", attributes |-> env]]
    BY <1>9, <2>2 DEF Parsed
  <2>4. 2 + Len(w) = Len(input) + 1 <=> Len(input) = Len(u \o w) BY <1>3, <1>4, <1>6
  <2>5. Failed("Malformed").error # "None" BY DEF Failed
  <2> QED BY <1>1, <1>3, <1>4, <1>10, <2>3, <2>4, <2>5 DEF u
<1>11. CASE ~(Len(env) <= MaxAttributes /\ Acceptable("environment", env) /\ Fits(input, 2, w))
  <2>1. r.error # "None" BY <1>8, <1>11
  <2>2. ParseOperation(input).error # "None" BY <1>9, <2>1
  <2>3. Len(input) = Len(u \o w) => Fits(input, 2, w) BY <1>3, <1>4, <1>6 DEF Fits
  <2> QED BY <1>1, <1>3, <1>4, <1>11, <2>2, <2>3 DEF u
<1> QED BY <1>10, <1>11

\* parse_operation of what encode_subscribe, encode_subscribe_permanent, encode_publish and
\* encode_response write.
LEMMA PredicateWord ==
    ASSUME NEW M, NEW cs \in Seq(M), \A i \in DOMAIN cs : IsMember("predicate", cs[i]),
           NEW input \in Seq(Symbols), NEW u \in Seq(Symbols), Len(u) = 2,
           Agrees(input, 1, u \o EncodePredicate(cs)),
           ~PredicateOversized(cs)
    PROVE  /\ EncodePredicate(cs) \in Seq(Symbols) /\ Len(EncodePredicate(cs)) \in Nat
           /\ Len(u \o EncodePredicate(cs)) = 2 + Len(EncodePredicate(cs))
           /\ u \o EncodePredicate(cs) \in Seq(Symbols)
           /\ 2 + Len(EncodePredicate(cs)) <= Len(input) =>
                 /\ input[1] = u[1] /\ input[2] = u[2]
                 /\ ReadMembers(input, 3, "predicate") =
                        Cursor(3 + Len(EncodePredicate(cs)), cs)
<1> DEFINE w == ListWord("predicate", cs)
<1>1. EncodePredicate(cs) = w
  BY DEF EncodePredicate, ListWord, Encodings, EncodeMember
<1>2. w \in Seq(Symbols) /\ Len(w) \in Nat BY ListWordType, LenProperties
<1> HIDE DEF w
<1>3. u \o w \in Seq(Symbols) /\ Len(u \o w) = 2 + Len(w)
  <2>1. u \o w \in Seq(Symbols) /\ Len(u \o w) = Len(u) + Len(w) BY <1>2, ConcatIndex
  <2> QED BY <2>1
<1>4. Agrees(input, 1, u) /\ Agrees(input, 3, w)
  <2>1. 1 + Len(u) = 3 /\ 1 \in Nat OBVIOUS
  <2>2. Agrees(input, 1, u \o w) BY <1>1
  <2>3. Agrees(input, 1, u) /\ Agrees(input, 1 + Len(u), w) BY <1>2, <2>1, <2>2, AgreesSplit
  <2> QED BY <2>1, <2>3
<1>5. Len(input) \in Nat BY LenProperties
<1>6. ASSUME 2 + Len(w) <= Len(input)
      PROVE  /\ input[1] = u[1] /\ input[2] = u[2]
             /\ ReadMembers(input, 3, "predicate") = Cursor(3 + Len(w), cs)
  <2>1. 1 \in 1..Len(u) /\ 2 \in 1..Len(u) /\ 1 + 1 - 1 = 1 /\ 1 + 2 - 1 = 2 OBVIOUS
  <2>2. input[1] = u[1] /\ input[2] = u[2] BY <1>2, <1>4, <1>5, <1>6, <2>1 DEF Agrees
  <2>3. Fits(input, 3, w) BY <1>2, <1>5, <1>6 DEF Fits
  <2>4. Len(cs) <= Limit("predicate")
    <3>1. Len(cs) \in Nat BY LenProperties
    <3> QED BY <3>1, PayloadLimitAssumption DEF PredicateOversized, Limit
  <2>5. Acceptable("predicate", cs)
    <3>1. DOMAIN cs = 1..Len(cs) BY LenProperties
    <3> QED BY <3>1 DEF Acceptable, MayFollow, PredicateOversized
  <2>6. 3 \in Nat \ {0} /\ "predicate" \in {"environment", "predicate"} OBVIOUS
  <2>7. ReadMembers(input, 3, "predicate") = Cursor(3 + Len(w), cs)
    BY <1>4, <2>3, <2>4, <2>5, <2>6, ReadsMembers DEF w
  <2> QED BY <2>2, <2>7
<1> QED BY <1>1, <1>2, <1>3, <1>6

LEMMA ParsesSubscription ==
    ASSUME NEW M, NEW cs \in Seq(M), \A i \in DOMAIN cs : IsMember("predicate", cs[i]),
           ~PredicateOversized(cs), NEW type \in Types, NEW code \in {2, 5}
    PROVE  LET input == <<code, type>> \o EncodePredicate(cs)
               kind  == IF code = 5 THEN "Subscribe" ELSE "SubscribePermanent"
           IN  ParseOperation(input) =
                   [error |-> "None",
                    operation |-> [kind |-> kind, type |-> type, clauses |-> cs]]
<1> DEFINE u == <<code, type>>
           w == EncodePredicate(cs)
           input == u \o w
           kind  == IF code = 5 THEN "Subscribe" ELSE "SubscribePermanent"
           r == ReadMembers(input, 3, "predicate")
<1>1. u \in Seq(Symbols) /\ Len(u) = 2 /\ u[1] = code /\ u[2] = type BY DEF Symbols
<1>2. w \in Seq(Symbols)
  <2>1. w = ListWord("predicate", cs)
    BY DEF EncodePredicate, ListWord, Encodings, EncodeMember
  <2> QED BY <2>1, ListWordType
<1> HIDE DEF u, w
<1>3. input \in Seq(Symbols) BY <1>1, <1>2, ConcatProperties
<1>4. Agrees(input, 1, u \o w) BY <1>3, AgreesSelf
<1> HIDE DEF input
<1>5. /\ Len(w) \in Nat /\ Len(input) = 2 + Len(w)
      /\ 2 + Len(w) <= Len(input) =>
             input[1] = u[1] /\ input[2] = u[2] /\ r = Cursor(3 + Len(w), cs)
  <2>1. /\ Len(w) \in Nat /\ Len(u \o w) = 2 + Len(w)
        /\ 2 + Len(w) <= Len(input) =>
              input[1] = u[1] /\ input[2] = u[2] /\ r = Cursor(3 + Len(w), cs)
    BY <1>1, <1>3, <1>4, PredicateWord DEF w
  <2> QED BY <2>1 DEF input
<1>6. input[1] = code /\ input[2] = type /\ r = Cursor(3 + Len(w), cs)
  BY <1>1, <1>5
<1>7. r.error = "None" /\ r.at = 3 + Len(w) /\ r.read = cs BY <1>6 DEF Cursor
<1>8. r.at = Len(input) + 1 BY <1>5, <1>7
<1>9. input # <<>> BY <1>5, <1>3, EmptySeq
<1>10. ParseOperation(input) = ParseSubscription(input, kind)
  BY <1>6, <1>9 DEF ParseOperation
<1> HIDE DEF r, kind
<1>11. ParseSubscription(input, kind) =
          [error |-> "None", operation |-> [kind |-> kind, type |-> type, clauses |-> cs]]
  BY <1>6, <1>7, <1>8 DEF ParseSubscription, Parsed, r
<1> QED BY <1>10, <1>11 DEF input, u, w, kind

LEMMA ReadsLast ==
    ASSUME NEW u \in Seq(Symbols), NEW value \in Seq(Symbols), Len(value) <= MaxValueBytes,
           NEW input \in Seq(Symbols), input = (u \o <<Len(value)>>) \o value
    PROVE  /\ Len(input) = Len(u) + Len(value) + 1 /\ Len(u) \in Nat /\ Len(value) \in Nat
           /\ ReadBytes(input, Len(u) + 1, MaxValueBytes) = Cursor(Len(input) + 1, value)
<1> DEFINE c == <<Len(value)>>
           p == Len(u) + 1
           z == u \o c
<1>1. Len(u) \in Nat /\ Len(value) \in Nat /\ MaxValueBytes \in Nat
  BY LenProperties, PayloadLimitAssumption
<1>2. c \in Seq(Symbols) /\ Len(c) = 1 /\ c[1] = Len(value) BY <1>1 DEF Symbols
<1> HIDE DEF c
<1>3. z \in Seq(Symbols) /\ Len(z) = Len(u) + 1 /\ z[Len(u) + 1] = Len(value)
  <2>1. 1 \in 1..Len(c) BY <1>2
  <2>2. /\ z \in Seq(Symbols) /\ Len(z) = Len(u) + Len(c)
        /\ \A i \in 1..Len(c) : z[Len(u) + i] = c[i]
    BY <1>2, ConcatIndex
  <2> QED BY <1>2, <2>1, <2>2
<1>4. input = z \o value BY DEF c
<1> HIDE DEF z
<1>5. /\ Len(input) = Len(z) + Len(value)
      /\ \A i \in 1..Len(z) : input[i] = z[i]
      /\ \A i \in 1..Len(value) : input[Len(z) + i] = value[i]
  BY <1>3, <1>4, ConcatIndex
<1>6. Len(input) = Len(u) + Len(value) + 1 BY <1>1, <1>3, <1>5
<1>7. p \in Nat \ {0} /\ p <= Len(input) /\ p \in 1..Len(z) BY <1>1, <1>3, <1>6
<1>8. input[p] = Len(value) BY <1>3, <1>5, <1>7
<1>9. \A i \in 1..Len(value) : input[p + i] = value[i] BY <1>3, <1>5
<1>10. p + Len(value) <= Len(input) /\ p + Len(value) + 1 = Len(input) + 1 BY <1>1, <1>6
<1> HIDE DEF p
<1>11. ReadBytes(input, p, MaxValueBytes) = Cursor(p + Len(value) + 1, value)
  BY <1>1, <1>7, <1>8, <1>9, <1>10, ReadsBytes
<1> QED BY <1>1, <1>6, <1>10, <1>11 DEF p

LEMMA ParsesPublication ==
    ASSUME NEW M, NEW cs \in Seq(M), \A i \in DOMAIN cs : IsMember("predicate", cs[i]),
           ~PredicateOversized(cs), NEW type \in Types,
           NEW value \in Seq(Nat), Len(value) <= MaxValueBytes
    PROVE  ParseOperation(<<3, type>> \o EncodePredicate(cs) \o <<Len(value)>> \o value) =
               [error |-> "None",
                operation |-> [kind |-> "Publish", type |-> type, clauses |-> cs,
                               value |-> value]]
<1> DEFINE u == <<3, type>>
           w == EncodePredicate(cs)
           c == <<Len(value)>>
           input == ((u \o w) \o c) \o value
           r == ReadMembers(input, 3, "predicate")
           b == ReadBytes(input, r.at, MaxValueBytes)
<1>1. u \in Seq(Symbols) /\ Len(u) = 2 /\ u[1] = 3 /\ u[2] = type BY DEF Symbols
<1>2. w \in Seq(Symbols)
  <2>1. w = ListWord("predicate", cs)
    BY DEF EncodePredicate, ListWord, Encodings, EncodeMember
  <2> QED BY <2>1, ListWordType
<1>3. value \in Seq(Symbols) /\ Len(value) \in Nat BY SeqMonotonic, LenProperties DEF Symbols
<1>4. c \in Seq(Symbols) BY <1>3 DEF Symbols
<1> HIDE DEF u, w, c
<1>5. u \o w \in Seq(Symbols) BY <1>1, <1>2, ConcatProperties
<1>6. (u \o w) \o c \in Seq(Symbols) BY <1>4, <1>5, ConcatProperties
<1>7. input \in Seq(Symbols) BY <1>3, <1>6, ConcatProperties
<1>8. Agrees(input, 1, u \o w)
  <2>1. Agrees(input, 1, ((u \o w) \o c) \o value) BY <1>7, AgreesSelf
  <2> HIDE DEF input
  <2>2. Agrees(input, 1, (u \o w) \o c) BY <1>3, <1>6, <1>7, <2>1, AgreesSplit
  <2> QED BY <1>4, <1>5, <1>7, <2>2, AgreesSplit
<1>9. /\ Len(input) = Len(u \o w) + Len(value) + 1
      /\ ReadBytes(input, Len(u \o w) + 1, MaxValueBytes) = Cursor(Len(input) + 1, value)
  BY <1>3, <1>5, <1>7, ReadsLast DEF c
<1> HIDE DEF input
<1>10. /\ Len(w) \in Nat /\ Len(u \o w) = 2 + Len(w)
       /\ 2 + Len(w) <= Len(input) =>
              input[1] = u[1] /\ input[2] = u[2] /\ r = Cursor(3 + Len(w), cs)
  BY <1>1, <1>7, <1>8, PredicateWord DEF w
<1>11. 2 + Len(w) <= Len(input) /\ 3 + Len(w) = Len(u \o w) + 1 /\ input # <<>>
  <2>1. Len(input) = 2 + Len(w) + Len(value) + 1 BY <1>9, <1>10
  <2>2. Len(input) # 0 BY <1>3, <1>10, <2>1
  <2> QED BY <1>3, <1>10, <2>1, <2>2
<1>12. input[1] = 3 /\ input[2] = type /\ r = Cursor(3 + Len(w), cs)
  BY <1>1, <1>10, <1>11
<1>13. r.error = "None" /\ r.at = 3 + Len(w) /\ r.read = cs BY <1>12 DEF Cursor
<1>14. b = Cursor(Len(input) + 1, value) BY <1>9, <1>11, <1>13
<1>15. b.error = "None" /\ b.at = Len(input) + 1 /\ b.read = value BY <1>14 DEF Cursor
<1>16. ParseOperation(input) = ParsePublication(input) BY <1>11, <1>12 DEF ParseOperation
<1> HIDE DEF r, b
<1>17. ParsePublication(input) =
          [error |-> "None", operation |-> [kind |-> "Publish", type |-> type,
                                            clauses |-> cs, value |-> value]]
  BY <1>12, <1>13, <1>15 DEF ParsePublication, Parsed, r, b
<1> QED BY <1>16, <1>17 DEF input, u, w, c

LEMMA ParsesResponse ==
    ASSUME NEW type \in Types, NEW publisher \in Agents,
           NEW value \in Seq(Nat), Len(value) <= MaxValueBytes
    PROVE  ParseOperation(<<4, type, publisher, Len(value)>> \o value) =
               [error |-> "None",
                operation |-> [kind |-> "PublicationResponse", type |-> type,
                               publisher |-> publisher, value |-> value]]
<1> DEFINE u == <<4, type, publisher>>
           c == <<Len(value)>>
           input == (u \o c) \o value
           b == ReadBytes(input, 4, MaxValueBytes)
<1>1. value \in Seq(Symbols) /\ Len(value) \in Nat BY SeqMonotonic, LenProperties DEF Symbols
<1>2. u \in Seq(Symbols) /\ Len(u) = 3 /\ u[1] = 4 /\ u[2] = type /\ u[3] = publisher
  BY DEF Symbols
<1>3. c \in Seq(Symbols) BY <1>1 DEF Symbols
<1>4. u \o c = <<4, type, publisher, Len(value)>>
  <2> DEFINE q == <<4, type, publisher, Len(value)>>
  <2>1. /\ q \in Seq(Symbols) /\ Len(q) = 4
        /\ q[1] = u[1] /\ q[2] = u[2] /\ q[3] = u[3] /\ q[4] = c[1]
    BY <1>1 DEF Symbols
  <2>2. Len(c) = 1 OBVIOUS
  <2> HIDE DEF u, c, q
  <2>3. /\ u \o c \in Seq(Symbols) /\ Len(u \o c) = Len(u) + Len(c)
        /\ \A i \in 1..Len(u) : (u \o c)[i] = u[i]
        /\ \A i \in 1..Len(c) : (u \o c)[Len(u) + i] = c[i]
    BY <1>2, <1>3, ConcatIndex
  <2>4. /\ 1 \in 1..Len(u) /\ 2 \in 1..Len(u) /\ 3 \in 1..Len(u) /\ 1 \in 1..Len(c)
        /\ Len(u) + 1 = 4 /\ Len(u) + Len(c) = 4
    BY <1>2, <2>2
  <2>5. \A i \in 1..4 : (u \o c)[i] = q[i]
    <3>1. \A i \in 1..4 : i = 1 \/ i = 2 \/ i = 3 \/ i = 4 OBVIOUS
    <3> QED BY <2>1, <2>3, <2>4, <3>1
  <2>6. u \o c = q BY <2>1, <2>3, <2>4, <2>5, SeqEqual
  <2> QED BY <2>6 DEF q
<1> HIDE DEF u, c
<1>5. u \o c \in Seq(Symbols) /\ Len(u \o c) \in Nat BY <1>2, <1>3, ConcatProperties, LenProperties
<1>6. input \in Seq(Symbols) BY <1>1, <1>5, ConcatProperties
<1>7. Agrees(input, 1, u)
  <2>1. Agrees(input, 1, (u \o c) \o value) BY <1>6, AgreesSelf
  <2> HIDE DEF input
  <2>2. Agrees(input, 1, u \o c) BY <1>1, <1>5, <1>6, <2>1, AgreesSplit
  <2> QED BY <1>2, <1>3, <1>6, <2>2, AgreesSplit
<1>8. /\ Len(input) = Len(u) + Len(value) + 1
      /\ ReadBytes(input, Len(u) + 1, MaxValueBytes) = Cursor(Len(input) + 1, value)
  BY <1>1, <1>2, <1>6, ReadsLast DEF c
<1> HIDE DEF input
<1>9. Len(input) = Len(value) + 4 /\ b = Cursor(Len(input) + 1, value) BY <1>1, <1>2, <1>8
<1>10. input[1] = 4 /\ input[2] = type /\ input[3] = publisher /\ input # <<>>
  <2>1. /\ 1 \in 1..Len(u) /\ 2 \in 1..Len(u) /\ 3 \in 1..Len(u)
        /\ 1 + 1 - 1 = 1 /\ 1 + 2 - 1 = 2 /\ 1 + 3 - 1 = 3
    BY <1>2
  <2>2. 1 <= Len(input) /\ 2 <= Len(input) /\ 3 <= Len(input) /\ Len(input) # 0 BY <1>1, <1>9
  <2> QED BY <1>2, <1>7, <2>1, <2>2 DEF Agrees
<1>11. b.error = "None" /\ b.at = Len(input) + 1 /\ b.read = value BY <1>9 DEF Cursor
<1>12. ParseOperation(input) = ParseResponse(input) BY <1>10 DEF ParseOperation
<1> HIDE DEF b
<1>13. ParseResponse(input) =
          [error |-> "None", operation |-> [kind |-> "PublicationResponse", type |-> type,
                                            publisher |-> publisher, value |-> value]]
  BY <1>10, <1>11 DEF ParseResponse, Parsed, b
<1> QED BY <1>4, <1>12, <1>13 DEF input

\* encode_environment accepts exactly the environments that the parser accepts.
LEMMA AcceptableEncodes ==
    ASSUME NEW M, NEW env \in Seq(M)
    PROVE  /\ Acceptable("environment", env) <=>
                  UniqueAttributes(env) /\ \A i \in DOMAIN env : ~TooLong(env[i].value)
           /\ EncodeEnvironment(env).error = "None" <=>
                  Len(env) <= MaxAttributes /\ Acceptable("environment", env)
           /\ Len(env) <= MaxAttributes /\ Acceptable("environment", env) =>
                  EncodeEnvironment(env) = Encoded(<< 1 >> \o EncodeAttributes(env))
<1>1. Len(env) \in Nat /\ DOMAIN env = 1..Len(env) /\ MaxAttributes \in Nat
  BY LenProperties, PayloadLimitAssumption
<1>2. Acceptable("environment", env) <=>
          \A n \in 1..Len(env) : /\ ~TooLong(env[n].value)
                                 /\ \A i \in 1..(n - 1) : env[i].id # env[n].id
  BY DEF Acceptable, MayFollow, Before
<1>3. UniqueAttributes(env) <=> \A n \in 1..Len(env) : \A i \in 1..(n - 1) : env[i].id # env[n].id
  <2>1. ASSUME UniqueAttributes(env), NEW n \in 1..Len(env), NEW i \in 1..(n - 1)
        PROVE  env[i].id # env[n].id
    <3>1. i \in DOMAIN env /\ n \in DOMAIN env /\ i # n BY <1>1
    <3> QED BY <2>1, <3>1 DEF UniqueAttributes
  <2>2. ASSUME \A n \in 1..Len(env) : \A i \in 1..(n - 1) : env[i].id # env[n].id,
               NEW i \in DOMAIN env, NEW j \in DOMAIN env, env[i].id = env[j].id, i # j
        PROVE  FALSE
    <3>1. i \in 1..(j - 1) \/ j \in 1..(i - 1) BY <1>1, <2>2
    <3> QED BY <1>1, <2>2, <3>1
  <2> QED BY <2>1, <2>2 DEF UniqueAttributes
<1>4. Acceptable("environment", env) <=>
          UniqueAttributes(env) /\ \A i \in DOMAIN env : ~TooLong(env[i].value)
  BY <1>1, <1>2, <1>3
<1>5. Failed("Oversized").error # "None" /\ Failed("Malformed").error # "None"
      /\ \A x : Encoded(x).error = "None"
  BY DEF Failed, Encoded
<1>6. ~(Len(env) > MaxAttributes) <=> Len(env) <= MaxAttributes BY <1>1
<1> QED BY <1>4, <1>5, <1>6 DEF EncodeEnvironment

\* What encode_environment writes is parsed back.
LEMMA EncodesBack ==
    ASSUME NEW M, NEW env \in Seq(M), \A i \in DOMAIN env : IsMember("environment", env[i]),
           Len(env) <= MaxAttributes, Acceptable("environment", env)
    PROVE  /\ EncodeEnvironment(env) = Encoded(<< 1 >> \o EncodeAttributes(env))
           /\ ParseOperation(<< 1 >> \o EncodeAttributes(env)) =
                  [error |-> "None",
                   operation |-> [kind |-> "SetEnvironment", attributes |-> env]]
<1> DEFINE w == << 1 >> \o EncodeAttributes(env)
<1>1. EncodeEnvironment(env) = Encoded(w) BY AcceptableEncodes
<1>2. w \in Seq(Symbols) /\ Len(w) >= 2 BY EnvironmentWord
<1>3. w # <<>> BY <1>2
<1>4. Agrees(w, 1, w) BY <1>2, AgreesSelf
<1> HIDE DEF w
<1>5. ParseOperation(w) = [error |-> "None",
                           operation |-> [kind |-> "SetEnvironment", attributes |-> env]]
  BY <1>2, <1>3, <1>4, ParsesEnvironment DEF w
<1> QED BY <1>1, <1>5 DEF w
=============================================================================
