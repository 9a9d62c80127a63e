------------------------- MODULE BrokerCaLinkProofs -------------------------
(***************************************************************************)
(* Proofs about BrokerCaLink, for every number of requests, group size,    *)
(* queue depth, window depth and bound.                                    *)
(***************************************************************************)
EXTENDS BrokerCaLink, SequenceTheorems, TLAPS

-----------------------------------------------------------------------------
(***************************************************************************)
(* Frames in a sequence.  What is said of the frames in flight or retained *)
(* is said of their kinds and identifiers, of the order of any two of them *)
(* and of the first time a delivery occurs.                                *)
(***************************************************************************)
Carries(chan, kind, id) == \E f \in Range(chan) : f.kind = kind /\ f.id = id

Ordered(s, R) == \A i, j \in DOMAIN s : i < j => <<s[i], s[j]>> \in R

\* No delivery after `id` comes before the first copy of `id`.
Announced(chan, id) ==
    \A i \in DOMAIN chan :
        (chan[i].kind = "Delivery" /\ chan[i].id > id) =>
            \E k \in DOMAIN chan : k < i /\ chan[k].kind = "Delivery" /\ chan[k].id = id

LEMMA NoFrames ==
    /\ Range(<<>>) = {}
    /\ \A kind, id : ~Carries(<<>>, kind, id)
    /\ \A R : Ordered(<<>>, R)
    /\ \A id : Announced(<<>>, id)
BY DEF Range, Carries, Ordered, Announced

LEMMA OneFrame ==
    ASSUME NEW f
    PROVE  /\ Range(<<f>>) = {f}
           /\ \A kind, id : Carries(<<f>>, kind, id) <=> (f.kind = kind /\ f.id = id)
           /\ \A R : Ordered(<<f>>, R)
           /\ f.kind # "Delivery" => \A id : Announced(<<f>>, id)
<1>1. DOMAIN <<f>> = {1} /\ <<f>>[1] = f OBVIOUS
<1>2. Range(<<f>>) = {f} BY <1>1 DEF Range
<1>3. \A R : Ordered(<<f>>, R) BY <1>1 DEF Ordered
<1>4. f.kind # "Delivery" => \A id : Announced(<<f>>, id) BY <1>1 DEF Announced
<1> QED BY <1>2, <1>3, <1>4 DEF Carries

\* Reading the first frame.
LEMMA ReadFrame ==
    ASSUME NEW S, NEW s \in Seq(S), s # <<>>
    PROVE  /\ Range(s) = {Head(s)} \cup Range(Tail(s))
           /\ \A kind, id : Carries(s, kind, id) <=>
                  (Carries(Tail(s), kind, id) \/ (Head(s).kind = kind /\ Head(s).id = id))
           /\ \A R : Ordered(s, R) => /\ Ordered(Tail(s), R)
                                      /\ \A f \in Range(Tail(s)) : <<Head(s), f>> \in R
           /\ \A id : Announced(s, id) /\ ~(Head(s).kind = "Delivery" /\ Head(s).id = id)
                          => Announced(Tail(s), id)
           /\ \A id : Announced(s, id) => ~(Head(s).kind = "Delivery" /\ Head(s).id > id)
<1> DEFINE t == Tail(s)
<1>1. /\ Len(s) \in Nat /\ Len(s) >= 1 /\ Len(t) = Len(s) - 1
      /\ DOMAIN s = 1..Len(s) /\ DOMAIN t = 1..(Len(s) - 1)
      /\ \A i \in DOMAIN t : t[i] = s[i + 1]
      /\ Head(s) = s[1]
  BY HeadTailProperties
<1> HIDE DEF t
<1>2. \A i \in DOMAIN t : i \in Nat /\ i + 1 \in DOMAIN s /\ t[i] = s[i + 1] BY <1>1
<1>3. \A j \in DOMAIN s : j = 1 \/ (j - 1 \in DOMAIN t /\ (j - 1) + 1 = j) BY <1>1
<1>4. \A j \in DOMAIN s : j = 1 \/ (j - 1 \in DOMAIN t /\ s[j] = t[j - 1]) BY <1>2, <1>3
<1>5. 1 \in DOMAIN s BY <1>1
<1>6. Range(s) = {Head(s)} \cup Range(t)
  <2>1. \A j \in DOMAIN s : s[j] \in {Head(s)} \cup Range(t) BY <1>1, <1>4 DEF Range
  <2>2. \A i \in DOMAIN t : t[i] \in Range(s) BY <1>2 DEF Range
  <2>3. Head(s) \in Range(s) BY <1>1, <1>5 DEF Range
  <2> QED BY <2>1, <2>2, <2>3 DEF Range
<1>7. \A kind, id : Carries(s, kind, id) <=>
                  (Carries(t, kind, id) \/ (Head(s).kind = kind /\ Head(s).id = id))
  BY <1>6 DEF Carries
<1>8. ASSUME NEW R, Ordered(s, R)
      PROVE  Ordered(t, R) /\ \A f \in Range(t) : <<Head(s), f>> \in R
  <2>1. Ordered(t, R)
    <3> SUFFICES ASSUME NEW i \in DOMAIN t, NEW j \in DOMAIN t, i < j
                 PROVE  <<t[i], t[j]>> \in R
      BY DEF Ordered
    <3>1. i + 1 \in DOMAIN s /\ j + 1 \in DOMAIN s /\ i + 1 < j + 1 BY <1>2
    <3> QED BY <1>2, <1>8, <3>1 DEF Ordered
  <2>2. ASSUME NEW f \in Range(t) PROVE <<Head(s), f>> \in R
    <3>1. PICK i \in DOMAIN t : f = t[i] BY DEF Range
    <3>2. i + 1 \in DOMAIN s /\ 1 < i + 1 /\ f = s[i + 1] BY <1>1, <1>2, <3>1
    <3> QED BY <1>1, <1>5, <1>8, <3>2 DEF Ordered
  <2> QED BY <2>1, <2>2
<1>9. ASSUME NEW id, Announced(s, id), ~(Head(s).kind = "Delivery" /\ Head(s).id = id)
      PROVE  Announced(t, id)
  <2> SUFFICES ASSUME NEW i \in DOMAIN t, t[i].kind = "Delivery", t[i].id > id
               PROVE  \E k \in DOMAIN t : k < i /\ t[k].kind = "Delivery" /\ t[k].id = id
    BY DEF Announced
  <2>1. i + 1 \in DOMAIN s /\ s[i + 1] = t[i] BY <1>2
  <2>2. PICK k \in DOMAIN s : k < i + 1 /\ s[k].kind = "Delivery" /\ s[k].id = id
    BY <1>9, <2>1 DEF Announced
  <2>3. k # 1 BY <1>1, <1>9, <2>2
  <2>4. k - 1 \in DOMAIN t /\ t[k - 1] = s[k] BY <1>4, <2>3
  <2>5. k - 1 < i BY <1>1, <2>2
  <2> QED BY <2>2, <2>4, <2>5
<1>10. ASSUME NEW id, Announced(s, id) PROVE ~(Head(s).kind = "Delivery" /\ Head(s).id > id)
  <2> SUFFICES ASSUME s[1].kind = "Delivery", s[1].id > id PROVE FALSE BY <1>1
  <2>1. PICK k \in DOMAIN s : k < 1 BY <1>5, <1>10 DEF Announced
  <2> QED BY <1>1, <2>1
<1> QED BY <1>6, <1>7, <1>8, <1>9, <1>10 DEF t

\* Losing a suffix.
LEMMA PrefixFrames ==
    ASSUME NEW S, NEW s \in Seq(S), NEW n \in 0..Len(s)
    PROVE  LET t == SubSeq(s, 1, n)
           IN  /\ Range(t) \subseteq Range(s)
               /\ \A kind, id : Carries(t, kind, id) => Carries(s, kind, id)
               /\ \A R : Ordered(s, R) => Ordered(t, R)
               /\ \A id : Announced(s, id) => Announced(t, id)
<1> DEFINE t == SubSeq(s, 1, n)
<1>0. n \in Nat /\ n <= Len(s) /\ Len(s) \in Nat /\ DOMAIN s = 1..Len(s) OBVIOUS
<1>1. t \in Seq(S) /\ DOMAIN t = 1..n /\ \A i \in 1..n : t[i] = s[i]
  <2>1. \A i \in 1..n : s[i] \in S BY <1>0
  <2>2. /\ t \in Seq(S) /\ Len(t) = IF 1 <= n THEN n - 1 + 1 ELSE 0
        /\ \A i \in 1..(n - 1 + 1) : t[i] = s[1 + i - 1]
    BY <1>0, <2>1, SubSeqProperties
  <2> HIDE DEF t
  <2>3. Len(t) = n /\ n - 1 + 1 = n BY <1>0, <2>2
  <2>4. \A i \in 1..n : 1 + i - 1 = i BY <1>0
  <2> QED BY <2>2, <2>3, <2>4
<1> HIDE DEF t
<1>2. \A i \in DOMAIN t : i \in DOMAIN s /\ t[i] = s[i] BY <1>0, <1>1
<1>3. Range(t) \subseteq Range(s) BY <1>2 DEF Range
<1>4. \A R : Ordered(s, R) => Ordered(t, R) BY <1>2 DEF Ordered
<1>5. ASSUME NEW id, Announced(s, id) PROVE Announced(t, id)
  <2> SUFFICES ASSUME NEW i \in DOMAIN t, t[i].kind = "Delivery", t[i].id > id
               PROVE  \E k \in DOMAIN t : k < i /\ t[k].kind = "Delivery" /\ t[k].id = id
    BY DEF Announced
  <2>1. PICK k \in DOMAIN s : k < i /\ s[k].kind = "Delivery" /\ s[k].id = id
    BY <1>2, <1>5 DEF Announced
  <2>2. k \in DOMAIN t BY <1>0, <1>1, <2>1
  <2> QED BY <1>2, <2>1, <2>2
<1> QED BY <1>3, <1>4, <1>5 DEF t, Carries

\* Writing one batch after another.
LEMMA JoinFrames ==
    ASSUME NEW S, NEW s \in Seq(S), NEW t \in Seq(S)
    PROVE  /\ Range(s \o t) = Range(s) \cup Range(t)
           /\ \A kind, id : Carries(s \o t, kind, id) <=>
                                (Carries(s, kind, id) \/ Carries(t, kind, id))
           /\ \A R : Ordered(s, R) /\ Ordered(t, R)
                     /\ (\A f \in Range(s), g \in Range(t) : <<f, g>> \in R)
                         => Ordered(s \o t, R)
           /\ \A id : Announced(s, id) /\ (Carries(s, "Delivery", id) \/ Announced(t, id))
                          => Announced(s \o t, id)
<1> DEFINE u == s \o t
<1>1. /\ Len(u) = Len(s) + Len(t) /\ u \in Seq(S)
      /\ \A i \in 1..(Len(s) + Len(t)) : u[i] = IF i <= Len(s) THEN s[i] ELSE t[i - Len(s)]
  BY ConcatProperties
<1>2. Range(u) = Range(s) \cup Range(t) BY RangeConcatenation
<1> HIDE DEF u
<1>3. /\ DOMAIN u = 1..(Len(s) + Len(t)) /\ DOMAIN s = 1..Len(s) /\ DOMAIN t = 1..Len(t)
      /\ Len(s) \in Nat /\ Len(t) \in Nat
  BY <1>1
<1>4. \A i \in DOMAIN s : i \in DOMAIN u /\ u[i] = s[i] BY <1>1, <1>3
<1>5. \A i \in DOMAIN u : i \in DOMAIN s \/ (i - Len(s) \in DOMAIN t /\ u[i] = t[i - Len(s)])
  BY <1>1, <1>3
<1>6. ASSUME NEW i \in DOMAIN t PROVE i + Len(s) \in DOMAIN u /\ u[i + Len(s)] = t[i]
  <2>1. /\ i + Len(s) \in 1..(Len(s) + Len(t)) /\ ~(i + Len(s) <= Len(s))
        /\ (i + Len(s)) - Len(s) = i
    BY <1>3
  <2> QED BY <1>1, <1>3, <2>1
<1>7. \A kind, id : Carries(u, kind, id) <=> (Carries(s, kind, id) \/ Carries(t, kind, id))
  BY <1>2 DEF Carries
<1>8. ASSUME NEW R, Ordered(s, R), Ordered(t, R),
             \A f \in Range(s), g \in Range(t) : <<f, g>> \in R
      PROVE  Ordered(u, R)
  <2> SUFFICES ASSUME NEW i \in DOMAIN u, NEW j \in DOMAIN u, i < j
               PROVE  <<u[i], u[j]>> \in R
    BY DEF Ordered
  <2>1. CASE i \in DOMAIN s /\ j \in DOMAIN s BY <1>4, <1>8, <2>1 DEF Ordered
  <2>2. CASE i \in DOMAIN s /\ j \notin DOMAIN s
    <3>1. u[i] \in Range(s) /\ u[j] \in Range(t) BY <1>4, <1>5, <2>2 DEF Range
    <3> QED BY <1>8, <3>1
  <2>3. CASE i \notin DOMAIN s
    <3>1. j \notin DOMAIN s BY <1>3, <2>3
    <3>2. i - Len(s) < j - Len(s) BY <1>3
    <3> QED BY <1>5, <1>8, <2>3, <3>1, <3>2 DEF Ordered
  <2> QED BY <2>1, <2>2, <2>3
<1>9. ASSUME NEW id, Announced(s, id), Carries(s, "Delivery", id) \/ Announced(t, id)
      PROVE  Announced(u, id)
  <2> SUFFICES ASSUME NEW i \in DOMAIN u, u[i].kind = "Delivery", u[i].id > id
               PROVE  \E k \in DOMAIN u : k < i /\ u[k].kind = "Delivery" /\ u[k].id = id
    BY DEF Announced
  <2>1. CASE i \in DOMAIN s
    <3>1. PICK k \in DOMAIN s : k < i /\ s[k].kind = "Delivery" /\ s[k].id = id
      BY <1>4, <1>9, <2>1 DEF Announced
    <3> QED BY <1>4, <3>1
  <2>2. CASE i \notin DOMAIN s /\ Carries(s, "Delivery", id)
    <3>1. PICK k \in DOMAIN s : s[k].kind = "Delivery" /\ s[k].id = id
      BY <2>2 DEF Carries, Range
    <3>2. k < i BY <1>3, <2>2, <3>1
    <3> QED BY <1>4, <3>1, <3>2
  <2>3. CASE i \notin DOMAIN s /\ Announced(t, id)
    <3>1. i - Len(s) \in DOMAIN t /\ u[i] = t[i - Len(s)] BY <1>5, <2>3
    <3>2. PICK k \in DOMAIN t : k < i - Len(s) /\ t[k].kind = "Delivery" /\ t[k].id = id
      BY <2>3, <3>1 DEF Announced
    <3>3. k + Len(s) \in DOMAIN u /\ u[k + Len(s)] = t[k] BY <1>6
    <3>4. k + Len(s) < i BY <1>3, <3>2
    <3> QED BY <3>2, <3>3, <3>4
  <2> QED BY <1>9, <2>1, <2>2, <2>3
<1> QED BY <1>2, <1>7, <1>8, <1>9 DEF u

-----------------------------------------------------------------------------
(***************************************************************************)
(* The operators of InfraLink and of the connection.                       *)
(***************************************************************************)
\* PendingFrames::acknowledge removes at most one frame, one with the identifier,
\* and keeps all the others.
LEMMA AcknowledgeType ==
    ASSUME NEW S, NEW pend \in Seq(S), NEW id
    PROVE  /\ Acknowledge(pend, id) \in Seq(S)
           /\ Len(Acknowledge(pend, id)) <= Len(pend)
           /\ Ids(Acknowledge(pend, id)) \subseteq Ids(pend)
           /\ Ids(pend) \subseteq Ids(Acknowledge(pend, id)) \cup {id}
           /\ \A R : Ordered(pend, R) => Ordered(Acknowledge(pend, id), R)
<1>1. CASE \E i \in DOMAIN pend : pend[i].id = id
  <2> DEFINE k == CHOOSE i \in DOMAIN pend : pend[i].id = id
             a == SubSeq(pend, 1, k - 1)
             b == SubSeq(pend, k + 1, Len(pend))
             c == a \o b
  <2>1. Len(pend) \in Nat /\ k \in 1..Len(pend) /\ pend[k].id = id BY <1>1
  <2>2. Acknowledge(pend, id) = c
    BY <1>1 DEF Acknowledge
  <2> HIDE DEF k
  <2>3. /\ a \in Seq(S) /\ Len(a) = k - 1
        /\ \A i \in 1..(k - 1) : a[i] = pend[i]
    <3>1. \A i \in 1..(k - 1) : pend[i] \in S BY <2>1
    <3> QED BY <2>1, <3>1, SubSeqProperties
  <2>4. /\ b \in Seq(S) /\ Len(b) = Len(pend) - k
        /\ \A i \in 1..(Len(pend) - k) : b[i] = pend[k + i]
    <3>1. \A i \in (k + 1)..Len(pend) : pend[i] \in S BY <2>1
    <3>2. /\ b \in Seq(S)
          /\ Len(b) = IF k + 1 <= Len(pend) THEN Len(pend) - (k + 1) + 1 ELSE 0
          /\ \A i \in 1..(Len(pend) - (k + 1) + 1) : b[i] = pend[(k + 1) + i - 1]
      BY <2>1, <3>1, SubSeqProperties
    <3> QED BY <2>1, <3>2
  <2> HIDE DEF a, b
  <2>5. /\ c \in Seq(S) /\ Len(c) = Len(a) + Len(b)
        /\ \A i \in 1..(Len(a) + Len(b)) :
               c[i] = IF i <= Len(a) THEN a[i] ELSE b[i - Len(a)]
    BY <2>3, <2>4, ConcatProperties
  <2> HIDE DEF c
  <2>6. Len(c) = Len(pend) - 1 /\ DOMAIN c = 1..(Len(pend) - 1)
    BY <2>1, <2>3, <2>4, <2>5
  <2>7. ASSUME NEW i \in 1..(Len(pend) - 1), i < k
        PROVE  c[i] = pend[i]
    <3>1. i \in 1..(Len(a) + Len(b)) /\ i <= Len(a) /\ i \in 1..(k - 1)
      BY <2>1, <2>3, <2>4, <2>7
    <3>2. c[i] = a[i] BY <2>5, <3>1
    <3>3. a[i] = pend[i] BY <2>3, <3>1
    <3> QED BY <3>2, <3>3
  <2>8. ASSUME NEW i \in 1..(Len(pend) - 1), i >= k
        PROVE  c[i] = pend[i + 1]
    <3>0. i \in 1..(Len(a) + Len(b)) /\ ~(i <= Len(a)) /\ Len(a) = k - 1
      BY <2>1, <2>3, <2>4, <2>8
    <3>1. c[i] = b[i - (k - 1)] BY <2>5, <3>0
    <3>2. i - (k - 1) \in 1..(Len(pend) - k) BY <2>1, <2>8
    <3>3. b[i - (k - 1)] = pend[k + (i - (k - 1))] BY <2>4, <3>2
    <3>4. k + (i - (k - 1)) = i + 1 BY <2>1
    <3> QED BY <3>1, <3>3, <3>4
  <2>9. Ids(c) \subseteq Ids(pend)
    <3>1. ASSUME NEW i \in 1..(Len(pend) - 1) PROVE \E j \in 1..Len(pend) : c[i] = pend[j]
      <4>1. CASE i < k BY <2>1, <2>7, <4>1
      <4>2. CASE i >= k
        <5>1. i + 1 \in 1..Len(pend) BY <2>1
        <5> QED BY <2>8, <4>2, <5>1
      <4> QED BY <2>1, <4>1, <4>2
    <3>2. DOMAIN pend = 1..Len(pend) OBVIOUS
    <3>3. ASSUME NEW v \in Ids(c) PROVE v \in Ids(pend)
      <4>1. PICK i \in 1..(Len(pend) - 1) : v = c[i].id BY <2>6 DEF Ids
      <4>2. PICK j \in 1..Len(pend) : c[i] = pend[j] BY <3>1
      <4> QED BY <3>2, <4>1, <4>2 DEF Ids
    <3> QED BY <3>3
  <2>10. Ids(pend) \subseteq Ids(c) \cup {id}
    <3>1. ASSUME NEW j \in 1..Len(pend), j # k
          PROVE  \E i \in 1..(Len(pend) - 1) : c[i] = pend[j]
      <4>1. CASE j < k
        <5>1. j \in 1..(Len(pend) - 1) BY <2>1, <4>1
        <5> QED BY <2>7, <4>1, <5>1
      <4>2. CASE j > k
        <5>1. j - 1 \in 1..(Len(pend) - 1) /\ j - 1 >= k /\ (j - 1) + 1 = j BY <2>1, <4>2
        <5>2. c[j - 1] = pend[(j - 1) + 1] BY <2>8, <5>1
        <5> QED BY <5>1, <5>2
      <4> QED BY <2>1, <3>1, <4>1, <4>2
    <3>2. DOMAIN pend = 1..Len(pend) OBVIOUS
    <3>3. ASSUME NEW v \in Ids(pend), v # id PROVE v \in Ids(c)
      <4>1. PICK j \in 1..Len(pend) : v = pend[j].id BY <3>2 DEF Ids
      <4>2. j # k BY <2>1, <3>3, <4>1
      <4>3. PICK i \in 1..(Len(pend) - 1) : c[i] = pend[j] BY <3>1, <4>2
      <4> QED BY <2>6, <4>1, <4>3 DEF Ids
    <3> QED BY <3>3
  <2>11. ASSUME NEW R, Ordered(pend, R) PROVE Ordered(c, R)
    <3> DEFINE at(i) == IF i < k THEN i ELSE i + 1
    <3>1. ASSUME NEW i \in DOMAIN c PROVE at(i) \in DOMAIN pend /\ c[i] = pend[at(i)]
      <4>1. i \in 1..(Len(pend) - 1) /\ DOMAIN pend = 1..Len(pend) BY <2>6
      <4>2. at(i) \in 1..Len(pend) BY <2>1, <4>1
      <4>3. CASE i < k BY <2>7, <4>1, <4>2, <4>3
      <4>4. CASE i >= k BY <2>1, <2>8, <4>1, <4>2, <4>4
      <4> QED BY <2>1, <4>1, <4>3, <4>4
    <3>2. ASSUME NEW i \in DOMAIN c, NEW j \in DOMAIN c, i < j PROVE at(i) < at(j)
      BY <2>1, <2>6, <3>2
    <3> HIDE DEF at
    <3> QED BY <2>11, <3>1, <3>2 DEF Ordered
  <2> QED BY <2>1, <2>2, <2>5, <2>6, <2>9, <2>10, <2>11
<1>2. CASE ~(\E i \in DOMAIN pend : pend[i].id = id)
  <2>1. Acknowledge(pend, id) = pend BY <1>2 DEF Acknowledge
  <2> QED BY <2>1
<1> QED BY <1>1, <1>2

\* DedupWindow::insert keeps the window within its depth.
LEMMA DedupInsertType ==
    ASSUME NEW S, NEW w \in Seq(S), NEW max \in Nat \ {0}, NEW id \in S, Len(w) <= max
    PROVE  /\ DedupInsert(w, max, id) \in Seq(S)
           /\ Len(DedupInsert(w, max, id)) <= max
BY DEF DedupInsert

\* What is in a window after an insertion: the new identifier and all that was there,
\* except the oldest one of a full window.
LEMMA DedupInsertEntries ==
    ASSUME NEW S, NEW w \in Seq(S), NEW max \in Nat \ {0}, NEW id \in S, Len(w) <= max
    PROVE  LET v == DedupInsert(w, max, id)
           IN  /\ Contains(v, id)
               /\ \A x : Contains(v, x) => Contains(w, x) \/ x = id
               /\ \A x : Contains(w, x) => Contains(v, x) \/ (Len(w) = max /\ x = w[1])
<1> DEFINE v == DedupInsert(w, max, id)
<1>0. Len(w) \in Nat /\ DOMAIN w = 1..Len(w) OBVIOUS
<1>1. CASE Contains(w, id) BY <1>1 DEF DedupInsert
<1>2. CASE ~Contains(w, id) /\ Len(w) # max
  <2>1. v = Append(w, id) BY <1>2 DEF DedupInsert
  <2>2. /\ DOMAIN v = 1..(Len(w) + 1) /\ v[Len(w) + 1] = id
        /\ \A i \in DOMAIN w : i \in DOMAIN v /\ v[i] = w[i]
    BY <1>0, <2>1
  <2> HIDE DEF v
  <2>3. Len(w) + 1 \in DOMAIN v /\ \A i \in DOMAIN v : i \in DOMAIN w \/ i = Len(w) + 1
    BY <1>0, <2>2
  <2>4. /\ Contains(v, id) /\ \A x : Contains(v, x) => Contains(w, x) \/ x = id
        /\ \A x : Contains(w, x) => Contains(v, x)
    BY <2>2, <2>3 DEF Contains
  <2> QED BY <2>4 DEF v
<1>3. CASE ~Contains(w, id) /\ Len(w) = max
  <2> DEFINE t == Tail(w)
  <2>0. /\ t \in Seq(S) /\ Len(t) = Len(w) - 1 /\ \A i \in 1..Len(t) : t[i] = w[i + 1]
    BY <1>3, HeadTailProperties
  <2>1. v = Append(t, id) BY <1>3 DEF DedupInsert
  <2> HIDE DEF t
  <2>2. /\ DOMAIN v = 1..Len(w) /\ v[Len(w)] = id
        /\ \A i \in 1..(Len(w) - 1) : v[i] = w[i + 1]
    BY <1>0, <1>3, <2>0, <2>1
  <2> HIDE DEF v
  <2>3. Len(w) \in DOMAIN v /\ \A i \in DOMAIN v : i \in 1..(Len(w) - 1) \/ i = Len(w)
    BY <1>0, <1>3, <2>2
  <2>4. \A i \in 1..(Len(w) - 1) : i \in DOMAIN v /\ i + 1 \in DOMAIN w BY <1>0, <2>2
  <2>5. \A i \in DOMAIN w : i = 1 \/ (i - 1 \in 1..(Len(w) - 1) /\ (i - 1) + 1 = i) BY <1>0
  <2>6. Contains(v, id) /\ \A x : Contains(v, x) => Contains(w, x) \/ x = id
    BY <2>2, <2>3, <2>4 DEF Contains
  <2>7. \A x : Contains(w, x) => Contains(v, x) \/ x = w[1]
    <3>1. ASSUME NEW i \in DOMAIN w, i # 1 PROVE Contains(v, w[i])
      <4>1. i - 1 \in DOMAIN v /\ v[i - 1] = w[i] BY <2>2, <2>4, <2>5, <3>1
      <4> QED BY <4>1 DEF Contains
    <3> QED BY <3>1 DEF Contains
  <2> QED BY <1>3, <2>6, <2>7 DEF v
<1> QED BY <1>1, <1>2, <1>3

\* Writing frames to the connection.
LEMMA SentType ==
    ASSUME NEW S, NEW chan \in Seq(S), NEW fs \in Seq(S)
    PROVE  Sent(chan, fs) \in Seq(S)
BY DEF Sent

\* Losing a suffix of the frames in flight.
LEMMA SurvivorsType ==
    ASSUME NEW S, NEW chan \in Seq(S), NEW chan_ \in Survivors(chan)
    PROVE  chan_ \in Seq(S)
BY DEF Survivors

\* What a direction carries after a batch was written to it.
LEMMA SentFrames ==
    ASSUME NEW S, NEW chan \in Seq(S), NEW fs \in Seq(S)
    PROVE  LET t == Sent(chan, fs)
           IN  /\ \A kind, id : Carries(t, kind, id) =>
                      Carries(chan, kind, id) \/ (conn = "linked" /\ Carries(fs, kind, id))
               /\ \A R : Ordered(chan, R) /\ Ordered(fs, R)
                         /\ (\A f \in Range(chan), g \in Range(fs) : <<f, g>> \in R)
                             => Ordered(t, R)
               /\ \A id : Announced(chan, id)
                            /\ (Carries(chan, "Delivery", id) \/ Announced(fs, id))
                              => Announced(t, id)
<1>1. CASE conn = "linked"
  <2>1. Sent(chan, fs) = chan \o fs BY <1>1 DEF Sent
  <2> QED BY <1>1, <2>1, JoinFrames
<1>2. CASE conn # "linked"
  <2>1. Sent(chan, fs) = chan BY <1>2 DEF Sent
  <2> QED BY <2>1
<1> QED BY <1>1, <1>2

LEMMA SurvivingFrames ==
    ASSUME NEW S, NEW chan \in Seq(S), NEW t \in Survivors(chan)
    PROVE  /\ \A kind, id : Carries(t, kind, id) => Carries(chan, kind, id)
           /\ \A R : Ordered(chan, R) => Ordered(t, R)
           /\ \A id : Announced(chan, id) => Announced(t, id)
<1>1. CASE conn = "linked"
  <2>1. PICK n \in 0..Len(chan) : t = SubSeq(chan, 1, n) BY <1>1 DEF Survivors
  <2> QED BY <2>1, PrefixFrames
<1>2. CASE conn # "linked"
  <2>1. t = chan BY <1>2 DEF Survivors
  <2> QED BY <2>1
<1> QED BY <1>1, <1>2

\* The frames the two peers make.
LEMMA FrameTypes ==
    /\ \A id \in Nat : Ack(id) \in Frames /\ Delivery(id) \in Frames
    /\ \A id \in Nat, session \in Requests : RequestFrame(id, session) \in Frames
    /\ \A kind \in FrameKinds : AuthFrame(kind) \in Frames
BY DEF Ack, Delivery, RequestFrame, AuthFrame, Frame, Frames, FrameKinds, NoId

\* Writing one acknowledgement.
LEMMA SentAckType ==
    ASSUME NEW chan \in Seq(Frames), NEW id \in Nat
    PROVE  Sent(chan, <<Ack(id)>>) \in Seq(Frames)
<1>1. <<Ack(id)>> \in Seq(Frames) BY FrameTypes
<1> QED BY <1>1, SentType

-----------------------------------------------------------------------------
(***************************************************************************)
(* Type correctness.                                                       *)
(***************************************************************************)
LEMMA TypeInit == Init => TypeOK
BY DepthAssumption, CaDedupAssumption
   DEF Init, TypeOK, BrokerStates, CaStates, ConnStates, NoId

\* Both ways of closing leave well-formed directions.
LEMMA CloseType ==
    ASSUME TypeOK
    PROVE  /\ BClose => bState' \in BrokerStates /\ conn' \in ConnStates
                        /\ b2c' \in Seq(Frames) /\ c2b' \in Seq(Frames)
           /\ CClose => cState' \in CaStates /\ conn' \in ConnStates
                        /\ b2c' \in Seq(Frames) /\ c2b' \in Seq(Frames)
<1>1. ASSUME BClose PROVE b2c' \in Seq(Frames)
  BY <1>1, SurvivorsType DEF TypeOK, BClose
<1>2. ASSUME CClose PROVE c2b' \in Seq(Frames)
  BY <1>2, SurvivorsType DEF TypeOK, CClose
<1>3. <<>> \in Seq(Frames) OBVIOUS
<1> QED BY <1>1, <1>2, <1>3 DEF TypeOK, BClose, CClose, BrokerStates, CaStates, ConnStates

\* What a non-empty direction holds.
LEMMA HeadType ==
    ASSUME NEW chan \in Seq(Frames), chan # <<>>
    PROVE  /\ Head(chan) \in Frames /\ Tail(chan) \in Seq(Frames)
           /\ Head(chan).id \in Nat /\ Head(chan).payload \in Requests \cup {NoPayload}
<1>1. Head(chan) \in Frames /\ Tail(chan) \in Seq(Frames) BY HeadTailProperties
<1> QED BY <1>1 DEF Frames

LEMMA TypeNext == TypeOK /\ [Next]_vars => TypeOK'
<1> SUFFICES ASSUME TypeOK, [Next]_vars PROVE TypeOK'
  OBVIOUS
<1> USE DepthAssumption, CaDedupAssumption, BoundAssumption
<1>1. ASSUME NEW session \in Requests, AgentRequest(session) PROVE TypeOK'
  BY <1>1 DEF AgentRequest, TypeOK, cVars, net, history
<1>2. CASE BConnect
  BY <1>2 DEF BConnect, TypeOK, cVars, budgets, history, BrokerStates, ConnStates
<1>3. CASE CAccept
  <2>1. <<AuthFrame("AuthChallenge")>> \in Seq(Frames) BY FrameTypes DEF FrameKinds
  <2> QED BY <1>3, <2>1 DEF CAccept, TypeOK, bVars, budgets, history, CaStates, ConnStates
<1>4. CASE BRecvChallenge
  <2>1. <<AuthFrame("AuthResponse")>> \in Seq(Frames) BY FrameTypes DEF FrameKinds
  <2>2. Tail(c2b) \in Seq(Frames) /\ Sent(b2c, <<AuthFrame("AuthResponse")>>) \in Seq(Frames)
    BY <1>4, <2>1, HeadType, SentType DEF BRecvChallenge, BReads, TypeOK
  <2> QED BY <1>4, <2>2 DEF BRecvChallenge, TypeOK, cVars, budgets, history, BrokerStates
<1>5. CASE CRecvAuthResponse
  <2>1. <<AuthFrame("AuthOk")>> \o pending_deliveries \in Seq(Frames)
    BY FrameTypes DEF FrameKinds, TypeOK
  <2>2. /\ Tail(b2c) \in Seq(Frames)
        /\ Sent(c2b, <<AuthFrame("AuthOk")>> \o pending_deliveries) \in Seq(Frames)
    BY <1>5, <2>1, HeadType, SentType DEF CRecvAuthResponse, CReads, TypeOK
  <2> QED BY <1>5, <2>2 DEF CRecvAuthResponse, TypeOK, bVars, budgets, history, CaStates
<1>6. CASE BRecvAuthOk
  <2>1. Tail(c2b) \in Seq(Frames) /\ Sent(b2c, pending) \in Seq(Frames)
    BY <1>6, HeadType, SentType DEF BRecvAuthOk, BReads, TypeOK
  <2> QED BY <1>6, <2>1 DEF BRecvAuthOk, TypeOK, cVars, budgets, history, BrokerStates
<1>7. CASE BTakeRequest
  <2> DEFINE frame == RequestFrame(issued + 1, Head(requests))
  <2>1. Head(requests) \in Requests /\ Tail(requests) \in Seq(Requests)
        /\ Len(Tail(requests)) <= CaQueueDepth
    BY <1>7, HeadTailProperties DEF BTakeRequest, TypeOK
  <2>2. frame \in Frames BY <2>1, FrameTypes DEF TypeOK
  <2>3. <<frame>> \in Seq(Frames) BY <2>2
  <2>4. Sent(b2c, <<frame>>) \in Seq(Frames) BY <2>3, SentType DEF TypeOK
  <2>5. Append(pending, frame) \in Seq(Frames) /\ Len(Append(pending, frame)) <= CaQueueDepth
    BY <1>7, <2>2 DEF BTakeRequest, TypeOK, IsFull
  <2> HIDE DEF frame
  <2>6. pending' = Append(pending, frame) /\ b2c' = Sent(b2c, <<frame>>)
    BY <1>7 DEF BTakeRequest, frame
  <2> QED BY <1>7, <2>1, <2>4, <2>5, <2>6 DEF BTakeRequest, TypeOK, cVars, budgets
<1>8. CASE BRecvAck
  <2>1. Tail(c2b) \in Seq(Frames) BY <1>8, HeadType DEF BRecvAck, BReads, TypeOK
  <2>2. /\ Acknowledge(pending, Head(c2b).id) \in Seq(Frames)
        /\ Len(Acknowledge(pending, Head(c2b).id)) <= Len(pending)
    BY AcknowledgeType DEF TypeOK
  <2>3. Len(pending') <= CaQueueDepth /\ pending' \in Seq(Frames)
    BY <1>8, <2>2 DEF BRecvAck, TypeOK
  <2> QED BY <1>8, <2>1, <2>3 DEF BRecvAck, TypeOK, cVars, budgets, history
<1>9. CASE BRecvDuplicateDelivery
  <2>1. Tail(c2b) \in Seq(Frames) /\ Head(c2b).id \in Nat
    BY <1>9, HeadType DEF BRecvDuplicateDelivery, BReads, TypeOK
  <2>2. Sent(b2c, <<Ack(Head(c2b).id)>>) \in Seq(Frames)
    BY <2>1, SentAckType DEF TypeOK
  <2> QED BY <1>9, <2>1, <2>2 DEF BRecvDuplicateDelivery, TypeOK, bVars, cVars, budgets, history
<1>10. CASE BRouteDelivery
  <2>1. Tail(c2b) \in Seq(Frames) /\ Head(c2b).id \in Nat
    BY <1>10, HeadType DEF BRouteDelivery, BReads, TypeOK
  <2>2. Sent(b2c, <<Ack(Head(c2b).id)>>) \in Seq(Frames)
    BY <2>1, SentAckType DEF TypeOK
  <2>3. Append(routed, Head(c2b).id) \in Seq(Nat) BY <2>1 DEF TypeOK
  <2>4. CASE BrokerDedupDepth = 0
    <3>1. BClose /\ UNCHANGED acquired_deliveries BY <1>10, <2>4 DEF BRouteDelivery
    <3> QED BY <1>10, <2>3, <3>1, CloseType DEF BRouteDelivery, TypeOK, cVars, budgets
  <2>5. CASE BrokerDedupDepth # 0
    <3>1. /\ DedupInsert(acquired_deliveries, BrokerDedupDepth, Head(c2b).id) \in Seq(Nat)
          /\ Len(DedupInsert(acquired_deliveries, BrokerDedupDepth, Head(c2b).id))
                 <= BrokerDedupDepth
      BY <2>1, <2>5, DedupInsertType DEF TypeOK
    <3>2. /\ acquired_deliveries' =
                DedupInsert(acquired_deliveries, BrokerDedupDepth, Head(c2b).id)
          /\ b2c' = Sent(b2c, <<Ack(Head(c2b).id)>>) /\ c2b' = Tail(c2b)
          /\ UNCHANGED <<bState, conn>>
      BY <1>10, <2>5 DEF BRouteDelivery
    <3> QED BY <1>10, <2>1, <2>2, <2>3, <3>1, <3>2 DEF BRouteDelivery, TypeOK, cVars, budgets
  <2> QED BY <2>4, <2>5
<1>11. CASE BRejectDelivery
  BY <1>11, CloseType DEF BRejectDelivery, TypeOK, cVars, history
<1>12. CASE BRetry
  BY <1>12, SentType DEF BRetry, TypeOK, bVars, cVars, budgets, history
<1>13. CASE CRecvAck
  <2>1. Tail(b2c) \in Seq(Frames) BY <1>13, HeadType DEF CRecvAck, CReads, TypeOK
  <2>2. /\ Acknowledge(pending_deliveries, Head(b2c).id) \in Seq(Frames)
        /\ Len(Acknowledge(pending_deliveries, Head(b2c).id)) <= Len(pending_deliveries)
    BY AcknowledgeType DEF TypeOK
  <2>3. pending_deliveries' \in Seq(Frames) /\ Len(pending_deliveries') <= CaPendingDepth
    BY <1>13, <2>2 DEF CRecvAck, TypeOK
  <2>4. Sent(c2b, <<Ack(current_request)>>) \in Seq(Frames)
    BY SentAckType DEF TypeOK
  <2>5. current_request' \in Nat /\ c2b' \in Seq(Frames)
    BY <1>13, <2>4 DEF CRecvAck, TypeOK, NoId
  <2> QED BY <1>13, <2>1, <2>3, <2>5 DEF CRecvAck, TypeOK, bVars, budgets, history
<1>14. CASE CRecvCurrentRequest
  BY <1>14, HeadType DEF CRecvCurrentRequest, CReads, TypeOK, bVars, cVars, budgets, history
<1>15. CASE CRecvAcquiredRequest
  <2>1. Tail(b2c) \in Seq(Frames) /\ Head(b2c).id \in Nat
    BY <1>15, HeadType DEF CRecvAcquiredRequest, CReads, TypeOK
  <2>2. Sent(c2b, <<Ack(Head(b2c).id)>>) \in Seq(Frames)
    BY <2>1, SentAckType DEF TypeOK
  <2> QED BY <1>15, <2>1, <2>2 DEF CRecvAcquiredRequest, TypeOK, bVars, cVars, budgets, history
<1>16. CASE CProcessNoDelivery
  <2>1. /\ Tail(b2c) \in Seq(Frames) /\ Head(b2c).id \in Nat
        /\ Head(b2c).payload \in Requests \cup {NoPayload}
    BY <1>16, HeadType DEF CProcessNoDelivery, CReadsNewRequest, CReads, TypeOK
  <2>2. Sent(c2b, <<Ack(Head(b2c).id)>>) \in Seq(Frames)
    BY <2>1, SentAckType DEF TypeOK
  <2>3. /\ DedupInsert(acquired_requests, CaDedupDepth, Head(b2c).id) \in Seq(Nat)
        /\ Len(DedupInsert(acquired_requests, CaDedupDepth, Head(b2c).id)) <= CaDedupDepth
    BY <2>1, DedupInsertType DEF TypeOK
  <2>4. Append(processed, Head(b2c).id) \in Seq(Nat) BY <2>1 DEF TypeOK
  <2>5. applied' \subseteq Requests \cup {NoPayload}
    BY <1>16, <2>1 DEF CProcessNoDelivery, TypeOK
  <2> QED BY <1>16, <2>1, <2>2, <2>3, <2>4, <2>5 DEF CProcessNoDelivery, TypeOK, bVars, budgets
<1>17. ASSUME NEW n \in 1..MaxGroup, CPublish(n) PROVE TypeOK'
  <2>1. /\ Tail(b2c) \in Seq(Frames) /\ Head(b2c).id \in Nat
        /\ Head(b2c).payload \in Requests \cup {NoPayload}
    BY <1>17, HeadType DEF CPublish, CReadsNewRequest, CReads, TypeOK
  <2>2. applied' \subseteq Requests \cup {NoPayload}
    BY <1>17, <2>1 DEF CPublish, TypeOK
  <2>3. CASE n > Remaining(pending_deliveries, CaPendingDepth)
    <3>1. CClose /\ UNCHANGED <<current_request, pending_deliveries, acquired_requests,
                                processed, origin>>
      BY <1>17, <2>3 DEF CPublish
    <3> QED BY <1>17, <2>2, <3>1, CloseType DEF CPublish, TypeOK, bVars, budgets
  <2>4. CASE ~(n > Remaining(pending_deliveries, CaPendingDepth))
    <3> DEFINE group == [i \in 1..n |-> Delivery(Len(origin) + i)]
               tags  == [i \in 1..n |-> Head(b2c).id]
    <3>1. /\ pending_deliveries' = pending_deliveries \o group
          /\ acquired_requests' = DedupInsert(acquired_requests, CaDedupDepth, Head(b2c).id)
          /\ current_request' = Head(b2c).id
          /\ origin' = origin \o tags
          /\ processed' = Append(processed, Head(b2c).id)
          /\ b2c' = Tail(b2c) /\ c2b' = Sent(c2b, group)
          /\ UNCHANGED <<cState, conn>>
      BY <1>17, <2>4 DEF CPublish
    <3>2. group \in Seq(Frames) /\ Len(group) = n /\ tags \in Seq(Nat)
      <4>1. Len(origin) \in Nat /\ n \in Nat BY DEF TypeOK
      <4>2. \A i \in 1..n : Delivery(Len(origin) + i) \in Frames BY <4>1, FrameTypes
      <4> QED BY <2>1, <4>1, <4>2
    <3> HIDE DEF group, tags
    <3>3. /\ DedupInsert(acquired_requests, CaDedupDepth, Head(b2c).id) \in Seq(Nat)
          /\ Len(DedupInsert(acquired_requests, CaDedupDepth, Head(b2c).id)) <= CaDedupDepth
      BY <2>1, DedupInsertType DEF TypeOK
    <3>4. /\ pending_deliveries \o group \in Seq(Frames)
          /\ Len(pending_deliveries \o group) <= CaPendingDepth
      BY <2>4, <3>2 DEF TypeOK, Remaining
    <3>5. /\ origin \o tags \in Seq(Nat) /\ Append(processed, Head(b2c).id) \in Seq(Nat)
          /\ Sent(c2b, group) \in Seq(Frames)
      BY <2>1, <3>2, SentType DEF TypeOK
    <3> QED BY <1>17, <2>1, <2>2, <3>1, <3>3, <3>4, <3>5 DEF CPublish, TypeOK, bVars, budgets
  <2> QED BY <2>3, <2>4
<1>18. CASE CUnexpectedRequest
  BY <1>18, CloseType DEF CUnexpectedRequest, TypeOK, bVars, budgets, history
<1>19. CASE CRetry
  BY <1>19, SentType DEF CRetry, TypeOK, bVars, cVars, budgets, history
<1>20. CASE BEof
  BY <1>20, CloseType DEF BEof, TypeOK, cVars, budgets, history
<1>21. CASE CEof
  BY <1>21, CloseType DEF CEof, TypeOK, bVars, budgets, history
<1>22. CASE BLinkFailure
  BY <1>22, CloseType DEF BLinkFailure, TypeOK, cVars, history
<1>23. CASE CLinkFailure
  BY <1>23, CloseType DEF CLinkFailure, TypeOK, bVars, history
<1>24. CASE BrokerRestart
  BY <1>24, CloseType DEF BrokerRestart, TypeOK, cVars, history
<1>25. CASE CaRestart
  BY <1>25, SurvivorsType DEF CaRestart, TypeOK, bVars, history, CaStates, ConnStates, NoId
<1>26. CASE UNCHANGED vars
  BY <1>26 DEF vars, bVars, cVars, net, budgets, history, TypeOK
<1> QED
  BY <1>1, <1>2, <1>3, <1>4, <1>5, <1>6, <1>7, <1>8, <1>9, <1>10, <1>11, <1>12, <1>13, <1>14,
     <1>15, <1>16, <1>17, <1>18, <1>19, <1>20, <1>21, <1>22, <1>23, <1>24, <1>25, <1>26
     DEF Next, BStep, CStep, Faults

\* brokerd's and cad's queues, windows and frames keep their shape, and no queue or
\* window ever exceeds its configured depth, whatever the two ends do.
THEOREM TypeCorrect == Spec => []TypeOK
BY TypeInit, TypeNext, PTL DEF Spec

-----------------------------------------------------------------------------
(***************************************************************************)
(* No delivery is lost.  The strengthening says what each frame that       *)
(* brokerd sent, or remembers, stands for: a request it made carries an    *)
(* identifier, and an acknowledgement, like an entry of the deduplication  *)
(* window, names a delivery that was routed.                               *)
(***************************************************************************)
Routed         == {d \in Nat : Contains(routed, d)}
BrokerRequests == {f \in Frames : f.kind = "Request" /\ f.id # NoId}
BrokerFrames   == {f \in Frames : /\ f.kind = "Request" => f.id # NoId
                                  /\ f.kind = "Ack" => f.id \in Routed}

LinkInv ==
    /\ TypeOK
    /\ pending \in Seq(BrokerRequests)
    /\ b2c \in Seq(BrokerFrames)
    /\ acquired_deliveries \in Seq(Routed)
    /\ CurrentIffPending
    /\ NoDeliveryLost

LEMMA LinkInit == Init => LinkInv
<1> SUFFICES ASSUME Init PROVE LinkInv OBVIOUS
<1>1. TypeOK BY TypeInit
<1>2. pending = <<>> /\ b2c = <<>> /\ acquired_deliveries = <<>> /\ origin = <<>>
  BY DEF Init
<1>3. CurrentIffPending BY DEF Init, CurrentIffPending
<1>4. NoDeliveryLost BY <1>2 DEF NoDeliveryLost
<1> QED BY <1>1, <1>2, <1>3, <1>4 DEF LinkInv

\* While nothing is routed, the sets the strengthening speaks of stay the same.
LEMMA SameRouted ==
    ASSUME UNCHANGED routed
    PROVE  Routed' = Routed /\ BrokerFrames' = BrokerFrames
BY DEF Routed, BrokerFrames

\* A step that leaves cad's group alone keeps what is said of it.
LEMMA KeepsGroup ==
    ASSUME LinkInv, UNCHANGED <<current_request, pending_deliveries, origin, cRestarts>>,
           Routed \subseteq Routed'
    PROVE  CurrentIffPending' /\ NoDeliveryLost'
<1>1. CurrentIffPending' BY DEF LinkInv, CurrentIffPending
<1>2. ASSUME cRestarts = 0, NEW d \in DOMAIN origin, ~(d \in Ids(pending_deliveries))
      PROVE  Contains(routed, d)'
  <2>1. d \in Nat BY DEF LinkInv, TypeOK
  <2>2. d \in Routed BY <1>2, <2>1 DEF LinkInv, NoDeliveryLost, Routed
  <2> QED BY <2>2 DEF Routed
<1>3. NoDeliveryLost' BY <1>2 DEF NoDeliveryLost
<1> QED BY <1>1, <1>3

\* A step that leaves brokerd's own state alone.
LEMMA KeepsBroker ==
    ASSUME LinkInv, UNCHANGED <<pending, acquired_deliveries, routed>>
    PROVE  pending' \in Seq(BrokerRequests') /\ acquired_deliveries' \in Seq(Routed')
BY SameRouted DEF LinkInv, BrokerRequests

\* What brokerd writes.
LEMMA BrokerFrameKinds ==
    /\ BrokerRequests \subseteq BrokerFrames
    /\ \A d \in Routed : Ack(d) \in BrokerFrames
    /\ AuthFrame("AuthResponse") \in BrokerFrames
<1>1. \A d \in Routed : Ack(d) \in Frames /\ Ack(d).kind = "Ack" /\ Ack(d).id = d
  BY FrameTypes DEF Routed, Ack, Frame
<1>2. AuthFrame("AuthResponse") \in Frames /\ AuthFrame("AuthResponse").kind = "AuthResponse"
  BY FrameTypes DEF FrameKinds, AuthFrame, Frame
<1> QED BY <1>1, <1>2 DEF BrokerFrames, BrokerRequests

\* Reading one frame of a well-formed direction.
LEMMA TailIn ==
    ASSUME NEW S, NEW chan \in Seq(S), chan # <<>>
    PROVE  Head(chan) \in S /\ Tail(chan) \in Seq(S)
BY HeadTailProperties

\* The identifiers of a longer group.
LEMMA IdsConcat ==
    ASSUME NEW S, NEW s \in Seq(S), NEW t \in Seq(S)
    PROVE  Ids(s \o t) = Ids(s) \cup Ids(t)
<1> DEFINE u == s \o t
<1>1. /\ Len(u) = Len(s) + Len(t) /\ u \in Seq(S)
      /\ \A i \in 1..(Len(s) + Len(t)) : u[i] = IF i <= Len(s) THEN s[i] ELSE t[i - Len(s)]
  BY ConcatProperties
<1> HIDE DEF u
<1>2. /\ DOMAIN u = 1..(Len(s) + Len(t)) /\ DOMAIN s = 1..Len(s) /\ DOMAIN t = 1..Len(t)
      /\ Len(s) \in Nat /\ Len(t) \in Nat
  BY <1>1
<1>3. ASSUME NEW v \in Ids(u) PROVE v \in Ids(s) \cup Ids(t)
  <2>1. PICK i \in 1..(Len(s) + Len(t)) : v = u[i].id BY <1>2 DEF Ids
  <2>2. CASE i <= Len(s)
    <3>1. u[i] = s[i] /\ i \in 1..Len(s) BY <1>1, <1>2, <2>2
    <3> QED BY <1>2, <2>1, <3>1 DEF Ids
  <2>3. CASE ~(i <= Len(s))
    <3>1. u[i] = t[i - Len(s)] /\ i - Len(s) \in 1..Len(t) BY <1>1, <1>2, <2>3
    <3> QED BY <1>2, <2>1, <3>1 DEF Ids
  <2> QED BY <2>2, <2>3
<1>4. ASSUME NEW v \in Ids(s) PROVE v \in Ids(u)
  <2>1. PICK i \in 1..Len(s) : v = s[i].id BY <1>2 DEF Ids
  <2>2. i \in 1..(Len(s) + Len(t)) /\ i <= Len(s) BY <1>2
  <2>3. u[i] = s[i] BY <1>1, <2>2
  <2> QED BY <1>2, <2>1, <2>2, <2>3 DEF Ids
<1>5. ASSUME NEW v \in Ids(t) PROVE v \in Ids(u)
  <2>1. PICK i \in 1..Len(t) : v = t[i].id BY <1>2 DEF Ids
  <2>2. /\ i + Len(s) \in 1..(Len(s) + Len(t)) /\ ~(i + Len(s) <= Len(s))
        /\ (i + Len(s)) - Len(s) = i
    BY <1>2
  <2>3. u[i + Len(s)] = t[i] BY <1>1, <2>2
  <2> QED BY <1>2, <2>1, <2>2, <2>3 DEF Ids
<1>6. Ids(u) = Ids(s) \cup Ids(t) BY <1>3, <1>4, <1>5
<1> QED BY <1>6 DEF u

\* A step that neither routes nor touches brokerd's state or cad's group preserves
\* the invariant when the frames it leaves towards cad are brokerd's.
LEMMA OtherStep ==
    ASSUME LinkInv, TypeOK', b2c' \in Seq(BrokerFrames),
           UNCHANGED <<pending, acquired_deliveries, routed,
                       current_request, pending_deliveries, origin, cRestarts>>
    PROVE  LinkInv'
<1>1. Routed' = Routed /\ BrokerFrames' = BrokerFrames BY SameRouted
<1>2. CurrentIffPending' /\ NoDeliveryLost' BY <1>1, KeepsGroup
<1>3. pending' \in Seq(BrokerRequests') /\ acquired_deliveries' \in Seq(Routed')
  BY KeepsBroker
<1> QED BY <1>1, <1>2, <1>3 DEF LinkInv

LEMMA LinkNext == LinkInv /\ [Next]_vars => LinkInv'
<1> SUFFICES ASSUME LinkInv, [Next]_vars PROVE LinkInv'
  OBVIOUS
<1>0. TypeOK /\ TypeOK' BY TypeNext DEF LinkInv
<1>a. /\ pending \in Seq(BrokerRequests) /\ b2c \in Seq(BrokerFrames)
      /\ acquired_deliveries \in Seq(Routed)
      /\ pending \in Seq(BrokerFrames)
  <2>1. pending \in Seq(BrokerRequests) /\ BrokerRequests \subseteq BrokerFrames
    BY BrokerFrameKinds DEF LinkInv
  <2> QED BY <2>1, SeqMonotonic DEF LinkInv
<1>b. /\ BClose => b2c' \in Seq(BrokerFrames)
      /\ CClose => b2c' \in Seq(BrokerFrames)
  <2>1. ASSUME BClose PROVE b2c' \in Seq(BrokerFrames)
    BY <1>a, <2>1, SurvivorsType DEF BClose
  <2>2. ASSUME CClose PROVE b2c' \in Seq(BrokerFrames)
    BY <2>2 DEF CClose
  <2> QED BY <2>1, <2>2
<1>1. ASSUME NEW session \in Requests, AgentRequest(session) PROVE LinkInv'
  BY <1>0, <1>a, <1>1, OtherStep DEF AgentRequest, cVars, net, history
<1>2. CASE BConnect
  BY <1>0, <1>a, <1>2, OtherStep DEF BConnect, cVars, budgets, history
<1>3. CASE CAccept
  <2>1. b2c' \in Seq(BrokerFrames) BY <1>3 DEF CAccept
  <2> QED BY <1>0, <1>3, <2>1, OtherStep DEF CAccept, bVars, budgets, history
<1>4. CASE BRecvChallenge
  <2>1. <<AuthFrame("AuthResponse")>> \in Seq(BrokerFrames) BY BrokerFrameKinds
  <2>2. b2c' \in Seq(BrokerFrames) BY <1>4, <1>a, <2>1, SentType DEF BRecvChallenge
  <2> QED BY <1>0, <1>4, <2>2, OtherStep DEF BRecvChallenge, cVars, budgets, history
<1>5. CASE CRecvAuthResponse
  <2>1. b2c' \in Seq(BrokerFrames) BY <1>5, <1>a, TailIn DEF CRecvAuthResponse, CReads
  <2> QED BY <1>0, <1>5, <2>1, OtherStep DEF CRecvAuthResponse, bVars, budgets, history
<1>6. CASE BRecvAuthOk
  <2>1. b2c' \in Seq(BrokerFrames) BY <1>6, <1>a, SentType DEF BRecvAuthOk
  <2> QED BY <1>0, <1>6, <2>1, OtherStep DEF BRecvAuthOk, cVars, budgets, history
<1>7. CASE BTakeRequest
  <2> DEFINE frame == RequestFrame(issued + 1, Head(requests))
  <2>1. pending' = Append(pending, frame) /\ b2c' = Sent(b2c, <<frame>>)
    BY <1>7 DEF BTakeRequest
  <2>2. frame \in BrokerRequests
    <3>0. requests \in Seq(Requests) /\ requests # <<>> /\ issued \in Nat
      BY <1>0, <1>7 DEF BTakeRequest, TypeOK
    <3>1. Head(requests) \in Requests /\ issued + 1 \in Nat /\ issued + 1 # NoId
      BY <3>0, HeadTailProperties DEF NoId
    <3>2. frame \in Frames BY <3>1, FrameTypes
    <3> QED BY <3>1, <3>2 DEF BrokerRequests, RequestFrame, Frame
  <2> HIDE DEF frame
  <2>3. pending' \in Seq(BrokerRequests') BY <1>a, <2>1, <2>2 DEF BrokerRequests
  <2>4. frame \in BrokerFrames BY <2>2, BrokerFrameKinds
  <2>5. b2c' \in Seq(BrokerFrames)
    <3>1. <<frame>> \in Seq(BrokerFrames) BY <2>4
    <3> QED BY <1>a, <2>1, <3>1, SentType
  <2>6. UNCHANGED <<routed, acquired_deliveries, current_request, pending_deliveries,
                    origin, cRestarts>>
    BY <1>7 DEF BTakeRequest, cVars, budgets
  <2>7. Routed' = Routed /\ BrokerFrames' = BrokerFrames BY <2>6, SameRouted
  <2>8. CurrentIffPending' /\ NoDeliveryLost' BY <2>6, <2>7, KeepsGroup
  <2> QED BY <1>0, <1>a, <2>3, <2>5, <2>6, <2>7, <2>8 DEF LinkInv
<1>8. CASE BRecvAck
  <2>1. pending' \in Seq(BrokerRequests')
    BY <1>a, <1>8, AcknowledgeType DEF BRecvAck, BrokerRequests
  <2>2. UNCHANGED <<routed, acquired_deliveries, b2c, current_request, pending_deliveries,
                    origin, cRestarts>>
    BY <1>8 DEF BRecvAck, cVars, budgets, history
  <2>3. Routed' = Routed /\ BrokerFrames' = BrokerFrames BY <2>2, SameRouted
  <2>4. CurrentIffPending' /\ NoDeliveryLost' BY <2>2, <2>3, KeepsGroup
  <2> QED BY <1>0, <1>a, <2>1, <2>2, <2>3, <2>4 DEF LinkInv
<1>9. CASE BRecvDuplicateDelivery
  <2>1. Head(c2b).id \in Routed
    <3>1. PICK i \in DOMAIN acquired_deliveries : acquired_deliveries[i] = Head(c2b).id
      BY <1>9 DEF BRecvDuplicateDelivery, Contains
    <3> QED BY <1>a, <3>1
  <2>2. <<Ack(Head(c2b).id)>> \in Seq(BrokerFrames) BY <2>1, BrokerFrameKinds
  <2>3. b2c' \in Seq(BrokerFrames) BY <1>a, <1>9, <2>2, SentType DEF BRecvDuplicateDelivery
  <2> QED BY <1>0, <1>9, <2>3, OtherStep
          DEF BRecvDuplicateDelivery, bVars, cVars, budgets, history
<1>10. CASE BRouteDelivery
  <2>1. Head(c2b).id \in Nat
    BY <1>0, <1>10, HeadType DEF BRouteDelivery, BReads, TypeOK
  <2>2. routed' = Append(routed, Head(c2b).id) /\ routed \in Seq(Nat) /\ routed' \in Seq(Nat)
    BY <1>0, <1>10 DEF BRouteDelivery, TypeOK
  <2>3. Routed \subseteq Routed' /\ Head(c2b).id \in Routed'
    <3>1. /\ Len(routed) \in Nat /\ DOMAIN routed = 1..Len(routed)
          /\ DOMAIN routed' = 1..(Len(routed) + 1)
          /\ \A i \in 1..Len(routed) : routed'[i] = routed[i]
          /\ routed'[Len(routed) + 1] = Head(c2b).id
      BY <2>1, <2>2
    <3>2. Routed \subseteq Routed' BY <3>1 DEF Routed, Contains
    <3>3. Len(routed) + 1 \in DOMAIN routed' BY <3>1
    <3>4. \E i \in DOMAIN routed' : routed'[i] = Head(c2b).id BY <3>1, <3>3
    <3>5. Head(c2b).id \in Routed' BY <2>1, <3>4 DEF Routed, Contains
    <3> QED BY <3>2, <3>5
  <2>4. BrokerFrames \subseteq BrokerFrames' BY <2>3 DEF BrokerFrames
  <2>5. b2c \in Seq(BrokerFrames') /\ acquired_deliveries \in Seq(Routed')
    BY <1>a, <2>3, <2>4, SeqMonotonic
  <2>6. UNCHANGED <<pending, current_request, pending_deliveries, origin, cRestarts>>
    BY <1>10 DEF BRouteDelivery, cVars, budgets
  <2>7. CurrentIffPending' /\ NoDeliveryLost' BY <2>3, <2>6, KeepsGroup
  <2>8. b2c' \in Seq(BrokerFrames') /\ acquired_deliveries' \in Seq(Routed')
    <3>1. CASE BrokerDedupDepth = 0
      <4>1. BClose /\ UNCHANGED acquired_deliveries BY <1>10, <3>1 DEF BRouteDelivery
      <4> QED BY <2>5, <4>1, SurvivorsType DEF BClose
    <3>2. CASE BrokerDedupDepth # 0
      <4>1. /\ acquired_deliveries' =
                  DedupInsert(acquired_deliveries, BrokerDedupDepth, Head(c2b).id)
            /\ b2c' = Sent(b2c, <<Ack(Head(c2b).id)>>)
        BY <1>10, <3>2 DEF BRouteDelivery
      <4>2. Ack(Head(c2b).id) \in BrokerFrames'
        <5>1. /\ Ack(Head(c2b).id) \in Frames
              /\ Ack(Head(c2b).id).kind = "Ack" /\ Ack(Head(c2b).id).id = Head(c2b).id
          BY <2>1, FrameTypes DEF Ack, Frame
        <5> QED BY <2>3, <5>1 DEF BrokerFrames
      <4>3. <<Ack(Head(c2b).id)>> \in Seq(BrokerFrames') BY <4>2
      <4>4. b2c' \in Seq(BrokerFrames') BY <2>5, <4>1, <4>3, SentType
      <4>5. BrokerDedupDepth \in Nat \ {0} /\ Len(acquired_deliveries) <= BrokerDedupDepth
        BY <1>0, <3>2, DepthAssumption DEF TypeOK
      <4>6. acquired_deliveries' \in Seq(Routed')
        BY <2>3, <2>5, <4>1, <4>5, DedupInsertType
      <4> QED BY <4>4, <4>6
    <3> QED BY <3>1, <3>2
  <2>9. pending' \in Seq(BrokerRequests') BY <1>a, <2>6 DEF BrokerRequests
  <2> QED BY <1>0, <2>7, <2>8, <2>9 DEF LinkInv
<1>11. CASE BRejectDelivery
  BY <1>0, <1>b, <1>11, OtherStep DEF BRejectDelivery, cVars, history
<1>12. CASE BRetry
  <2>1. b2c' \in Seq(BrokerFrames) BY <1>a, <1>12, SentType DEF BRetry
  <2> QED BY <1>0, <1>12, <2>1, OtherStep DEF BRetry, bVars, cVars, budgets, history
<1>13. CASE CRecvAck
  <2> DEFINE id == Head(b2c).id
  <2>1. id \in Routed /\ b2c' \in Seq(BrokerFrames)
    <3>1. Head(b2c) \in BrokerFrames /\ Head(b2c).kind = "Ack" /\ Tail(b2c) \in Seq(BrokerFrames)
      BY <1>a, <1>13, TailIn DEF CRecvAck, CReads
    <3> QED BY <1>13, <3>1 DEF CRecvAck, BrokerFrames
  <2>2. UNCHANGED <<pending, acquired_deliveries, routed, origin, cRestarts>>
    BY <1>13 DEF CRecvAck, bVars, budgets, history
  <2>3. Routed' = Routed /\ BrokerFrames' = BrokerFrames BY <2>2, SameRouted
  <2>4. pending_deliveries' = Acknowledge(pending_deliveries, id) BY <1>13 DEF CRecvAck
  <2> HIDE DEF id
  <2>5. /\ Len(pending_deliveries') <= Len(pending_deliveries)
        /\ Ids(pending_deliveries) \subseteq Ids(pending_deliveries') \cup {id}
    BY <1>0, <2>4, AcknowledgeType DEF TypeOK
  <2>6. CurrentIffPending'
    <3>1. current_request' = IF pending_deliveries' = <<>> /\ current_request # NoId
                             THEN NoId ELSE current_request
      BY <1>13 DEF CRecvAck
    <3>2. (current_request = NoId) <=> (pending_deliveries = <<>>)
      BY DEF LinkInv, CurrentIffPending
    <3>3. pending_deliveries = <<>> => pending_deliveries' = <<>>
      BY <1>0, <2>5 DEF TypeOK
    <3> QED BY <3>1, <3>2, <3>3 DEF CurrentIffPending
  <2>7. NoDeliveryLost'
    <3>1. ASSUME cRestarts = 0, NEW d \in DOMAIN origin, ~(d \in Ids(pending_deliveries'))
          PROVE  Contains(routed, d)
      <4>1. CASE d \in Ids(pending_deliveries)
        <5>1. d \in Routed BY <2>1, <2>5, <3>1, <4>1
        <5> QED BY <5>1 DEF Routed
      <4>2. CASE ~(d \in Ids(pending_deliveries))
        BY <3>1, <4>2 DEF LinkInv, NoDeliveryLost
      <4> QED BY <4>1, <4>2
    <3> QED BY <2>2, <3>1 DEF NoDeliveryLost, Contains
  <2>8. pending' \in Seq(BrokerRequests') /\ acquired_deliveries' \in Seq(Routed')
    BY <2>2, KeepsBroker
  <2> QED BY <1>0, <2>1, <2>3, <2>6, <2>7, <2>8 DEF LinkInv
<1>14. CASE CRecvCurrentRequest
  <2>1. b2c' \in Seq(BrokerFrames) BY <1>a, <1>14, TailIn DEF CRecvCurrentRequest, CReads
  <2> QED BY <1>0, <1>14, <2>1, OtherStep
          DEF CRecvCurrentRequest, bVars, cVars, budgets, history
<1>15. CASE CRecvAcquiredRequest
  <2>1. b2c' \in Seq(BrokerFrames) BY <1>a, <1>15, TailIn DEF CRecvAcquiredRequest, CReads
  <2> QED BY <1>0, <1>15, <2>1, OtherStep
          DEF CRecvAcquiredRequest, bVars, cVars, budgets, history
<1>16. CASE CProcessNoDelivery
  <2>1. b2c' \in Seq(BrokerFrames)
    BY <1>a, <1>16, TailIn DEF CProcessNoDelivery, CReadsNewRequest, CReads
  <2> QED BY <1>0, <1>16, <2>1, OtherStep DEF CProcessNoDelivery, bVars, budgets
<1>17. ASSUME NEW n \in 1..MaxGroup, CPublish(n) PROVE LinkInv'
  <2>1. CASE n > Remaining(pending_deliveries, CaPendingDepth)
    <3>1. CClose /\ UNCHANGED <<current_request, pending_deliveries, origin>>
      BY <1>17, <2>1 DEF CPublish
    <3> QED BY <1>0, <1>b, <1>17, <3>1, OtherStep DEF CPublish, bVars, budgets
  <2>2. CASE ~(n > Remaining(pending_deliveries, CaPendingDepth))
    <3> DEFINE group == [i \in 1..n |-> Delivery(Len(origin) + i)]
               tags  == [i \in 1..n |-> Head(b2c).id]
    <3>1. /\ pending_deliveries' = pending_deliveries \o group
          /\ origin' = origin \o tags
          /\ current_request' = Head(b2c).id
          /\ b2c' = Tail(b2c)
      BY <1>17, <2>2 DEF CPublish
    <3>2. /\ Head(b2c) \in BrokerFrames /\ Head(b2c).kind = "Request"
          /\ b2c' \in Seq(BrokerFrames)
      BY <1>a, <1>17, <3>1, TailIn DEF CPublish, CReadsNewRequest, CReads
    <3>3. current_request' # NoId BY <3>1, <3>2 DEF BrokerFrames
    <3>4. /\ n \in Nat /\ n >= 1 /\ Len(origin) \in Nat /\ origin \in Seq(Nat)
          /\ pending_deliveries \in Seq(Frames) /\ Head(b2c).id \in Nat
      <4>1. Head(b2c).id \in Nat BY <3>2 DEF BrokerFrames, Frames
      <4>2. n \in Nat /\ n >= 1 BY DepthAssumption
      <4>3. origin \in Seq(Nat) /\ pending_deliveries \in Seq(Frames) BY <1>0 DEF TypeOK
      <4> QED BY <4>1, <4>2, <4>3
    <3>5. /\ group \in Seq(Frames) /\ Len(group) = n
          /\ \A i \in 1..n : group[i].id = Len(origin) + i
      <4>1. \A i \in 1..n : Delivery(Len(origin) + i) \in Frames BY <3>4, FrameTypes
      <4>2. \A i \in 1..n : Delivery(Len(origin) + i).id = Len(origin) + i
        BY DEF Delivery, Frame
      <4> QED BY <3>4, <4>1, <4>2
    <3>6. tags \in Seq(Nat) /\ Len(tags) = n BY <3>4
    <3> HIDE DEF group, tags
    <3>7. pending_deliveries' # <<>> BY <3>1, <3>4, <3>5
    <3>8. Ids(pending_deliveries') = Ids(pending_deliveries) \cup Ids(group)
      BY <3>1, <3>4, <3>5, IdsConcat
    <3>9. DOMAIN origin = 1..Len(origin) /\ DOMAIN origin' = 1..(Len(origin) + n)
      <4>1. origin \o tags \in Seq(Nat) /\ Len(origin \o tags) = Len(origin) + n
        BY <3>4, <3>6, ConcatProperties
      <4> QED BY <3>1, <3>4, <4>1
    <3>10. UNCHANGED <<pending, acquired_deliveries, routed, cRestarts>>
      BY <1>17 DEF CPublish, bVars, budgets
    <3>11. ASSUME cRestarts = 0, NEW d \in DOMAIN origin', ~(d \in Ids(pending_deliveries'))
           PROVE  Contains(routed, d)
      <4>1. d \in 1..(Len(origin) + n) BY <3>9
      <4>2. CASE d <= Len(origin)
        <5>1. d \in DOMAIN origin BY <3>4, <3>9, <4>1, <4>2
        <5> QED BY <3>8, <3>11, <5>1 DEF LinkInv, NoDeliveryLost
      <4>3. CASE d > Len(origin)
        <5>1. d - Len(origin) \in 1..n /\ Len(origin) + (d - Len(origin)) = d
          BY <3>4, <4>1, <4>3
        <5>2. group[d - Len(origin)].id = d /\ DOMAIN group = 1..n
          BY <3>4, <3>5, <5>1
        <5>3. d \in Ids(group) BY <5>1, <5>2 DEF Ids
        <5> QED BY <3>8, <3>11, <5>3
      <4> QED BY <3>4, <4>1, <4>2, <4>3
    <3>12. NoDeliveryLost' BY <3>10, <3>11 DEF NoDeliveryLost, Contains
    <3>13. CurrentIffPending' BY <3>3, <3>7 DEF CurrentIffPending
    <3>14. Routed' = Routed /\ BrokerFrames' = BrokerFrames BY <3>10, SameRouted
    <3>15. pending' \in Seq(BrokerRequests') /\ acquired_deliveries' \in Seq(Routed')
      BY <3>10, KeepsBroker
    <3> QED BY <1>0, <3>2, <3>12, <3>13, <3>14, <3>15 DEF LinkInv
  <2> QED BY <2>1, <2>2
<1>18. CASE CUnexpectedRequest
  BY <1>0, <1>b, <1>18, OtherStep DEF CUnexpectedRequest, bVars, budgets, history
<1>19. CASE CRetry
  BY <1>0, <1>a, <1>19, OtherStep DEF CRetry, bVars, cVars, budgets, history
<1>20. CASE BEof
  BY <1>0, <1>b, <1>20, OtherStep DEF BEof, cVars, budgets, history
<1>21. CASE CEof
  BY <1>0, <1>b, <1>21, OtherStep DEF CEof, bVars, budgets, history
<1>22. CASE BLinkFailure
  BY <1>0, <1>b, <1>22, OtherStep DEF BLinkFailure, cVars, history
<1>23. CASE CLinkFailure
  BY <1>0, <1>b, <1>23, OtherStep DEF CLinkFailure, bVars, history
<1>24. CASE BrokerRestart
  <2>1. /\ pending' = <<>> /\ acquired_deliveries' = <<>> /\ b2c' \in Seq(BrokerFrames)
        /\ UNCHANGED <<routed, current_request, pending_deliveries, origin, cRestarts>>
    BY <1>b, <1>24 DEF BrokerRestart, cVars, history
  <2>2. Routed' = Routed /\ BrokerFrames' = BrokerFrames BY <2>1, SameRouted
  <2>3. CurrentIffPending' /\ NoDeliveryLost' BY <2>1, <2>2, KeepsGroup
  <2>4. pending' \in Seq(BrokerRequests') /\ acquired_deliveries' \in Seq(Routed')
    BY <2>1
  <2> QED BY <1>0, <2>1, <2>2, <2>3, <2>4 DEF LinkInv
<1>25. CASE CaRestart
  <2>1. /\ b2c' = <<>> /\ current_request' = NoId /\ pending_deliveries' = <<>>
        /\ cRestarts' = cRestarts + 1
        /\ UNCHANGED <<pending, acquired_deliveries, routed>>
    BY <1>25 DEF CaRestart, bVars, history
  <2>2. CurrentIffPending' BY <2>1 DEF CurrentIffPending
  <2>3. NoDeliveryLost'
    <3>1. cRestarts' # 0 BY <1>0, <2>1 DEF TypeOK
    <3> QED BY <3>1 DEF NoDeliveryLost
  <2>4. pending' \in Seq(BrokerRequests') /\ acquired_deliveries' \in Seq(Routed')
    BY <2>1, KeepsBroker
  <2>5. b2c' \in Seq(BrokerFrames') BY <2>1
  <2> QED BY <1>0, <2>2, <2>3, <2>4, <2>5 DEF LinkInv
<1>26. CASE UNCHANGED vars
  BY <1>0, <1>a, <1>26, OtherStep DEF vars, bVars, cVars, net, budgets, history
<1> QED
  BY <1>1, <1>2, <1>3, <1>4, <1>5, <1>6, <1>7, <1>8, <1>9, <1>10, <1>11, <1>12, <1>13, <1>14,
     <1>15, <1>16, <1>17, <1>18, <1>19, <1>20, <1>21, <1>22, <1>23, <1>24, <1>25, <1>26
     DEF Next, BStep, CStep, Faults

LEMMA LinkInvariant == Spec => []LinkInv
BY LinkInit, LinkNext, PTL DEF Spec

\* cad's main loop has a current request exactly while deliveries of its group are
\* unacknowledged, across every disconnection and every restart of either process.
THEOREM CurrentRequestTracksGroup == Spec => []CurrentIffPending
<1>1. LinkInv => CurrentIffPending BY DEF LinkInv
<1> QED BY <1>1, LinkInvariant, PTL

\* cad never takes the QueueFull arm of a publication it has already applied: when it
\* reads a new request, its delivery queue has room for the largest group.
THEOREM GroupFits == Spec => []GroupAlwaysFits
<1>1. LinkInv => GroupAlwaysFits
  <2> SUFFICES ASSUME LinkInv, CReadsNewRequest
               PROVE  Remaining(pending_deliveries, CaPendingDepth) >= MaxGroup
    BY DEF GroupAlwaysFits
  <2>1. pending_deliveries = <<>>
    BY DEF LinkInv, CurrentIffPending, CReadsNewRequest
  <2>2. Len(pending_deliveries) = 0 BY <2>1
  <2> QED BY <2>2, DepthAssumption DEF Remaining
<1> QED BY <1>1, LinkInvariant, PTL

\* While cad runs, it retains every delivery it generated until brokerd has routed it:
\* lost frames, lost acknowledgements, reconnections and restarts of brokerd lose none.
THEOREM DeliveriesRetained == Spec => []NoDeliveryLost
<1>1. LinkInv => NoDeliveryLost BY DEF LinkInv
<1> QED BY <1>1, LinkInvariant, PTL

-----------------------------------------------------------------------------
(***************************************************************************)
(* The requests.  brokerd has at most one request outstanding, the one it  *)
(* issued last; whatever else is on its way to cad is a copy of a request  *)
(* in cad's window.  The window may hold a single identifier: a request is *)
(* evicted by a later one only, and requests travel in order.              *)
(***************************************************************************)
RequestOrder ==
    {p \in Frames \X Frames :
        (p[1].kind = "Request" /\ p[2].kind = "Request") => p[1].id <= p[2].id}

OneOutstanding == Ids(pending) \subseteq {issued}

ProcessedKnown ==
    /\ \A x \in Nat : Contains(processed, x) => x \in 1..issued
    /\ \A x \in Nat : Contains(acquired_requests, x) => Contains(processed, x)
    /\ current_request # NoId => Contains(acquired_requests, current_request)

AnswersProcessed == \A x \in Nat : Carries(c2b, "Ack", x) => Contains(processed, x)

RequestsInOrder ==
    /\ Ordered(b2c, RequestOrder)
    /\ \A x \in Nat : Carries(b2c, "Request", x) => x \in 1..issued

\* The last request is retained and its answer is not on its way.
Outstanding == issued \in Ids(pending) /\ ~Carries(c2b, "Ack", issued)

NewIsOutstanding ==
    bRestarts = 0 =>
        \A x \in Nat : (Carries(b2c, "Request", x) /\ ~Contains(acquired_requests, x)) =>
            x = issued /\ Outstanding /\ current_request = NoId

CurrentIsOutstanding ==
    (bRestarts = 0 /\ current_request # NoId) => current_request = issued /\ Outstanding

AnswerInWindow ==
    (bRestarts = 0 /\ conn = "linked" /\ Carries(c2b, "Ack", issued)) =>
        Contains(acquired_requests, issued)

NewIsNewest ==
    cRestarts = 0 =>
        \A x \in Nat : (Carries(b2c, "Request", x) \/ x \in Ids(pending)) =>
            \/ Contains(acquired_requests, x)
            \/ \A i \in DOMAIN processed : processed[i] < x

DeliveryFrames == {f \in Frames : f.kind = "Delivery"}

GroupOfCurrent ==
    /\ pending_deliveries \in Seq(DeliveryFrames)
    /\ \A d \in Ids(pending_deliveries) : d \in DOMAIN origin /\ origin[d] = current_request

RequestInv ==
    /\ LinkInv
    /\ OneOutstanding /\ ProcessedKnown /\ AnswersProcessed /\ RequestsInOrder
    /\ RequestNeverLost
    /\ NewIsOutstanding /\ CurrentIsOutstanding /\ AnswerInWindow
    /\ NewIsNewest /\ ProcessedOnceInOrder
    /\ GroupOfCurrent

LEMMA RequestInit == Init => RequestInv
<1> SUFFICES ASSUME Init PROVE RequestInv OBVIOUS
<1>1. LinkInv BY LinkInit
<1>2. /\ pending = <<>> /\ acquired_requests = <<>> /\ current_request = NoId
      /\ pending_deliveries = <<>> /\ b2c = <<>> /\ c2b = <<>> /\ processed = <<>> /\ issued = 0
  BY DEF Init
<1>3. /\ \A kind, id : ~Carries(b2c, kind, id) /\ ~Carries(c2b, kind, id)
      /\ Ordered(b2c, RequestOrder)
  BY <1>2, NoFrames
<1>4. Ids(pending) = {} /\ Ids(pending_deliveries) = {} BY <1>2 DEF Ids
<1>5. (\A x : ~Contains(processed, x)) /\ \A x : ~Contains(acquired_requests, x)
  BY <1>2 DEF Contains
<1>6. OneOutstanding /\ GroupOfCurrent BY <1>2, <1>4 DEF OneOutstanding, GroupOfCurrent
<1>7. ProcessedKnown BY <1>2, <1>5 DEF ProcessedKnown
<1>8. AnswersProcessed /\ RequestsInOrder BY <1>3 DEF AnswersProcessed, RequestsInOrder
<1>9. NewIsOutstanding /\ CurrentIsOutstanding /\ AnswerInWindow
  BY <1>2, <1>3 DEF NewIsOutstanding, CurrentIsOutstanding, AnswerInWindow
<1>10. NewIsNewest BY <1>3, <1>4 DEF NewIsNewest
<1>11. RequestNeverLost /\ ProcessedOnceInOrder
  BY <1>2 DEF RequestNeverLost, ProcessedOnceInOrder, Increasing
<1> QED BY <1>1, <1>6, <1>7, <1>8, <1>9, <1>10, <1>11 DEF RequestInv

\* A step that neither sends a request nor answers one, nor processes one.
LEMMA QuietForRequests ==
    ASSUME RequestInv, LinkInv', GroupOfCurrent',
           UNCHANGED <<pending, issued, processed, acquired_requests, current_request,
                       bRestarts, cRestarts>>,
           Ordered(b2c', RequestOrder),
           \A x \in Nat : Carries(b2c', "Request", x) => Carries(b2c, "Request", x),
           \A x \in Nat : Carries(c2b', "Ack", x) => Carries(c2b, "Ack", x),
           conn' = "linked" => (conn = "linked" \/ \A x \in Nat : ~Carries(c2b', "Ack", x))
    PROVE  RequestInv'
<1>0. issued \in Nat BY DEF RequestInv, LinkInv, TypeOK
<1>1. OneOutstanding' BY DEF RequestInv, OneOutstanding
<1>2. ProcessedKnown' BY DEF RequestInv, ProcessedKnown
<1>3. AnswersProcessed' BY DEF RequestInv, AnswersProcessed
<1>4. RequestsInOrder' BY DEF RequestInv, RequestsInOrder, RequestOrder
<1>5. RequestNeverLost' BY DEF RequestInv, RequestNeverLost
<1>6. Outstanding => Outstanding' BY <1>0 DEF Outstanding
<1>7. NewIsOutstanding' BY <1>6 DEF RequestInv, NewIsOutstanding
<1>8. CurrentIsOutstanding' BY <1>6 DEF RequestInv, CurrentIsOutstanding
<1>9. AnswerInWindow' BY <1>0 DEF RequestInv, AnswerInWindow
<1>10. NewIsNewest' BY DEF RequestInv, NewIsNewest
<1>11. ProcessedOnceInOrder' BY DEF RequestInv, ProcessedOnceInOrder
<1> QED BY <1>1, <1>2, <1>3, <1>4, <1>5, <1>7, <1>8, <1>9, <1>10, <1>11 DEF RequestInv

\* What brokerd retains, when it retains something, is a copy of the last request.
LEMMA RetainedFrames ==
    ASSUME RequestInv
    PROVE  /\ pending \in Seq(Frames) /\ b2c \in Seq(Frames) /\ c2b \in Seq(Frames)
           /\ issued \in Nat /\ bRestarts \in Nat /\ cRestarts \in Nat
           /\ \A f \in Range(pending) : f \in Frames /\ f.kind = "Request" /\ f.id = issued
           /\ \A x \in Nat : Carries(pending, "Request", x) => x = issued /\ x \in Ids(pending)
           /\ pending # <<>> => issued \in Ids(pending)
           /\ issued \in Ids(pending) => issued \in 1..issued
           /\ Ordered(pending, RequestOrder)
<1>1. /\ pending \in Seq(Frames) /\ b2c \in Seq(Frames) /\ c2b \in Seq(Frames)
      /\ issued \in Nat /\ bRestarts \in Nat /\ cRestarts \in Nat
      /\ pending \in Seq(BrokerRequests)
  BY DEF RequestInv, LinkInv, TypeOK
<1>2. \A i \in DOMAIN pending : pending[i] \in BrokerRequests /\ pending[i].id \in Ids(pending)
  BY <1>1 DEF Ids
<1>3. \A i \in DOMAIN pending : /\ pending[i] \in Frames /\ pending[i].kind = "Request"
                                /\ pending[i].id = issued /\ pending[i].id # NoId
  BY <1>2 DEF RequestInv, OneOutstanding, BrokerRequests
<1>4. \A f \in Range(pending) : f \in Frames /\ f.kind = "Request" /\ f.id = issued
  BY <1>3 DEF Range
<1>5. \A x \in Nat : Carries(pending, "Request", x) => x = issued /\ x \in Ids(pending)
  BY <1>2, <1>3 DEF Carries, Range
<1>6. pending # <<>> => issued \in Ids(pending)
  <2> SUFFICES ASSUME pending # <<>> PROVE issued \in Ids(pending) OBVIOUS
  <2>1. 1 \in DOMAIN pending BY <1>1
  <2> QED BY <1>2, <1>3, <2>1
<1>7. issued \in Ids(pending) => issued \in 1..issued
  BY <1>1, <1>3 DEF Ids, NoId
<1>8. Ordered(pending, RequestOrder)
  BY <1>1, <1>3 DEF Ordered, RequestOrder
<1> QED BY <1>1, <1>4, <1>5, <1>6, <1>7, <1>8

\* Anything brokerd sends may follow its earlier frames.
LEMMA LastInOrder ==
    ASSUME RequestInv, NEW f \in Frames, f.kind = "Request" => f.id >= issued
    PROVE  \A g \in Range(b2c) : <<g, f>> \in RequestOrder
<1> SUFFICES ASSUME NEW g \in Range(b2c) PROVE <<g, f>> \in RequestOrder OBVIOUS
<1>1. b2c \in Seq(Frames) /\ issued \in Nat BY DEF RequestInv, LinkInv, TypeOK
<1>2. g \in Frames BY <1>1, RangeOfSeq
<1>3. g.id \in Nat /\ f.id \in Nat BY <1>2 DEF Frames
<1>4. g.kind = "Request" => g.id <= issued
  <2>1. g.kind = "Request" => Carries(b2c, "Request", g.id) BY DEF Carries
  <2> QED BY <1>1, <1>3, <2>1 DEF RequestInv, RequestsInOrder
<1> QED BY <1>1, <1>2, <1>3, <1>4 DEF RequestOrder

\* brokerd takes the next request from its queue.
LEMMA TakesRequest ==
    ASSUME RequestInv, LinkInv', BTakeRequest
    PROVE  RequestInv'
<1> DEFINE frame == RequestFrame(issued + 1, Head(requests))
<1>1. /\ pending = <<>> /\ pending' = Append(pending, frame) /\ b2c' = Sent(b2c, <<frame>>)
      /\ issued' = issued + 1
      /\ UNCHANGED <<c2b, conn, processed, acquired_requests, current_request, bRestarts,
                     cRestarts, pending_deliveries, origin>>
  BY DEF BTakeRequest, cVars, budgets
<1>2. frame.kind = "Request" /\ frame.id = issued + 1 /\ frame \in Frames
  <2>1. requests \in Seq(Requests) /\ requests # <<>> /\ issued + 1 \in Nat
    BY DEF RequestInv, LinkInv, BTakeRequest, TypeOK
  <2>2. Head(requests) \in Requests BY <2>1, HeadTailProperties
  <2> QED BY <2>1, <2>2, FrameTypes DEF RequestFrame, Frame
<1> HIDE DEF frame
<1>3. issued \in Nat /\ b2c \in Seq(Frames) /\ <<frame>> \in Seq(Frames)
  BY <1>2, RetainedFrames
<1>4. Ids(pending') = {issued'}
  <2>1. pending' = <<frame>> BY <1>1
  <2> QED BY <1>1, <1>2, <2>1 DEF Ids
<1>5. \A x \in Nat : Carries(b2c', "Request", x) => Carries(b2c, "Request", x) \/ x = issued + 1
  <2>1. \A x \in Nat : Carries(b2c', "Request", x) =>
            Carries(b2c, "Request", x) \/ Carries(<<frame>>, "Request", x)
    BY <1>1, <1>3, SentFrames
  <2>2. \A x \in Nat : Carries(<<frame>>, "Request", x) => x = issued + 1
    BY <1>2, OneFrame
  <2> QED BY <2>1, <2>2
<1>6. Ordered(b2c', RequestOrder)
  <2>1. \A g \in Range(b2c) : <<g, frame>> \in RequestOrder BY <1>2, <1>3, LastInOrder
  <2>2. Ordered(<<frame>>, RequestOrder) /\ Range(<<frame>>) = {frame} BY OneFrame
  <2>3. Ordered(b2c, RequestOrder) BY DEF RequestInv, RequestsInOrder
  <2> QED BY <1>1, <1>3, <2>1, <2>2, <2>3, SentFrames
<1>7. \A x \in Nat : Contains(processed, x) => x \in 1..issued /\ x < issued + 1
  BY <1>3 DEF RequestInv, ProcessedKnown
<1>8. Ids(pending) = {} BY <1>1 DEF Ids
<1>9. ~Carries(c2b, "Ack", issued + 1)
  BY <1>3, <1>7 DEF RequestInv, AnswersProcessed
<1>10. Outstanding' BY <1>1, <1>4, <1>9 DEF Outstanding
<1>11. bRestarts = 0 => current_request = NoId
  BY <1>8 DEF RequestInv, CurrentIsOutstanding, Outstanding
<1>12. OneOutstanding' BY <1>4 DEF OneOutstanding
<1>13. ProcessedKnown' BY <1>1, <1>3 DEF RequestInv, ProcessedKnown
<1>14. AnswersProcessed' BY <1>1 DEF RequestInv, AnswersProcessed
<1>15. RequestsInOrder'
  <2>1. \A x \in Nat : Carries(b2c', "Request", x) => x \in 1..issued'
    BY <1>1, <1>3, <1>5 DEF RequestInv, RequestsInOrder
  <2> QED BY <1>6, <2>1 DEF RequestsInOrder, RequestOrder
<1>16. RequestNeverLost'
  <2>1. bRestarts = 0 => \A id \in 1..issued : Contains(processed, id)
    BY <1>8 DEF RequestInv, RequestNeverLost
  <2>2. \A id \in 1..issued' : id \in 1..issued \/ id = issued' BY <1>1, <1>3
  <2> QED BY <1>1, <1>4, <2>1, <2>2 DEF RequestNeverLost
<1>17. NewIsOutstanding'
  <2>1. bRestarts = 0 => \A x \in Nat : Carries(b2c, "Request", x) => Contains(acquired_requests, x)
    BY <1>8 DEF RequestInv, NewIsOutstanding, Outstanding
  <2> QED BY <1>1, <1>5, <1>10, <1>11, <2>1 DEF NewIsOutstanding
<1>18. CurrentIsOutstanding' BY <1>1, <1>11 DEF CurrentIsOutstanding
<1>19. AnswerInWindow' BY <1>1, <1>9 DEF AnswerInWindow
<1>20. NewIsNewest'
  <2>1. \A i \in DOMAIN processed : processed[i] < issued + 1
    <3>0. processed \in Seq(Nat) BY DEF RequestInv, LinkInv, TypeOK
    <3>1. \A i \in DOMAIN processed : processed[i] \in Nat BY <3>0
    <3> QED BY <1>7, <3>1 DEF Contains
  <2> QED BY <1>1, <1>4, <1>5, <2>1 DEF RequestInv, NewIsNewest
<1>21. ProcessedOnceInOrder' BY <1>1 DEF RequestInv, ProcessedOnceInOrder
<1>22. GroupOfCurrent' BY <1>1 DEF RequestInv, GroupOfCurrent, DeliveryFrames
<1> QED BY <1>12, <1>13, <1>14, <1>15, <1>16, <1>17, <1>18, <1>19, <1>20, <1>21, <1>22
        DEF RequestInv

\* brokerd sends what it retains once more: at the start of a session or by its timer.
LEMMA ResendsRequest ==
    ASSUME RequestInv, LinkInv', b2c' = Sent(b2c, pending),
           \A x \in Nat : Carries(c2b', "Ack", x) => Carries(c2b, "Ack", x),
           UNCHANGED <<pending, issued, processed, acquired_requests, current_request, conn,
                       bRestarts, cRestarts, pending_deliveries, origin>>
    PROVE  RequestInv'
<1>1. /\ pending \in Seq(Frames) /\ b2c \in Seq(Frames) /\ issued \in Nat
      /\ \A f \in Range(pending) : f \in Frames /\ f.kind = "Request" /\ f.id = issued
      /\ \A x \in Nat : Carries(pending, "Request", x) => x = issued /\ x \in Ids(pending)
      /\ issued \in Ids(pending) => issued \in 1..issued
      /\ Ordered(pending, RequestOrder)
  BY RetainedFrames
<1>2. \A x \in Nat : Carries(b2c', "Request", x) =>
            Carries(b2c, "Request", x) \/ (conn = "linked" /\ x = issued /\ x \in Ids(pending))
  BY <1>1, SentFrames
<1>3. Ordered(b2c', RequestOrder)
  <2>1. \A g \in Range(b2c), f \in Range(pending) : <<g, f>> \in RequestOrder
    BY <1>1, LastInOrder
  <2>2. Ordered(b2c, RequestOrder) BY DEF RequestInv, RequestsInOrder
  <2> QED BY <1>1, <2>1, <2>2, SentFrames
<1>4. OneOutstanding' BY DEF RequestInv, OneOutstanding
<1>5. ProcessedKnown' BY DEF RequestInv, ProcessedKnown
<1>6. AnswersProcessed' BY DEF RequestInv, AnswersProcessed
<1>7. RequestsInOrder'
  <2>1. \A x \in Nat : Carries(b2c', "Request", x) => x \in 1..issued
    BY <1>1, <1>2 DEF RequestInv, RequestsInOrder
  <2> QED BY <1>3, <2>1 DEF RequestsInOrder, RequestOrder
<1>8. RequestNeverLost' BY DEF RequestInv, RequestNeverLost
<1>9. Outstanding => Outstanding' BY <1>1 DEF Outstanding
<1>10. CurrentIsOutstanding' BY <1>9 DEF RequestInv, CurrentIsOutstanding
<1>11. AnswerInWindow' BY <1>1 DEF RequestInv, AnswerInWindow
<1>12. NewIsOutstanding'
  <2>1. ASSUME bRestarts = 0, conn = "linked", issued \in Ids(pending),
               ~Contains(acquired_requests, issued)
        PROVE  Outstanding /\ current_request = NoId
    <3>1. ~Carries(c2b, "Ack", issued) BY <2>1 DEF RequestInv, AnswerInWindow
    <3>2. current_request = NoId
      BY <2>1 DEF RequestInv, CurrentIsOutstanding, ProcessedKnown
    <3> QED BY <2>1, <3>1, <3>2 DEF Outstanding
  <2> QED BY <1>2, <1>9, <2>1 DEF RequestInv, NewIsOutstanding
<1>13. NewIsNewest' BY <1>2 DEF RequestInv, NewIsNewest
<1>14. ProcessedOnceInOrder' BY DEF RequestInv, ProcessedOnceInOrder
<1>15. GroupOfCurrent' BY DEF RequestInv, GroupOfCurrent, DeliveryFrames
<1> QED BY <1>4, <1>5, <1>6, <1>7, <1>8, <1>10, <1>11, <1>12, <1>13, <1>14, <1>15
        DEF RequestInv

\* The first frame of brokerd's, when it is a request: the requests behind it are not older.
LEMMA ReadRequest ==
    ASSUME RequestInv, CReads("Request")
    PROVE  /\ Head(b2c).id \in Nat /\ Carries(b2c, "Request", Head(b2c).id)
           /\ Head(b2c).id \in 1..issued
           /\ Ordered(Tail(b2c), RequestOrder)
           /\ \A x \in Nat : Carries(Tail(b2c), "Request", x) =>
                  Carries(b2c, "Request", x) /\ Head(b2c).id <= x
<1>1. b2c \in Seq(Frames) /\ b2c # <<>> /\ Head(b2c).kind = "Request"
  BY RetainedFrames DEF CReads
<1>2. Head(b2c).id \in Nat BY <1>1, HeadType
<1>3. /\ \A kind, id : Carries(b2c, kind, id) <=>
             (Carries(Tail(b2c), kind, id) \/ (Head(b2c).kind = kind /\ Head(b2c).id = id))
      /\ Ordered(Tail(b2c), RequestOrder)
      /\ \A f \in Range(Tail(b2c)) : <<Head(b2c), f>> \in RequestOrder
  BY <1>1, ReadFrame DEF RequestInv, RequestsInOrder
<1>4. Carries(b2c, "Request", Head(b2c).id) BY <1>1, <1>3
<1>5. Head(b2c).id \in 1..issued BY <1>2, <1>4 DEF RequestInv, RequestsInOrder
<1>6. ASSUME NEW x \in Nat, Carries(Tail(b2c), "Request", x) PROVE Head(b2c).id <= x
  <2>1. PICK f \in Range(Tail(b2c)) : f.kind = "Request" /\ f.id = x BY <1>6 DEF Carries
  <2> QED BY <1>1, <1>3, <2>1 DEF RequestOrder
<1> QED BY <1>2, <1>3, <1>4, <1>5, <1>6

\* brokerd reads an answer: it forgets the last request, or nothing.
LEMMA ReadsAnswer ==
    ASSUME RequestInv, LinkInv', BRecvAck
    PROVE  RequestInv'
<1> DEFINE a == Head(c2b).id
<1>0. /\ c2b \in Seq(Frames) /\ c2b # <<>> /\ Head(c2b).kind = "Ack"
      /\ pending \in Seq(Frames) /\ issued \in Nat
  BY RetainedFrames DEF BRecvAck, BReads
<1>1. /\ pending' = Acknowledge(pending, a) /\ c2b' = Tail(c2b)
      /\ UNCHANGED <<b2c, conn, issued, processed, acquired_requests, current_request, bRestarts,
                     cRestarts, pending_deliveries, origin>>
  BY DEF BRecvAck, cVars, budgets, history
<1>2. a \in Nat /\ Carries(c2b, "Ack", a) BY <1>0, HeadType, ReadFrame
<1>3. \A x \in Nat : Carries(c2b', "Ack", x) => Carries(c2b, "Ack", x)
  BY <1>0, <1>1, ReadFrame
<1>4. Ids(pending') \subseteq Ids(pending) /\ Ids(pending) \subseteq Ids(pending') \cup {a}
  BY <1>0, <1>1, AcknowledgeType
<1> HIDE DEF a
<1>5. Contains(processed, a) BY <1>2 DEF RequestInv, AnswersProcessed
<1>6. Outstanding => Outstanding'
  <2> SUFFICES ASSUME Outstanding PROVE Outstanding' OBVIOUS
  <2>1. a # issued BY <1>2 DEF Outstanding
  <2>2. issued \in Ids(pending') BY <1>4, <2>1 DEF Outstanding
  <2>3. ~Carries(c2b', "Ack", issued) BY <1>0, <1>3 DEF Outstanding
  <2> QED BY <1>1, <2>2, <2>3 DEF Outstanding
<1>7. OneOutstanding' BY <1>1, <1>4 DEF RequestInv, OneOutstanding
<1>8. ProcessedKnown' BY <1>1 DEF RequestInv, ProcessedKnown
<1>9. AnswersProcessed' BY <1>1, <1>3 DEF RequestInv, AnswersProcessed
<1>10. RequestsInOrder' BY <1>1 DEF RequestInv, RequestsInOrder, RequestOrder
<1>11. RequestNeverLost' BY <1>1, <1>4, <1>5 DEF RequestInv, RequestNeverLost
<1>12. NewIsOutstanding' BY <1>1, <1>6 DEF RequestInv, NewIsOutstanding
<1>13. CurrentIsOutstanding' BY <1>1, <1>6 DEF RequestInv, CurrentIsOutstanding
<1>14. AnswerInWindow' BY <1>0, <1>1, <1>3 DEF RequestInv, AnswerInWindow
<1>15. NewIsNewest' BY <1>1, <1>4 DEF RequestInv, NewIsNewest
<1>16. ProcessedOnceInOrder' BY <1>1 DEF RequestInv, ProcessedOnceInOrder
<1>17. GroupOfCurrent' BY <1>1 DEF RequestInv, GroupOfCurrent, DeliveryFrames
<1> QED BY <1>7, <1>8, <1>9, <1>10, <1>11, <1>12, <1>13, <1>14, <1>15, <1>16, <1>17
        DEF RequestInv

\* cad answers a request of its window which is no longer current.
LEMMA Answers ==
    ASSUME RequestInv, LinkInv', GroupOfCurrent', NEW h \in Nat,
           Contains(acquired_requests, h), current_request' = NoId \/ current_request # h,
           current_request' \in {NoId, current_request},
           c2b' = Sent(c2b, <<Ack(h)>>),
           Ordered(b2c', RequestOrder),
           \A x \in Nat : Carries(b2c', "Request", x) => Carries(b2c, "Request", x),
           UNCHANGED <<pending, issued, processed, acquired_requests, conn,
                       bRestarts, cRestarts>>
    PROVE  RequestInv'
<1>0. c2b \in Seq(Frames) /\ <<Ack(h)>> \in Seq(Frames) /\ issued \in Nat
  BY RetainedFrames, FrameTypes
<1>1. \A x \in Nat : Carries(c2b', "Ack", x) => Carries(c2b, "Ack", x) \/ x = h
  <2>1. \A x \in Nat : Carries(c2b', "Ack", x) =>
            Carries(c2b, "Ack", x) \/ Carries(<<Ack(h)>>, "Ack", x)
    BY <1>0, SentFrames
  <2>2. \A x \in Nat : Carries(<<Ack(h)>>, "Ack", x) => x = h
    BY OneFrame DEF Ack, Frame
  <2> QED BY <2>1, <2>2
<1>2. Contains(processed, h) BY DEF RequestInv, ProcessedKnown
<1>3. h # issued /\ Outstanding => Outstanding' BY <1>0, <1>1 DEF Outstanding
<1>4. OneOutstanding' BY DEF RequestInv, OneOutstanding
<1>5. ProcessedKnown' BY DEF RequestInv, ProcessedKnown
<1>6. AnswersProcessed' BY <1>1, <1>2 DEF RequestInv, AnswersProcessed
<1>7. RequestsInOrder' BY DEF RequestInv, RequestsInOrder, RequestOrder
<1>8. RequestNeverLost' BY DEF RequestInv, RequestNeverLost
<1>9. NewIsOutstanding'
  <2> SUFFICES ASSUME bRestarts = 0, NEW x \in Nat, Carries(b2c', "Request", x),
                      ~Contains(acquired_requests, x)
               PROVE  x = issued /\ Outstanding' /\ current_request' = NoId
    BY DEF NewIsOutstanding
  <2>1. x = issued /\ Outstanding /\ current_request = NoId
    BY DEF RequestInv, NewIsOutstanding
  <2> QED BY <1>3, <2>1
<1>10. CurrentIsOutstanding'
  <2> SUFFICES ASSUME bRestarts = 0, current_request' # NoId
               PROVE  current_request' = issued /\ Outstanding'
    BY DEF CurrentIsOutstanding
  <2>1. current_request' = issued /\ Outstanding
    BY DEF RequestInv, CurrentIsOutstanding
  <2> QED BY <1>3, <2>1
<1>11. AnswerInWindow' BY <1>0, <1>1 DEF RequestInv, AnswerInWindow
<1>12. NewIsNewest' BY DEF RequestInv, NewIsNewest
<1>13. ProcessedOnceInOrder' BY DEF RequestInv, ProcessedOnceInOrder
<1> QED BY <1>4, <1>5, <1>6, <1>7, <1>8, <1>9, <1>10, <1>11, <1>12, <1>13 DEF RequestInv

\* cad processes a request that is not in its window; the answer goes out at once, or the
\* request becomes the current one.
LEMMA Processes ==
    ASSUME RequestInv, LinkInv', GroupOfCurrent', CReadsNewRequest,
           acquired_requests' = DedupInsert(acquired_requests, CaDedupDepth, Head(b2c).id),
           processed' = Append(processed, Head(b2c).id),
           b2c' = Tail(b2c),
           current_request' \in {NoId, Head(b2c).id},
           \A x \in Nat : Carries(c2b', "Ack", x) =>
               Carries(c2b, "Ack", x) \/ (current_request' = NoId /\ x = Head(b2c).id),
           UNCHANGED <<pending, issued, conn, bRestarts, cRestarts>>
    PROVE  RequestInv'
<1> DEFINE h == Head(b2c).id
<1>0. CReads("Request") /\ ~Contains(acquired_requests, h) /\ current_request = NoId
  BY DEF CReadsNewRequest
<1>1. /\ h \in Nat /\ Carries(b2c, "Request", h) /\ h \in 1..issued
      /\ Ordered(b2c', RequestOrder)
      /\ \A x \in Nat : Carries(b2c', "Request", x) => Carries(b2c, "Request", x) /\ h <= x
  BY <1>0, ReadRequest
<1>2. /\ processed' = Append(processed, h)
      /\ acquired_requests' = DedupInsert(acquired_requests, CaDedupDepth, h)
      /\ current_request' \in {NoId, h}
      /\ \A x \in Nat : Carries(c2b', "Ack", x) =>
             Carries(c2b, "Ack", x) \/ (current_request' = NoId /\ x = h)
  OBVIOUS
<1> HIDE DEF h
<1>3. /\ issued \in Nat /\ processed \in Seq(Nat) /\ acquired_requests \in Seq(Nat)
      /\ Len(acquired_requests) <= CaDedupDepth
  BY DEF RequestInv, LinkInv, TypeOK
<1>4. /\ DOMAIN processed' = 1..(Len(processed) + 1) /\ DOMAIN processed = 1..Len(processed)
      /\ processed'[Len(processed) + 1] = h /\ Len(processed) \in Nat
      /\ \A i \in DOMAIN processed : processed'[i] = processed[i] /\ processed[i] \in Nat
  BY <1>1, <1>2, <1>3
<1>5. \A x : Contains(processed', x) <=> Contains(processed, x) \/ x = h
  <2>1. \A i \in DOMAIN processed' : i \in DOMAIN processed \/ i = Len(processed) + 1 BY <1>4
  <2>2. \A i \in DOMAIN processed : i \in DOMAIN processed' BY <1>4
  <2>3. Len(processed) + 1 \in DOMAIN processed' BY <1>4
  <2> QED BY <1>4, <2>1, <2>2, <2>3 DEF Contains
<1>6. /\ Contains(acquired_requests', h)
      /\ \A x : Contains(acquired_requests', x) => Contains(acquired_requests, x) \/ x = h
  BY <1>1, <1>2, <1>3, CaDedupAssumption, DedupInsertEntries
\* Whatever may still arrive is in the window or new.
<1>7. ASSUME cRestarts = 0, NEW x \in Nat, Carries(b2c', "Request", x) \/ x \in Ids(pending)
      PROVE  x = h \/ (h < x /\ \A i \in DOMAIN processed : processed[i] < x)
  <2>1. \A i \in DOMAIN processed : processed[i] < h
    BY <1>0, <1>1, <1>7 DEF RequestInv, NewIsNewest, h
  <2>2. h <= x
    BY <1>1, <1>3, <1>7 DEF RequestInv, OneOutstanding
  <2> QED BY <1>1, <1>4, <2>1, <2>2
<1>8. bRestarts = 0 => h = issued /\ Outstanding
  BY <1>0, <1>1 DEF RequestInv, NewIsOutstanding, h
<1>9. OneOutstanding' BY DEF RequestInv, OneOutstanding
<1>10. ProcessedKnown'
  BY <1>0, <1>1, <1>2, <1>5, <1>6 DEF RequestInv, ProcessedKnown
<1>11. AnswersProcessed' BY <1>2, <1>5 DEF RequestInv, AnswersProcessed
<1>12. RequestsInOrder' BY <1>1 DEF RequestInv, RequestsInOrder, RequestOrder
<1>13. RequestNeverLost' BY <1>5 DEF RequestInv, RequestNeverLost
<1>14. NewIsOutstanding'
  <2> SUFFICES ASSUME bRestarts = 0, NEW x \in Nat, Carries(b2c', "Request", x)
               PROVE  Contains(acquired_requests', x)
    BY DEF NewIsOutstanding
  <2>1. h <= x /\ x <= issued
    BY <1>1, <1>3 DEF RequestInv, RequestsInOrder
  <2>2. x = h BY <1>1, <1>3, <1>8, <2>1
  <2> QED BY <1>6, <2>2
<1>15. CurrentIsOutstanding'
  <2> SUFFICES ASSUME bRestarts = 0, current_request' # NoId
               PROVE  current_request' = issued /\ Outstanding'
    BY DEF CurrentIsOutstanding
  <2>1. ~Carries(c2b', "Ack", issued) /\ issued \in Ids(pending)
    BY <1>2, <1>3, <1>8 DEF Outstanding
  <2> QED BY <1>2, <1>8, <2>1 DEF Outstanding
<1>16. AnswerInWindow'
  BY <1>1, <1>6, <1>8 DEF RequestInv, AnswerInWindow
<1>17. NewIsNewest'
  <2> SUFFICES ASSUME cRestarts = 0, NEW x \in Nat,
                      Carries(b2c', "Request", x) \/ x \in Ids(pending),
                      ~Contains(acquired_requests', x), NEW i \in DOMAIN processed'
               PROVE  processed'[i] < x
    BY DEF NewIsNewest
  <2>1. h < x /\ \A j \in DOMAIN processed : processed[j] < x BY <1>6, <1>7
  <2>2. i \in DOMAIN processed \/ i = Len(processed) + 1 BY <1>4
  <2> QED BY <1>4, <2>1, <2>2
<1>18. ProcessedOnceInOrder'
  <2> SUFFICES ASSUME cRestarts = 0, NEW i \in DOMAIN processed', NEW j \in DOMAIN processed',
                      i < j
               PROVE  processed'[i] < processed'[j]
    BY DEF ProcessedOnceInOrder, Increasing
  <2>1. \A k \in DOMAIN processed : processed[k] < h
    BY <1>0, <1>1 DEF RequestInv, NewIsNewest, h
  <2>2. i \in DOMAIN processed /\ (j \in DOMAIN processed \/ j = Len(processed) + 1) BY <1>4
  <2> QED BY <1>4, <2>1, <2>2 DEF RequestInv, ProcessedOnceInOrder, Increasing
<1> QED BY <1>9, <1>10, <1>11, <1>12, <1>13, <1>14, <1>15, <1>16, <1>17, <1>18 DEF RequestInv

\* brokerd loses its memory: it retains nothing, and sends nothing on the closed connection.
LEMMA BrokerForgets ==
    ASSUME RequestInv, LinkInv', BrokerRestart
    PROVE  RequestInv'
<1>1. /\ pending' = <<>> /\ c2b' = <<>> /\ conn' = "none" /\ b2c' \in Survivors(b2c)
      /\ bRestarts' = bRestarts + 1
      /\ UNCHANGED <<issued, processed, acquired_requests, current_request, cRestarts,
                     pending_deliveries, origin>>
  BY DEF BrokerRestart, BClose, cVars, history
<1>2. b2c \in Seq(Frames) /\ bRestarts' # 0 BY <1>1, RetainedFrames
<1>3. /\ Ordered(b2c', RequestOrder)
      /\ \A x \in Nat : Carries(b2c', "Request", x) => Carries(b2c, "Request", x)
  BY <1>1, <1>2, SurvivingFrames DEF RequestInv, RequestsInOrder
<1>4. Ids(pending') = {} /\ \A x \in Nat : ~Carries(c2b', "Ack", x)
  BY <1>1, NoFrames DEF Ids
<1>5. OneOutstanding' BY <1>4 DEF OneOutstanding
<1>6. ProcessedKnown' BY <1>1 DEF RequestInv, ProcessedKnown
<1>7. AnswersProcessed' BY <1>4 DEF AnswersProcessed
<1>8. RequestsInOrder' BY <1>1, <1>3 DEF RequestInv, RequestsInOrder, RequestOrder
<1>9. RequestNeverLost' BY <1>2 DEF RequestNeverLost
<1>10. NewIsOutstanding' /\ CurrentIsOutstanding' /\ AnswerInWindow'
  BY <1>2 DEF NewIsOutstanding, CurrentIsOutstanding, AnswerInWindow
<1>11. NewIsNewest' BY <1>1, <1>3, <1>4 DEF RequestInv, NewIsNewest
<1>12. ProcessedOnceInOrder' BY <1>1 DEF RequestInv, ProcessedOnceInOrder
<1>13. GroupOfCurrent' BY <1>1 DEF RequestInv, GroupOfCurrent, DeliveryFrames
<1> QED BY <1>5, <1>6, <1>7, <1>8, <1>9, <1>10, <1>11, <1>12, <1>13 DEF RequestInv

\* cad loses its memory, and what was sent to it.
LEMMA CaForgets ==
    ASSUME RequestInv, LinkInv', CaRestart
    PROVE  RequestInv'
<1>1. /\ b2c' = <<>> /\ conn' = "none" /\ c2b' \in Survivors(c2b)
      /\ current_request' = NoId /\ pending_deliveries' = <<>> /\ acquired_requests' = <<>>
      /\ cRestarts' = cRestarts + 1
      /\ UNCHANGED <<pending, issued, processed, bRestarts>>
  BY DEF CaRestart, bVars, history
<1>2. c2b \in Seq(Frames) /\ cRestarts' # 0 BY <1>1, RetainedFrames
<1>3. \A x \in Nat : Carries(c2b', "Ack", x) => Carries(c2b, "Ack", x)
  BY <1>1, <1>2, SurvivingFrames
<1>4. /\ Ordered(b2c', RequestOrder) /\ \A x \in Nat : ~Carries(b2c', "Request", x)
      /\ Ids(pending_deliveries') = {} /\ \A x : ~Contains(acquired_requests', x)
  BY <1>1, NoFrames DEF Ids, Contains
<1>5. OneOutstanding' BY <1>1 DEF RequestInv, OneOutstanding
<1>6. ProcessedKnown' BY <1>1, <1>4 DEF RequestInv, ProcessedKnown
<1>7. AnswersProcessed' BY <1>1, <1>3 DEF RequestInv, AnswersProcessed
<1>8. RequestsInOrder' BY <1>4 DEF RequestsInOrder, RequestOrder
<1>9. RequestNeverLost' BY <1>1 DEF RequestInv, RequestNeverLost
<1>10. NewIsOutstanding' /\ CurrentIsOutstanding' /\ AnswerInWindow'
  BY <1>1, <1>4 DEF NewIsOutstanding, CurrentIsOutstanding, AnswerInWindow
<1>11. NewIsNewest' /\ ProcessedOnceInOrder' BY <1>2 DEF NewIsNewest, ProcessedOnceInOrder
<1>12. GroupOfCurrent' BY <1>1, <1>4 DEF GroupOfCurrent
<1> QED BY <1>5, <1>6, <1>7, <1>8, <1>9, <1>10, <1>11, <1>12 DEF RequestInv

\* Dropping the stream on either side.
LEMMA QuietClose ==
    ASSUME RequestInv, LinkInv', BClose \/ CClose,
           UNCHANGED <<pending, issued, processed, acquired_requests, current_request,
                       bRestarts, cRestarts, pending_deliveries, origin>>
    PROVE  RequestInv'
<1>1. b2c \in Seq(Frames) /\ c2b \in Seq(Frames) BY RetainedFrames
<1>2. Ordered(b2c, RequestOrder) BY DEF RequestInv, RequestsInOrder
<1>3. GroupOfCurrent' BY DEF RequestInv, GroupOfCurrent, DeliveryFrames
<1>4. CASE BClose
  <2>1. b2c' \in Survivors(b2c) /\ c2b' = <<>> /\ conn' = "none" BY <1>4 DEF BClose
  <2>2. /\ Ordered(b2c', RequestOrder)
        /\ \A x \in Nat : Carries(b2c', "Request", x) => Carries(b2c, "Request", x)
    BY <1>1, <1>2, <2>1, SurvivingFrames
  <2>3. \A x \in Nat : ~Carries(c2b', "Ack", x) BY <2>1, NoFrames
  <2> QED BY <1>3, <2>1, <2>2, <2>3, QuietForRequests
<1>5. CASE CClose
  <2>1. /\ c2b' \in Survivors(c2b) /\ b2c' = <<>>
        /\ conn' = IF conn = "linked" THEN "none" ELSE conn
    BY <1>5 DEF CClose
  <2>2. \A x \in Nat : Carries(c2b', "Ack", x) => Carries(c2b, "Ack", x)
    BY <1>1, <2>1, SurvivingFrames
  <2>3. Ordered(b2c', RequestOrder) /\ \A x \in Nat : ~Carries(b2c', "Request", x)
    BY <2>1, NoFrames
  <2> QED BY <1>3, <2>1, <2>2, <2>3, QuietForRequests
<1> QED BY <1>4, <1>5

\* Writing something that is not a request, or not an answer.
LEMMA SendsOther ==
    ASSUME RequestInv, NEW f \in Frames
    PROVE  /\ f.kind # "Request" =>
                  /\ Ordered(Sent(b2c, <<f>>), RequestOrder)
                  /\ \A x \in Nat : Carries(Sent(b2c, <<f>>), "Request", x) =>
                                        Carries(b2c, "Request", x)
           /\ f.kind # "Ack" =>
                  \A x \in Nat : Carries(Sent(c2b, <<f>>), "Ack", x) => Carries(c2b, "Ack", x)
<1>1. b2c \in Seq(Frames) /\ c2b \in Seq(Frames) /\ <<f>> \in Seq(Frames) BY RetainedFrames
<1>2. ASSUME f.kind # "Request" PROVE Ordered(Sent(b2c, <<f>>), RequestOrder)
  <2>1. \A g \in Range(b2c) : <<g, f>> \in RequestOrder BY <1>2, LastInOrder
  <2>2. Ordered(<<f>>, RequestOrder) /\ Range(<<f>>) = {f} BY OneFrame
  <2>3. Ordered(b2c, RequestOrder) BY DEF RequestInv, RequestsInOrder
  <2> QED BY <1>1, <2>1, <2>2, <2>3, SentFrames
<1>3. \A kind : f.kind # kind => \A x \in Nat : ~Carries(<<f>>, kind, x) BY OneFrame
<1> QED BY <1>1, <1>2, <1>3, SentFrames

\* The acknowledgement of a delivery is on its way to cad, after whatever cad sent.
LEMMA QuietAck ==
    ASSUME RequestInv, LinkInv', NEW d \in Nat, b2c' = Sent(b2c, <<Ack(d)>>), conn' = conn,
           c2b # <<>>, c2b' = Tail(c2b),
           UNCHANGED <<pending, issued, processed, acquired_requests, current_request,
                       bRestarts, cRestarts, pending_deliveries, origin>>
    PROVE  RequestInv'
<1>1. Ack(d) \in Frames /\ Ack(d).kind # "Request" BY FrameTypes DEF Ack, Frame
<1>2. /\ Ordered(b2c', RequestOrder)
      /\ \A x \in Nat : Carries(b2c', "Request", x) => Carries(b2c, "Request", x)
  BY <1>1, SendsOther
<1>3. \A x \in Nat : Carries(c2b', "Ack", x) => Carries(c2b, "Ack", x)
  BY RetainedFrames, ReadFrame
<1>4. GroupOfCurrent' BY DEF RequestInv, GroupOfCurrent, DeliveryFrames
<1> QED BY <1>2, <1>3, <1>4, QuietForRequests

\* cad's deliveries are not answers.
LEMMA DeliveriesOnly ==
    ASSUME RequestInv, NEW fs \in Seq(Frames), \A f \in Range(fs) : f.kind # "Ack"
    PROVE  \A x \in Nat : Carries(Sent(c2b, fs), "Ack", x) => Carries(c2b, "Ack", x)
<1>1. \A x \in Nat : ~Carries(fs, "Ack", x) BY DEF Carries
<1> QED BY <1>1, RetainedFrames, SentFrames

\* brokerd acknowledged a delivery; the last one of a group answers the request.
LEMMA GroupShrinks ==
    ASSUME RequestInv, LinkInv', CRecvAck
    PROVE  RequestInv'
<1>0. b2c \in Seq(Frames) /\ b2c # <<>> /\ pending_deliveries \in Seq(Frames)
  BY RetainedFrames DEF CRecvAck, CReads, RequestInv, LinkInv, TypeOK
<1>1. /\ pending_deliveries' = Acknowledge(pending_deliveries, Head(b2c).id)
      /\ b2c' = Tail(b2c)
      /\ UNCHANGED <<pending, issued, processed, acquired_requests, conn, bRestarts, cRestarts,
                     origin>>
  BY DEF CRecvAck, bVars, budgets, history
<1>2. /\ Ordered(b2c', RequestOrder)
      /\ \A x \in Nat : Carries(b2c', "Request", x) => Carries(b2c, "Request", x)
  BY <1>0, <1>1, ReadFrame DEF RequestInv, RequestsInOrder
<1>3. /\ Ids(pending_deliveries') \subseteq Ids(pending_deliveries)
      /\ pending_deliveries' \in Seq(DeliveryFrames)
  BY <1>1, AcknowledgeType DEF RequestInv, GroupOfCurrent
<1>4. CASE pending_deliveries' = <<>> /\ current_request # NoId
  <2>1. current_request' = NoId /\ c2b' = Sent(c2b, <<Ack(current_request)>>)
    BY <1>4 DEF CRecvAck
  <2>2. Contains(acquired_requests, current_request) /\ current_request \in Nat
    BY <1>4 DEF RequestInv, ProcessedKnown, LinkInv, TypeOK
  <2>3. GroupOfCurrent' BY <1>3, <1>4 DEF GroupOfCurrent, Ids, DeliveryFrames
  <2> QED BY <1>1, <1>2, <2>1, <2>2, <2>3, Answers
<1>5. CASE ~(pending_deliveries' = <<>> /\ current_request # NoId)
  <2>1. UNCHANGED <<current_request, c2b>> BY <1>5 DEF CRecvAck
  <2>2. GroupOfCurrent'
    BY <1>1, <1>3, <2>1 DEF RequestInv, GroupOfCurrent, DeliveryFrames
  <2> QED BY <1>1, <1>2, <2>1, <2>2, QuietForRequests
<1> QED BY <1>4, <1>5

LEMMA ProcessesNoDelivery ==
    ASSUME RequestInv, LinkInv', CProcessNoDelivery
    PROVE  RequestInv'
<1>1. /\ CReadsNewRequest
      /\ acquired_requests' = DedupInsert(acquired_requests, CaDedupDepth, Head(b2c).id)
      /\ processed' = Append(processed, Head(b2c).id) /\ b2c' = Tail(b2c)
      /\ c2b' = Sent(c2b, <<Ack(Head(b2c).id)>>)
      /\ UNCHANGED <<pending, issued, conn, bRestarts, cRestarts, current_request,
                     pending_deliveries, origin>>
  BY DEF CProcessNoDelivery, bVars, budgets
<1>2. CReads("Request") /\ current_request = NoId BY <1>1 DEF CReadsNewRequest
<1>3. Head(b2c).id \in Nat BY <1>2, ReadRequest
<1>4. \A x \in Nat : Carries(c2b', "Ack", x) => Carries(c2b, "Ack", x) \/ x = Head(b2c).id
  <2> DEFINE answer == Ack(Head(b2c).id)
  <2>1. answer \in Frames /\ answer.id = Head(b2c).id BY <1>3, FrameTypes DEF Ack, Frame
  <2>2. c2b' = Sent(c2b, <<answer>>) BY <1>1
  <2> HIDE DEF answer
  <2>3. c2b \in Seq(Frames) /\ <<answer>> \in Seq(Frames) BY <2>1, RetainedFrames
  <2>4. \A x \in Nat : Carries(c2b', "Ack", x) =>
            Carries(c2b, "Ack", x) \/ Carries(<<answer>>, "Ack", x)
    BY <2>2, <2>3, SentFrames
  <2>5. \A x \in Nat : Carries(<<answer>>, "Ack", x) => x = Head(b2c).id
    BY <2>1, OneFrame
  <2> QED BY <2>4, <2>5
<1>5. GroupOfCurrent' BY <1>1 DEF RequestInv, GroupOfCurrent, DeliveryFrames
<1> QED BY <1>1, <1>2, <1>4, <1>5, Processes

\* The group of a publication, as cad queues and sends it.
LEMMA GroupFrames ==
    ASSUME LinkInv, CReadsNewRequest, NEW n \in 1..MaxGroup, CPublish(n)
    PROVE  LET group == [i \in 1..n |-> Delivery(Len(origin) + i)]
               tags  == [i \in 1..n |-> Head(b2c).id]
           IN  /\ n \in Nat /\ n >= 1 /\ n <= MaxGroup
               /\ ~(n > Remaining(pending_deliveries, CaPendingDepth))
               /\ pending_deliveries' = group /\ c2b' = Sent(c2b, group)
               /\ group \in Seq(Frames) /\ DOMAIN group = 1..n
               /\ \A i \in 1..n : /\ group[i].kind = "Delivery"
                                  /\ group[i].id = Len(origin) + i
               /\ Ids(group) = (Len(origin) + 1)..(Len(origin) + n)
               /\ origin \in Seq(Nat) /\ Len(origin) \in Nat
               /\ DOMAIN origin' = 1..(Len(origin) + n) /\ Len(origin') = Len(origin) + n
               /\ \A d \in (Len(origin) + 1)..(Len(origin) + n) : origin'[d] = Head(b2c).id
<1> DEFINE group == [i \in 1..n |-> Delivery(Len(origin) + i)]
           tags  == [i \in 1..n |-> Head(b2c).id]
<1>1. /\ n \in Nat /\ n >= 1 /\ n <= MaxGroup /\ MaxGroup \in Nat /\ origin \in Seq(Nat)
      /\ Len(origin) \in Nat
  BY DepthAssumption DEF LinkInv, TypeOK
<1>2. pending_deliveries = <<>>
  BY DEF LinkInv, CurrentIffPending, CReadsNewRequest
<1>3. ~(n > Remaining(pending_deliveries, CaPendingDepth))
  <2>1. Len(pending_deliveries) = 0 BY <1>2
  <2> QED BY <1>1, <2>1, DepthAssumption DEF Remaining
<1>4. /\ pending_deliveries' = pending_deliveries \o group /\ c2b' = Sent(c2b, group)
      /\ origin' = origin \o tags
  BY <1>3 DEF CPublish
<1>5. \A i \in 1..n : /\ Delivery(Len(origin) + i) \in Frames
                      /\ Delivery(Len(origin) + i).kind = "Delivery"
                      /\ Delivery(Len(origin) + i).id = Len(origin) + i
  BY <1>1, FrameTypes DEF Delivery, Frame
<1>6. group \in Seq(Frames) /\ DOMAIN group = 1..n
  <2>1. \A i \in 1..n : Delivery(Len(origin) + i) \in Frames BY <1>5
  <2>2. group \in Seq(Frames) /\ Len(group) = n BY <1>1, <2>1
  <2> QED BY <2>2
<1>7. \A i \in 1..n : group[i].kind = "Delivery" /\ group[i].id = Len(origin) + i BY <1>5
<1>8. Head(b2c).id \in Nat
  BY HeadType DEF LinkInv, TypeOK, CReadsNewRequest, CReads
<1>9. tags \in Seq(Nat) /\ Len(tags) = n /\ \A i \in 1..n : tags[i] = Head(b2c).id
  BY <1>1, <1>8
<1> HIDE DEF group, tags
<1>10. pending_deliveries' = group BY <1>2, <1>4, <1>6
<1>11. Ids(group) = (Len(origin) + 1)..(Len(origin) + n)
  <2>1. \A d \in (Len(origin) + 1)..(Len(origin) + n) :
            d - Len(origin) \in 1..n /\ Len(origin) + (d - Len(origin)) = d
    BY <1>1
  <2>2. \A i \in 1..n : Len(origin) + i \in (Len(origin) + 1)..(Len(origin) + n) BY <1>1
  <2>3. ASSUME NEW d \in (Len(origin) + 1)..(Len(origin) + n) PROVE d \in Ids(group)
    BY <1>6, <1>7, <2>1 DEF Ids
  <2>4. ASSUME NEW d \in Ids(group) PROVE d \in (Len(origin) + 1)..(Len(origin) + n)
    BY <1>6, <1>7, <2>2 DEF Ids
  <2> QED BY <2>3, <2>4
<1>12. /\ Len(origin') = Len(origin) + n /\ origin' \in Seq(Nat)
       /\ \A i \in 1..(Len(origin) + n) :
              origin'[i] = IF i <= Len(origin) THEN origin[i] ELSE tags[i - Len(origin)]
  BY <1>1, <1>4, <1>9, ConcatProperties
<1>13. DOMAIN origin' = 1..(Len(origin) + n) BY <1>12
<1>14. \A d \in (Len(origin) + 1)..(Len(origin) + n) : origin'[d] = Head(b2c).id
  <2> SUFFICES ASSUME NEW d \in (Len(origin) + 1)..(Len(origin) + n)
               PROVE  origin'[d] = Head(b2c).id
    OBVIOUS
  <2>1. d \in 1..(Len(origin) + n) /\ ~(d <= Len(origin)) /\ d - Len(origin) \in 1..n BY <1>1
  <2> QED BY <1>9, <1>12, <2>1
<1> QED BY <1>1, <1>3, <1>4, <1>6, <1>7, <1>10, <1>11, <1>12, <1>13, <1>14 DEF group

LEMMA PublishesGroup ==
    ASSUME RequestInv, LinkInv', NEW n \in 1..MaxGroup, CPublish(n)
    PROVE  RequestInv'
<1> DEFINE group == [i \in 1..n |-> Delivery(Len(origin) + i)]
<1>0. LinkInv /\ CReadsNewRequest BY DEF RequestInv, CPublish
<1>1. /\ ~(n > Remaining(pending_deliveries, CaPendingDepth))
      /\ pending_deliveries' = group /\ c2b' = Sent(c2b, group)
      /\ group \in Seq(Frames) /\ DOMAIN group = 1..n /\ n \in Nat /\ Len(origin) \in Nat
      /\ \A i \in 1..n : group[i].kind = "Delivery"
      /\ Ids(group) = (Len(origin) + 1)..(Len(origin) + n)
      /\ DOMAIN origin' = 1..(Len(origin) + n)
      /\ \A d \in (Len(origin) + 1)..(Len(origin) + n) : origin'[d] = Head(b2c).id
  BY <1>0, GroupFrames
<1>2. /\ acquired_requests' = DedupInsert(acquired_requests, CaDedupDepth, Head(b2c).id)
      /\ processed' = Append(processed, Head(b2c).id) /\ b2c' = Tail(b2c)
      /\ current_request' = Head(b2c).id
      /\ UNCHANGED <<pending, issued, conn, bRestarts, cRestarts>>
  BY <1>1 DEF CPublish, bVars, budgets
<1> HIDE DEF group
<1>3. \A x \in Nat : Carries(c2b', "Ack", x) => Carries(c2b, "Ack", x)
  <2>1. \A f \in Range(group) : f.kind # "Ack" BY <1>1 DEF Range
  <2> QED BY <1>1, <2>1, DeliveriesOnly
<1>4. GroupOfCurrent'
  <2>1. \A d \in (Len(origin) + 1)..(Len(origin) + n) : d \in 1..(Len(origin) + n) BY <1>1
  <2>2. group \in Seq(DeliveryFrames)
    <3>1. \A i \in 1..n : group[i] \in DeliveryFrames BY <1>1 DEF DeliveryFrames
    <3> QED BY <1>1, <3>1
  <2> QED BY <1>1, <1>2, <2>1, <2>2 DEF GroupOfCurrent, DeliveryFrames
<1> QED BY <1>0, <1>2, <1>3, <1>4, Processes

LEMMA RequestNext == RequestInv /\ [Next]_vars => RequestInv'
<1> SUFFICES ASSUME RequestInv, [Next]_vars PROVE RequestInv'
  OBVIOUS
<1>0. LinkInv' BY LinkNext DEF RequestInv
<1>a. /\ b2c \in Seq(Frames) /\ c2b \in Seq(Frames) /\ Ordered(b2c, RequestOrder)
      /\ pending_deliveries \in Seq(Frames) /\ pending_deliveries \in Seq(DeliveryFrames)
  BY RetainedFrames DEF RequestInv, RequestsInOrder, LinkInv, TypeOK, GroupOfCurrent
<1>b. /\ c2b # <<>> => \A x \in Nat : Carries(Tail(c2b), "Ack", x) => Carries(c2b, "Ack", x)
      /\ b2c # <<>> => /\ Ordered(Tail(b2c), RequestOrder)
                       /\ \A x \in Nat : Carries(Tail(b2c), "Request", x) =>
                                             Carries(b2c, "Request", x)
  BY <1>a, ReadFrame
<1>c. \A f \in Range(pending_deliveries) : f.kind # "Ack"
  BY <1>a, RangeOfSeq DEF DeliveryFrames
<1>d. UNCHANGED <<pending_deliveries, origin, current_request>> => GroupOfCurrent'
  BY DEF RequestInv, GroupOfCurrent, DeliveryFrames
<1>1. ASSUME NEW session \in Requests, AgentRequest(session) PROVE RequestInv'
  BY <1>0, <1>a, <1>d, <1>1, QuietForRequests DEF AgentRequest, cVars, net, history
<1>2. CASE BConnect
  <2>1. conn' # "linked" /\ UNCHANGED <<b2c, c2b>> BY <1>2 DEF BConnect
  <2> QED BY <1>0, <1>a, <1>d, <1>2, <2>1, QuietForRequests DEF BConnect, cVars, budgets, history
<1>3. CASE CAccept
  <2>1. b2c' = <<>> /\ c2b' = <<AuthFrame("AuthChallenge")>> BY <1>3 DEF CAccept
  <2>2. \A x \in Nat : ~Carries(c2b', "Ack", x) BY <2>1, OneFrame DEF AuthFrame, Frame
  <2>3. Ordered(b2c', RequestOrder) /\ \A x \in Nat : ~Carries(b2c', "Request", x)
    BY <2>1, NoFrames
  <2> QED BY <1>0, <1>d, <1>3, <2>2, <2>3, QuietForRequests DEF CAccept, bVars, budgets, history
<1>4. CASE BRecvChallenge
  <2> DEFINE f == AuthFrame("AuthResponse")
  <2>1. f \in Frames /\ f.kind # "Request" BY FrameTypes DEF FrameKinds, AuthFrame, Frame
  <2>2. b2c' = Sent(b2c, <<f>>) /\ c2b' = Tail(c2b) /\ c2b # <<>> /\ conn' = conn
    BY <1>4 DEF BRecvChallenge, BReads
  <2> HIDE DEF f
  <2>3. /\ Ordered(b2c', RequestOrder)
        /\ \A x \in Nat : Carries(b2c', "Request", x) => Carries(b2c, "Request", x)
    BY <2>1, <2>2, SendsOther
  <2> QED BY <1>0, <1>b, <1>d, <1>4, <2>2, <2>3, QuietForRequests
          DEF BRecvChallenge, cVars, budgets, history
<1>5. CASE CRecvAuthResponse
  <2> DEFINE fs == <<AuthFrame("AuthOk")>> \o pending_deliveries
  <2>1. fs \in Seq(Frames) /\ \A f \in Range(fs) : f.kind # "Ack"
    <3>1. <<AuthFrame("AuthOk")>> \in Seq(Frames) BY FrameTypes DEF FrameKinds
    <3>2. Range(fs) = Range(<<AuthFrame("AuthOk")>>) \cup Range(pending_deliveries)
      <4>1. pending_deliveries \in Seq(Frames) BY <1>a
      <4> QED BY <3>1, <4>1, JoinFrames
    <3>3. Range(<<AuthFrame("AuthOk")>>) = {AuthFrame("AuthOk")} BY OneFrame
    <3>4. AuthFrame("AuthOk").kind # "Ack" BY DEF AuthFrame, Frame
    <3> QED BY <1>a, <1>c, <3>1, <3>2, <3>3, <3>4
  <2>2. c2b' = Sent(c2b, fs) /\ b2c' = Tail(b2c) /\ b2c # <<>> /\ conn' = conn
    BY <1>5 DEF CRecvAuthResponse, CReads
  <2> HIDE DEF fs
  <2>3. \A x \in Nat : Carries(c2b', "Ack", x) => Carries(c2b, "Ack", x)
    BY <2>1, <2>2, DeliveriesOnly
  <2> QED BY <1>0, <1>b, <1>d, <1>5, <2>2, <2>3, QuietForRequests
          DEF CRecvAuthResponse, bVars, budgets, history
<1>6. CASE BRecvAuthOk
  <2>1. c2b # <<>> /\ c2b' = Tail(c2b) /\ b2c' = Sent(b2c, pending)
    BY <1>6 DEF BRecvAuthOk, BReads
  <2> QED BY <1>0, <1>b, <1>6, <2>1, ResendsRequest DEF BRecvAuthOk, cVars, budgets, history
<1>7. CASE BTakeRequest BY <1>0, <1>7, TakesRequest
<1>8. CASE BRecvAck BY <1>0, <1>8, ReadsAnswer
<1>9. CASE BRecvDuplicateDelivery
  <2>1. c2b # <<>> /\ c2b' = Tail(c2b) /\ b2c' = Sent(b2c, <<Ack(Head(c2b).id)>>)
    BY <1>9 DEF BRecvDuplicateDelivery, BReads
  <2>2. Head(c2b).id \in Nat BY <1>a, <2>1, HeadType
  <2> QED BY <1>0, <1>9, <2>1, <2>2, QuietAck
          DEF BRecvDuplicateDelivery, bVars, cVars, budgets, history
<1>10. CASE BRouteDelivery
  <2>1. /\ UNCHANGED <<pending, issued, processed, acquired_requests, current_request,
                       bRestarts, cRestarts, pending_deliveries, origin>>
        /\ c2b # <<>>
    BY <1>10 DEF BRouteDelivery, BReads, cVars, budgets
  <2>2. CASE BrokerDedupDepth = 0
    <3>1. BClose BY <1>10, <2>2 DEF BRouteDelivery
    <3> QED BY <1>0, <2>1, <3>1, QuietClose
  <2>3. CASE BrokerDedupDepth # 0
    <3>1. c2b' = Tail(c2b) /\ b2c' = Sent(b2c, <<Ack(Head(c2b).id)>>) /\ conn' = conn
      BY <1>10, <2>3 DEF BRouteDelivery
    <3>2. Head(c2b).id \in Nat BY <1>a, <2>1, HeadType
    <3> QED BY <1>0, <2>1, <3>1, <3>2, QuietAck
  <2> QED BY <2>2, <2>3
<1>11. CASE BRejectDelivery
  BY <1>0, <1>11, QuietClose DEF BRejectDelivery, cVars, history
<1>12. CASE BRetry
  BY <1>0, <1>12, ResendsRequest DEF BRetry, bVars, cVars, budgets, history
<1>13. CASE CRecvAck BY <1>0, <1>13, GroupShrinks
<1>14. CASE CRecvCurrentRequest
  <2>1. b2c # <<>> /\ b2c' = Tail(b2c) /\ UNCHANGED <<c2b, conn>>
    BY <1>14 DEF CRecvCurrentRequest, CReads
  <2> QED BY <1>0, <1>b, <1>d, <1>14, <2>1, QuietForRequests
          DEF CRecvCurrentRequest, bVars, cVars, budgets, history
<1>15. CASE CRecvAcquiredRequest
  <2>1. /\ CReads("Request") /\ b2c # <<>> /\ b2c' = Tail(b2c)
        /\ c2b' = Sent(c2b, <<Ack(Head(b2c).id)>>)
        /\ Contains(acquired_requests, Head(b2c).id) /\ current_request # Head(b2c).id
    BY <1>15 DEF CRecvAcquiredRequest, CReads
  <2>2. Head(b2c).id \in Nat BY <2>1, ReadRequest
  <2> QED BY <1>0, <1>b, <1>d, <1>15, <2>1, <2>2, Answers
          DEF CRecvAcquiredRequest, bVars, cVars, budgets, history
<1>16. CASE CProcessNoDelivery BY <1>0, <1>16, ProcessesNoDelivery
<1>17. ASSUME NEW n \in 1..MaxGroup, CPublish(n) PROVE RequestInv'
  BY <1>0, <1>17, PublishesGroup
<1>18. CASE CUnexpectedRequest
  BY <1>0, <1>18, QuietClose DEF CUnexpectedRequest, bVars, budgets, history
<1>19. CASE CRetry
  <2>1. c2b' = Sent(c2b, pending_deliveries) /\ UNCHANGED <<b2c, conn>>
    BY <1>19 DEF CRetry
  <2>2. \A x \in Nat : Carries(c2b', "Ack", x) => Carries(c2b, "Ack", x)
    BY <1>a, <1>c, <2>1, DeliveriesOnly
  <2> QED BY <1>0, <1>a, <1>d, <1>19, <2>1, <2>2, QuietForRequests
          DEF CRetry, bVars, cVars, budgets, history
<1>20. CASE BEof
  BY <1>0, <1>20, QuietClose DEF BEof, cVars, budgets, history
<1>21. CASE CEof
  BY <1>0, <1>21, QuietClose DEF CEof, bVars, budgets, history
<1>22. CASE BLinkFailure
  BY <1>0, <1>22, QuietClose DEF BLinkFailure, cVars, history
<1>23. CASE CLinkFailure
  BY <1>0, <1>23, QuietClose DEF CLinkFailure, bVars, history
<1>24. CASE BrokerRestart BY <1>0, <1>24, BrokerForgets
<1>25. CASE CaRestart BY <1>0, <1>25, CaForgets
<1>26. CASE UNCHANGED vars
  BY <1>0, <1>a, <1>d, <1>26, QuietForRequests DEF vars, bVars, cVars, net, budgets, history
<1> QED
  BY <1>1, <1>2, <1>3, <1>4, <1>5, <1>6, <1>7, <1>8, <1>9, <1>10, <1>11, <1>12, <1>13, <1>14,
     <1>15, <1>16, <1>17, <1>18, <1>19, <1>20, <1>21, <1>22, <1>23, <1>24, <1>25, <1>26
     DEF Next, BStep, CStep, Faults

LEMMA RequestInvariant == Spec => []RequestInv
BY RequestInit, RequestNext, PTL DEF Spec

\* A request that brokerd has taken from its queue is retained until cad has processed it:
\* as long as brokerd runs, no failure of the link and no restart of cad loses one.
THEOREM RequestsRetained == Spec => []RequestNeverLost
<1>1. RequestInv => RequestNeverLost BY DEF RequestInv
<1> QED BY <1>1, RequestInvariant, PTL

\* As long as brokerd runs, cad never ends a session because of a request it did not expect.
THEOREM Serialized == Spec => []RequestsSerialized
<1>1. RequestInv => RequestsSerialized
  <2> SUFFICES ASSUME RequestInv, bRestarts = 0, CReadsUnexpectedRequest PROVE FALSE
    BY DEF RequestsSerialized
  <2>1. CReads("Request") /\ current_request # NoId /\ ~Contains(acquired_requests, Head(b2c).id)
    BY DEF CReadsUnexpectedRequest
  <2>2. Head(b2c).id \in Nat /\ Carries(b2c, "Request", Head(b2c).id) BY <2>1, ReadRequest
  <2> QED BY <2>1, <2>2 DEF RequestInv, NewIsOutstanding
<1> QED BY <1>1, RequestInvariant, PTL

\* As long as cad runs, it processes every request once and in the order in which brokerd took
\* them, with a window of any depth, whatever is retransmitted and however often brokerd restarts.
THEOREM ProcessedOnce == Spec => []ProcessedOnceInOrder
<1>1. RequestInv => ProcessedOnceInOrder BY DEF RequestInv
<1> QED BY <1>1, RequestInvariant, PTL

\* A request is acknowledged only when every delivery generated for it has been routed: the one
\* that brokerd retains is the one whose group cad still keeps.
THEOREM AcknowledgedLast == Spec => []AckCoversDeliveries
<1>1. RequestInv => AckCoversDeliveries
  <2> SUFFICES ASSUME RequestInv, bRestarts = 0, cRestarts = 0, NEW d \in DOMAIN origin,
                      ~Contains(routed, d)
               PROVE  origin[d] \in Ids(pending)
    BY DEF AckCoversDeliveries
  <2>1. d \in Ids(pending_deliveries) BY DEF RequestInv, LinkInv, NoDeliveryLost
  <2>2. origin[d] = current_request BY <2>1 DEF RequestInv, GroupOfCurrent
  <2>3. pending_deliveries # <<>> BY <2>1 DEF Ids
  <2>4. current_request # NoId BY <2>3 DEF RequestInv, LinkInv, CurrentIffPending
  <2> QED BY <2>2, <2>4 DEF RequestInv, CurrentIsOutstanding, Outstanding
<1> QED BY <1>1, RequestInvariant, PTL

-----------------------------------------------------------------------------
(***************************************************************************)
(* The deliveries.  cad repeats its current group in order, and no group   *)
(* is longer than brokerd's window: of two deliveries in flight the later  *)
(* one is ahead by less than a group, and whatever has left the window is  *)
(* older than that.  The first copies arrive in order.                     *)
(***************************************************************************)
DeliveryOrder ==
    {p \in Frames \X Frames :
        (p[1].kind = "Delivery" /\ p[2].kind = "Delivery") => p[1].id < p[2].id + MaxGroup}
GroupOrder == {p \in Frames \X Frames : p[1].id < p[2].id}

DeliveriesGenerated ==
    /\ \A x \in Nat : Carries(c2b, "Delivery", x) => x \in 1..Len(origin)
    /\ \A x \in Ids(pending_deliveries) : x \in 1..Len(origin) /\ x + MaxGroup > Len(origin)
    /\ \A x \in Nat : Contains(routed, x) => x \in 1..Len(origin)

DeliveriesInOrder == Ordered(pending_deliveries, GroupOrder) /\ Ordered(c2b, DeliveryOrder)

WindowCoversGroup == bRestarts = 0 /\ BrokerDedupDepth >= MaxGroup

\* The identifiers of the window increase from one entry to the next.
WindowIncreases ==
    WindowCoversGroup =>
        \A i, j \in DOMAIN acquired_deliveries :
            i <= j => acquired_deliveries[i] + (j - i) <= acquired_deliveries[j]

Arriving(x) == Carries(c2b, "Delivery", x) \/ x \in Ids(pending_deliveries)

NewIsLater ==
    WindowCoversGroup =>
        \A x \in Nat : (Arriving(x) /\ ~Contains(acquired_deliveries, x)) =>
            (\A i \in DOMAIN routed : routed[i] < x) /\ Announced(c2b, x)

OrderInv ==
    /\ RequestInv
    /\ DeliveriesGenerated /\ DeliveriesInOrder /\ WindowIncreases /\ NewIsLater
    /\ RoutedOnceInOrder

LEMMA OrderInit == Init => OrderInv
<1> SUFFICES ASSUME Init PROVE OrderInv OBVIOUS
<1>1. RequestInv BY RequestInit
<1>2. /\ acquired_deliveries = <<>> /\ routed = <<>> /\ c2b = <<>> /\ pending_deliveries = <<>>
  BY DEF Init
<1>3. /\ \A x : ~Carries(c2b, "Delivery", x) /\ ~Contains(routed, x)
      /\ Ids(pending_deliveries) = {}
  BY <1>2, NoFrames DEF Contains, Ids
<1>4. DeliveriesGenerated BY <1>3 DEF DeliveriesGenerated
<1>5. DeliveriesInOrder BY <1>2, NoFrames DEF DeliveriesInOrder
<1>6. NewIsLater BY <1>3 DEF NewIsLater, Arriving
<1>7. WindowIncreases /\ RoutedOnceInOrder
  BY <1>2 DEF WindowIncreases, RoutedOnceInOrder, Increasing
<1> QED BY <1>1, <1>4, <1>5, <1>6, <1>7 DEF OrderInv

LEMMA OrderTypes ==
    ASSUME OrderInv
    PROVE  /\ c2b \in Seq(Frames) /\ b2c \in Seq(Frames) /\ routed \in Seq(Nat)
           /\ acquired_deliveries \in Seq(Nat) /\ Len(acquired_deliveries) <= BrokerDedupDepth
           /\ origin \in Seq(Nat) /\ Len(origin) \in Nat /\ MaxGroup \in Nat
           /\ pending_deliveries \in Seq(Frames) /\ pending_deliveries \in Seq(DeliveryFrames)
           /\ bRestarts \in Nat
           /\ \A x \in Nat : Contains(acquired_deliveries, x) => Contains(routed, x)
<1>1. /\ c2b \in Seq(Frames) /\ b2c \in Seq(Frames) /\ routed \in Seq(Nat)
      /\ acquired_deliveries \in Seq(Nat) /\ Len(acquired_deliveries) <= BrokerDedupDepth
      /\ origin \in Seq(Nat) /\ pending_deliveries \in Seq(Frames) /\ bRestarts \in Nat
  BY DEF OrderInv, RequestInv, LinkInv, TypeOK
<1>2. pending_deliveries \in Seq(DeliveryFrames)
  BY DEF OrderInv, RequestInv, GroupOfCurrent
<1>3. acquired_deliveries \in Seq(Routed) BY DEF OrderInv, RequestInv, LinkInv
<1>4. \A x \in Nat : Contains(acquired_deliveries, x) => Contains(routed, x)
  <2>1. \A i \in DOMAIN acquired_deliveries : acquired_deliveries[i] \in Routed BY <1>3
  <2>2. \A x \in Routed : Contains(routed, x) BY DEF Routed
  <2> QED BY <2>1, <2>2 DEF Contains
<1> QED BY <1>1, <1>2, <1>4, DepthAssumption

\* A step that neither sends a delivery nor reads one.
LEMMA QuietForDeliveries ==
    ASSUME OrderInv, RequestInv',
           UNCHANGED <<pending_deliveries, origin, routed, acquired_deliveries, bRestarts>>,
           Ordered(c2b', DeliveryOrder),
           \A x \in Nat : Carries(c2b', "Delivery", x) => Carries(c2b, "Delivery", x),
           \A x \in Nat : Announced(c2b, x) => Announced(c2b', x)
    PROVE  OrderInv'
<1>1. DeliveriesGenerated' BY DEF OrderInv, DeliveriesGenerated
<1>2. DeliveriesInOrder' BY DEF OrderInv, DeliveriesInOrder, DeliveryOrder, GroupOrder
<1>3. WindowIncreases' BY DEF OrderInv, WindowIncreases, WindowCoversGroup
<1>4. NewIsLater' BY DEF OrderInv, NewIsLater, Arriving, WindowCoversGroup
<1>5. RoutedOnceInOrder' BY DEF OrderInv, RoutedOnceInOrder
<1> QED BY <1>1, <1>2, <1>3, <1>4, <1>5 DEF OrderInv

\* A group is sent in order.
LEMMA GroupAnnounced ==
    ASSUME NEW P \in Seq(DeliveryFrames), Ordered(P, GroupOrder)
    PROVE  /\ \A x \in Ids(P) : Announced(P, x)
           /\ \A x : Carries(P, "Delivery", x) <=> x \in Ids(P)
           /\ Ordered(P, DeliveryOrder)
<1>0. /\ \A i \in DOMAIN P : P[i] \in Frames /\ P[i].kind = "Delivery" /\ P[i].id \in Nat
      /\ DOMAIN P = 1..Len(P) /\ Len(P) \in Nat
  BY DEF DeliveryFrames, Frames
<1>1. \A i, j \in DOMAIN P : i < j => P[i].id < P[j].id BY DEF Ordered, GroupOrder
<1>2. ASSUME NEW x \in Ids(P) PROVE Announced(P, x)
  <2> SUFFICES ASSUME NEW i \in DOMAIN P, P[i].id > x
               PROVE  \E k \in DOMAIN P : k < i /\ P[k].kind = "Delivery" /\ P[k].id = x
    BY DEF Announced
  <2>1. PICK k \in DOMAIN P : P[k].id = x BY DEF Ids
  <2>2. k < i BY <1>0, <1>1, <2>1
  <2> QED BY <1>0, <2>1, <2>2
<1>3. \A x : Carries(P, "Delivery", x) <=> x \in Ids(P) BY <1>0 DEF Carries, Range, Ids
<1>4. Ordered(P, DeliveryOrder)
  BY <1>0, <1>1, DepthAssumption DEF Ordered, DeliveryOrder
<1> QED BY <1>2, <1>3, <1>4

\* Whatever cad sends may follow what is in flight, when it is not older than a group.
LEMMA WithinGroup ==
    ASSUME OrderInv, NEW g \in Frames, g.kind = "Delivery" => g.id + MaxGroup > Len(origin)
    PROVE  \A f \in Range(c2b) : <<f, g>> \in DeliveryOrder
<1> SUFFICES ASSUME NEW f \in Range(c2b) PROVE <<f, g>> \in DeliveryOrder OBVIOUS
<1>1. f \in Frames /\ f.id \in Nat /\ g.id \in Nat /\ Len(origin) \in Nat /\ MaxGroup \in Nat
  <2>1. c2b \in Seq(Frames) /\ Len(origin) \in Nat /\ MaxGroup \in Nat BY OrderTypes
  <2>2. f \in Frames BY <2>1, RangeOfSeq
  <2> QED BY <2>1, <2>2 DEF Frames
<1>2. f.kind = "Delivery" => f.id <= Len(origin)
  <2>1. f.kind = "Delivery" => Carries(c2b, "Delivery", f.id) BY DEF Carries
  <2> QED BY <1>1, <2>1 DEF OrderInv, DeliveriesGenerated
<1> QED BY <1>1, <1>2 DEF DeliveryOrder

\* cad sends its group once more: at the start of a session or by its timer.
LEMMA ResendsGroup ==
    ASSUME OrderInv, RequestInv', NEW fs \in Seq(Frames),
           \A x \in Nat : Carries(fs, "Delivery", x) => x \in Ids(pending_deliveries),
           \A x \in Ids(pending_deliveries) : Announced(fs, x),
           Ordered(fs, DeliveryOrder),
           c2b' = Sent(c2b, fs),
           UNCHANGED <<pending_deliveries, origin, routed, acquired_deliveries, bRestarts>>
    PROVE  OrderInv'
<1>0. c2b \in Seq(Frames) BY OrderTypes
<1>1. \A x \in Nat : Carries(c2b', "Delivery", x) =>
          Carries(c2b, "Delivery", x) \/ x \in Ids(pending_deliveries)
  BY <1>0, SentFrames
<1>2. Ordered(c2b', DeliveryOrder)
  <2>1. ASSUME NEW g \in Range(fs) PROVE \A f \in Range(c2b) : <<f, g>> \in DeliveryOrder
    <3>0. g \in Frames BY RangeOfSeq
    <3>1. g \in Frames /\ g.id \in Nat BY <3>0 DEF Frames
    <3>2. g.kind = "Delivery" => Carries(fs, "Delivery", g.id) BY DEF Carries
    <3>3. g.kind = "Delivery" => g.id + MaxGroup > Len(origin)
      BY <3>1, <3>2 DEF OrderInv, DeliveriesGenerated
    <3> QED BY <3>1, <3>3, WithinGroup
  <2>2. Ordered(c2b, DeliveryOrder) BY DEF OrderInv, DeliveriesInOrder
  <2> QED BY <1>0, <2>1, <2>2, SentFrames
<1>3. DeliveriesGenerated' BY <1>1 DEF OrderInv, DeliveriesGenerated
<1>4. DeliveriesInOrder' BY <1>2 DEF OrderInv, DeliveriesInOrder, DeliveryOrder, GroupOrder
<1>5. WindowIncreases' BY DEF OrderInv, WindowIncreases, WindowCoversGroup
<1>6. NewIsLater'
  <2> SUFFICES ASSUME WindowCoversGroup, NEW x \in Nat, Arriving(x)',
                      ~Contains(acquired_deliveries, x)
               PROVE  (\A i \in DOMAIN routed : routed[i] < x) /\ Announced(c2b', x)
    BY DEF NewIsLater, WindowCoversGroup
  <2>1. Arriving(x) BY <1>1 DEF Arriving
  <2>2. (\A i \in DOMAIN routed : routed[i] < x) /\ Announced(c2b, x)
    BY <2>1 DEF OrderInv, NewIsLater
  <2>3. Carries(c2b, "Delivery", x) \/ Announced(fs, x) BY <2>1 DEF Arriving
  <2>4. Announced(c2b', x) BY <1>0, <2>2, <2>3, SentFrames
  <2> QED BY <2>2, <2>4
<1>7. RoutedOnceInOrder' BY DEF OrderInv, RoutedOnceInOrder
<1> QED BY <1>3, <1>4, <1>5, <1>6, <1>7 DEF OrderInv

\* An answer, or a frame of the authentication, among the deliveries.
LEMMA SendsNoDelivery ==
    ASSUME OrderInv, NEW f \in Frames, f.kind # "Delivery"
    PROVE  /\ Ordered(Sent(c2b, <<f>>), DeliveryOrder)
           /\ \A x \in Nat : Carries(Sent(c2b, <<f>>), "Delivery", x) =>
                                 Carries(c2b, "Delivery", x)
           /\ \A x \in Nat : Announced(c2b, x) => Announced(Sent(c2b, <<f>>), x)
<1>1. c2b \in Seq(Frames) /\ <<f>> \in Seq(Frames) BY OrderTypes
<1>2. /\ Range(<<f>>) = {f} /\ Ordered(<<f>>, DeliveryOrder)
      /\ \A x : ~Carries(<<f>>, "Delivery", x) /\ Announced(<<f>>, x)
  BY OneFrame
<1>3. \A g \in Range(c2b) : <<g, f>> \in DeliveryOrder BY WithinGroup
<1>4. Ordered(c2b, DeliveryOrder) BY DEF OrderInv, DeliveriesInOrder
<1> QED BY <1>1, <1>2, <1>3, <1>4, SentFrames

\* cad publishes a group, all of it later than what it generated before.
LEMMA GeneratesGroup ==
    ASSUME OrderInv, RequestInv', NEW n \in 1..MaxGroup, CPublish(n)
    PROVE  OrderInv'
<1> DEFINE group == [i \in 1..n |-> Delivery(Len(origin) + i)]
           L == Len(origin)
<1>0. LinkInv /\ CReadsNewRequest BY DEF OrderInv, RequestInv, CPublish
<1>1. /\ n \in Nat /\ n >= 1 /\ n <= MaxGroup
      /\ pending_deliveries' = group /\ c2b' = Sent(c2b, group)
      /\ group \in Seq(Frames) /\ DOMAIN group = 1..n
      /\ \A i \in 1..n : group[i].kind = "Delivery" /\ group[i].id = L + i
      /\ Ids(group) = (L + 1)..(L + n)
      /\ Len(origin') = L + n
  BY <1>0, GroupFrames
<1>2. UNCHANGED <<routed, acquired_deliveries, bRestarts>>
  BY DEF CPublish, bVars, budgets
<1>3. /\ c2b \in Seq(Frames) /\ L \in Nat /\ MaxGroup \in Nat /\ routed \in Seq(Nat)
      /\ \A i \in DOMAIN c2b : c2b[i] \in Frames /\ c2b[i].id \in Nat
  <2>1. c2b \in Seq(Frames) BY OrderTypes
  <2>2. \A i \in DOMAIN c2b : c2b[i] \in Frames BY <2>1
  <2> QED BY <2>1, <2>2, OrderTypes DEF Frames
<1> HIDE DEF group, L
<1>4. group \in Seq(DeliveryFrames) /\ Ordered(group, GroupOrder)
  <2>1. \A i \in 1..n : group[i] \in Frames BY <1>1
  <2>2. \A i \in 1..n : group[i] \in DeliveryFrames BY <1>1, <2>1 DEF DeliveryFrames
  <2>3. group \in Seq(DeliveryFrames) BY <1>1, <2>2
  <2>4. \A i, j \in 1..n : i < j => group[i].id < group[j].id BY <1>1, <1>3
  <2>5. Ordered(group, GroupOrder) BY <1>1, <2>1, <2>4 DEF Ordered, GroupOrder
  <2> QED BY <2>3, <2>5
<1>5. /\ \A x \in Ids(group) : Announced(group, x)
      /\ \A x : Carries(group, "Delivery", x) <=> x \in Ids(group)
      /\ Ordered(group, DeliveryOrder)
  BY <1>4, GroupAnnounced
<1>6. \A x \in Nat : Carries(c2b', "Delivery", x) =>
          Carries(c2b, "Delivery", x) \/ x \in Ids(group)
  BY <1>1, <1>3, <1>5, SentFrames
<1>7. \A x \in Nat : Carries(c2b, "Delivery", x) => x \in 1..L
  BY DEF OrderInv, DeliveriesGenerated, L
<1>8. \A x \in Nat : Contains(routed, x) => x \in 1..L
  BY DEF OrderInv, DeliveriesGenerated, L
<1>9. DeliveriesGenerated'
  <2>1. \A x \in (L + 1)..(L + n) : x \in 1..(L + n) /\ x + MaxGroup > L + n BY <1>1, <1>3
  <2>2. \A x \in 1..L : x \in 1..(L + n) BY <1>1, <1>3
  <2>3. \A x \in Nat : Carries(c2b', "Delivery", x) => x \in 1..(L + n)
    BY <1>1, <1>6, <1>7, <2>1, <2>2
  <2>4. \A x \in Nat : Contains(routed, x) => x \in 1..(L + n) BY <1>8, <2>2
  <2> QED BY <1>1, <1>2, <2>1, <2>3, <2>4 DEF DeliveriesGenerated
<1>10. DeliveriesInOrder'
  <2>1. ASSUME NEW g \in Range(group) PROVE \A f \in Range(c2b) : <<f, g>> \in DeliveryOrder
    <3>0. g \in Frames BY <1>1, RangeOfSeq
    <3>1. g.id \in Nat BY <3>0 DEF Frames
    <3>2. g.id \in Ids(group) BY DEF Range, Ids
    <3>3. g.id + MaxGroup > L BY <1>1, <1>3, <3>2
    <3> QED BY <3>0, <3>3, WithinGroup DEF L
  <2>2. Ordered(c2b, DeliveryOrder) BY DEF OrderInv, DeliveriesInOrder
  <2>3. Ordered(c2b', DeliveryOrder) BY <1>1, <1>3, <1>5, <2>1, <2>2, SentFrames
  <2> QED BY <1>1, <1>4, <2>3 DEF DeliveriesInOrder, DeliveryOrder, GroupOrder
<1>11. WindowIncreases' BY <1>2 DEF OrderInv, WindowIncreases, WindowCoversGroup
<1>12. NewIsLater'
  <2> SUFFICES ASSUME WindowCoversGroup, NEW x \in Nat,
                      Carries(c2b', "Delivery", x) \/ x \in Ids(group),
                      ~Contains(acquired_deliveries, x)
               PROVE  (\A i \in DOMAIN routed : routed[i] < x) /\ Announced(c2b', x)
    BY <1>1, <1>2 DEF NewIsLater, WindowCoversGroup, Arriving
  <2>1. CASE Carries(c2b, "Delivery", x)
    <3>1. (\A i \in DOMAIN routed : routed[i] < x) /\ Announced(c2b, x)
      BY <2>1 DEF OrderInv, NewIsLater, Arriving
    <3>2. Announced(c2b', x) BY <1>1, <1>3, <2>1, <3>1, SentFrames
    <3> QED BY <3>1, <3>2
  <2>2. CASE x \in Ids(group)
    <3>1. x > L BY <1>1, <1>3, <2>2
    <3>2. ASSUME NEW i \in DOMAIN routed PROVE routed[i] < x
      <4>1. routed[i] \in Nat /\ Contains(routed, routed[i]) BY <1>3 DEF Contains
      <4> QED BY <1>3, <1>8, <3>1, <4>1
    <3>3. Announced(c2b, x)
      <4>1. ASSUME NEW i \in DOMAIN c2b, c2b[i].kind = "Delivery" PROVE ~(c2b[i].id > x)
        <5>1. Carries(c2b, "Delivery", c2b[i].id) BY <4>1 DEF Carries, Range
        <5>2. c2b[i].id \in 1..L BY <1>3, <1>7, <5>1
        <5> QED BY <1>3, <3>1, <5>2
      <4> QED BY <4>1 DEF Announced
    <3>4. Announced(c2b', x) BY <1>1, <1>3, <1>5, <2>2, <3>3, SentFrames
    <3> QED BY <3>2, <3>4
  <2> QED BY <1>6, <2>1, <2>2
<1>13. RoutedOnceInOrder' BY <1>2 DEF OrderInv, RoutedOnceInOrder
<1> QED BY <1>9, <1>10, <1>11, <1>12, <1>13 DEF OrderInv

\* brokerd acknowledged a delivery of the group.
LEMMA OrderedGroupShrinks ==
    ASSUME OrderInv, RequestInv', CRecvAck
    PROVE  OrderInv'
<1>1. /\ pending_deliveries' = Acknowledge(pending_deliveries, Head(b2c).id)
      /\ UNCHANGED <<origin, routed, acquired_deliveries, bRestarts>>
      /\ c2b' = c2b \/ c2b' = Sent(c2b, <<Ack(current_request)>>)
  BY DEF CRecvAck, bVars, budgets, history
<1>2. c2b \in Seq(Frames) /\ pending_deliveries \in Seq(Frames) BY OrderTypes
<1>3. /\ Ids(pending_deliveries') \subseteq Ids(pending_deliveries)
      /\ Ordered(pending_deliveries', GroupOrder)
  BY <1>1, <1>2, AcknowledgeType DEF OrderInv, DeliveriesInOrder
<1>4. /\ Ordered(c2b', DeliveryOrder)
      /\ \A x \in Nat : Carries(c2b', "Delivery", x) => Carries(c2b, "Delivery", x)
      /\ \A x \in Nat : Announced(c2b, x) => Announced(c2b', x)
  <2>1. CASE c2b' = c2b BY <2>1 DEF OrderInv, DeliveriesInOrder
  <2>2. CASE c2b' = Sent(c2b, <<Ack(current_request)>>)
    <3> DEFINE f == Ack(current_request)
    <3>1. f \in Frames /\ f.kind # "Delivery"
      <4>1. current_request \in Nat BY DEF OrderInv, RequestInv, LinkInv, TypeOK
      <4> QED BY <4>1, FrameTypes DEF Ack, Frame
    <3>2. c2b' = Sent(c2b, <<f>>) BY <2>2
    <3> HIDE DEF f
    <3> QED BY <3>1, <3>2, SendsNoDelivery
  <2> QED BY <1>1, <2>1, <2>2
<1>5. DeliveriesGenerated' BY <1>1, <1>3, <1>4 DEF OrderInv, DeliveriesGenerated
<1>6. DeliveriesInOrder' BY <1>3, <1>4 DEF DeliveriesInOrder, DeliveryOrder, GroupOrder
<1>7. WindowIncreases' BY <1>1 DEF OrderInv, WindowIncreases, WindowCoversGroup
<1>8. NewIsLater'
  <2>1. \A x \in Nat : Arriving(x)' => Arriving(x) BY <1>3, <1>4 DEF Arriving
  <2> QED BY <1>1, <1>4, <2>1 DEF OrderInv, NewIsLater, WindowCoversGroup
<1>9. RoutedOnceInOrder' BY <1>1 DEF OrderInv, RoutedOnceInOrder
<1> QED BY <1>5, <1>6, <1>7, <1>8, <1>9 DEF OrderInv

\* Reading a delivery: the copies behind it are at most a group older.
LEMMA ReadDelivery ==
    ASSUME OrderInv, BReads("Delivery")
    PROVE  /\ c2b # <<>> /\ Head(c2b).id \in Nat /\ Arriving(Head(c2b).id)
           /\ Head(c2b).id <= Len(origin)
           /\ Ordered(Tail(c2b), DeliveryOrder)
           /\ \A x \in Nat : Carries(Tail(c2b), "Delivery", x) =>
                  Carries(c2b, "Delivery", x) /\ Head(c2b).id < x + MaxGroup
           /\ \A x \in Nat : Announced(c2b, x) =>
                  /\ Head(c2b).id <= x
                  /\ x # Head(c2b).id => Announced(Tail(c2b), x)
<1>1. c2b \in Seq(Frames) /\ c2b # <<>> /\ Head(c2b).kind = "Delivery" /\ Len(origin) \in Nat
  BY OrderTypes DEF BReads
<1>2. Head(c2b).id \in Nat BY <1>1, HeadType
<1>3. Ordered(c2b, DeliveryOrder) BY DEF OrderInv, DeliveriesInOrder
<1>4. /\ Ordered(Tail(c2b), DeliveryOrder)
      /\ \A f \in Range(Tail(c2b)) : <<Head(c2b), f>> \in DeliveryOrder
      /\ \A kind, id : Carries(c2b, kind, id) <=>
             (Carries(Tail(c2b), kind, id) \/ (Head(c2b).kind = kind /\ Head(c2b).id = id))
      /\ \A id : Announced(c2b, id) /\ ~(Head(c2b).kind = "Delivery" /\ Head(c2b).id = id)
                     => Announced(Tail(c2b), id)
      /\ \A id : Announced(c2b, id) => ~(Head(c2b).kind = "Delivery" /\ Head(c2b).id > id)
  BY <1>1, <1>3, ReadFrame
<1>5. Carries(c2b, "Delivery", Head(c2b).id) BY <1>1, <1>4
<1>6. Head(c2b).id <= Len(origin) BY <1>1, <1>2, <1>5 DEF OrderInv, DeliveriesGenerated
<1>7. ASSUME NEW x \in Nat, Carries(Tail(c2b), "Delivery", x) PROVE Head(c2b).id < x + MaxGroup
  <2>1. PICK f \in Range(Tail(c2b)) : f.kind = "Delivery" /\ f.id = x BY <1>7 DEF Carries
  <2> QED BY <1>1, <1>4, <2>1 DEF DeliveryOrder
<1>8. ASSUME NEW x \in Nat, Announced(c2b, x)
      PROVE  Head(c2b).id <= x /\ (x # Head(c2b).id => Announced(Tail(c2b), x))
  BY <1>1, <1>2, <1>4, <1>8
<1> QED BY <1>1, <1>2, <1>4, <1>5, <1>6, <1>7, <1>8 DEF Arriving

\* A copy of a delivery in the window is acknowledged again.
LEMMA ReadsCopy ==
    ASSUME OrderInv, RequestInv', BRecvDuplicateDelivery
    PROVE  OrderInv'
<1>1. /\ BReads("Delivery") /\ Contains(acquired_deliveries, Head(c2b).id) /\ c2b' = Tail(c2b)
      /\ UNCHANGED <<pending_deliveries, origin, routed, acquired_deliveries, bRestarts>>
  BY DEF BRecvDuplicateDelivery, bVars, cVars, budgets, history
<1>2. /\ Ordered(c2b', DeliveryOrder)
      /\ \A x \in Nat : Carries(c2b', "Delivery", x) => Carries(c2b, "Delivery", x)
      /\ \A x \in Nat : Announced(c2b, x) /\ x # Head(c2b).id => Announced(c2b', x)
  BY <1>1, ReadDelivery
<1>3. DeliveriesGenerated' BY <1>1, <1>2 DEF OrderInv, DeliveriesGenerated
<1>4. DeliveriesInOrder' BY <1>1, <1>2 DEF OrderInv, DeliveriesInOrder, DeliveryOrder, GroupOrder
<1>5. WindowIncreases' BY <1>1 DEF OrderInv, WindowIncreases, WindowCoversGroup
<1>6. NewIsLater'
  <2>1. \A x \in Nat : Arriving(x)' => Arriving(x) BY <1>1, <1>2 DEF Arriving
  <2> QED BY <1>1, <1>2, <2>1 DEF OrderInv, NewIsLater, WindowCoversGroup
<1>7. RoutedOnceInOrder' BY <1>1 DEF OrderInv, RoutedOnceInOrder
<1> QED BY <1>3, <1>4, <1>5, <1>6, <1>7 DEF OrderInv

\* The window after a later delivery was inserted: it still increases, and what left it
\* is older by at least its depth.
LEMMA InsertsLater ==
    ASSUME NEW w \in Seq(Nat), NEW max \in Nat \ {0}, Len(w) <= max, NEW h \in Nat,
           \A i, j \in DOMAIN w : i <= j => w[i] + (j - i) <= w[j],
           \A i \in DOMAIN w : w[i] < h
    PROVE  LET v == DedupInsert(w, max, h)
           IN  /\ \A i, j \in DOMAIN v : i <= j => v[i] + (j - i) <= v[j]
               /\ Len(w) = max => w[1] + max <= h
<1> DEFINE v == DedupInsert(w, max, h)
<1>0. Len(w) \in Nat /\ DOMAIN w = 1..Len(w) /\ \A i \in DOMAIN w : w[i] \in Nat OBVIOUS
<1>1. ~Contains(w, h) BY <1>0 DEF Contains
<1>2. ASSUME NEW i \in DOMAIN w PROVE w[i] + (Len(w) - i) + 1 <= h
  <2>1. Len(w) \in DOMAIN w /\ i <= Len(w) BY <1>0
  <2>2. w[i] + (Len(w) - i) <= w[Len(w)] /\ w[Len(w)] < h BY <2>1
  <2> QED BY <1>0, <2>1, <2>2
<1>3. Len(w) = max => w[1] + max <= h
  <2> SUFFICES ASSUME Len(w) = max PROVE w[1] + max <= h OBVIOUS
  <2>1. 1 \in DOMAIN w BY <1>0
  <2>2. w[1] + (Len(w) - 1) + 1 <= h BY <1>2, <2>1
  <2> QED BY <1>0, <2>1, <2>2
<1>4. CASE Len(w) # max
  <2>1. v = Append(w, h) BY <1>1, <1>4 DEF DedupInsert
  <2>2. /\ DOMAIN v = 1..(Len(w) + 1) /\ v[Len(w) + 1] = h
        /\ \A i \in DOMAIN w : v[i] = w[i]
    BY <1>0, <2>1
  <2> HIDE DEF v
  <2>3. ASSUME NEW i \in DOMAIN v, NEW j \in DOMAIN v, i <= j PROVE v[i] + (j - i) <= v[j]
    <3>1. CASE j \in DOMAIN w
      <4>1. i \in DOMAIN w BY <1>0, <2>2, <2>3, <3>1
      <4> QED BY <2>2, <2>3, <3>1, <4>1
    <3>2. CASE j = Len(w) + 1 /\ i \in DOMAIN w
      <4>1. w[i] + (Len(w) - i) + 1 <= h BY <1>2, <3>2
      <4>2. v[i] = w[i] /\ v[j] = h /\ w[i] \in Nat /\ i \in Nat BY <1>0, <2>2, <3>2
      <4> QED BY <1>0, <3>2, <4>1, <4>2
    <3>3. CASE i = Len(w) + 1 /\ j = Len(w) + 1 BY <1>0, <2>2, <3>3
    <3> QED BY <1>0, <2>2, <2>3, <3>1, <3>2, <3>3
  <2> QED BY <1>3, <2>3 DEF v
<1>5. CASE Len(w) = max
  <2> DEFINE t == Tail(w)
  <2>0. /\ t \in Seq(Nat) /\ Len(t) = Len(w) - 1 /\ \A i \in 1..Len(t) : t[i] = w[i + 1]
    BY <1>5, HeadTailProperties
  <2>1. v = Append(t, h) BY <1>1, <1>5 DEF DedupInsert
  <2> HIDE DEF t
  <2>2. /\ DOMAIN v = 1..Len(w) /\ v[Len(w)] = h
        /\ \A i \in 1..(Len(w) - 1) : v[i] = w[i + 1] /\ i + 1 \in DOMAIN w
    BY <1>0, <1>5, <2>0, <2>1
  <2> HIDE DEF v
  <2>3. ASSUME NEW i \in DOMAIN v, NEW j \in DOMAIN v, i <= j PROVE v[i] + (j - i) <= v[j]
    <3>1. CASE j < Len(w)
      <4>1. i \in 1..(Len(w) - 1) /\ j \in 1..(Len(w) - 1) BY <1>0, <2>2, <2>3, <3>1
      <4>2. v[i] = w[i + 1] /\ v[j] = w[j + 1] /\ i + 1 \in DOMAIN w /\ j + 1 \in DOMAIN w
        BY <2>2, <4>1
      <4>3. i + 1 <= j + 1 /\ (j + 1) - (i + 1) = j - i BY <1>0, <2>3, <4>1
      <4>4. w[i + 1] + ((j + 1) - (i + 1)) <= w[j + 1] BY <4>2, <4>3
      <4> QED BY <4>2, <4>3, <4>4
    <3>2. CASE j = Len(w) /\ i < Len(w)
      <4>1. i \in 1..(Len(w) - 1) BY <1>0, <2>2, <3>2
      <4>2. v[i] = w[i + 1] /\ i + 1 \in DOMAIN w /\ v[j] = h BY <2>2, <3>2, <4>1
      <4>3. w[i + 1] + (Len(w) - (i + 1)) + 1 <= h /\ w[i + 1] \in Nat BY <1>0, <1>2, <4>2
      <4>4. (Len(w) - (i + 1)) + 1 = j - i BY <1>0, <3>2, <4>1
      <4> QED BY <1>0, <3>2, <4>1, <4>2, <4>3, <4>4
    <3>3. CASE i = Len(w) /\ j = Len(w) BY <1>0, <2>2, <3>3
    <3> QED BY <1>0, <2>2, <2>3, <3>1, <3>2, <3>3
  <2> QED BY <1>3, <2>3 DEF v
<1> QED BY <1>4, <1>5

\* What was routed, after a delivery that was generated and is later than all of it.
LEMMA RoutedGrows ==
    ASSUME OrderInv, NEW h \in Nat, Arriving(h), ~Contains(acquired_deliveries, h),
           routed' = Append(routed, h), UNCHANGED <<origin, bRestarts>>
    PROVE  /\ \A x \in Nat : Contains(routed', x) => x \in 1..Len(origin)
           /\ WindowCoversGroup => \A i \in DOMAIN routed : routed[i] < h
           /\ \A x \in Nat : (h < x /\ \A i \in DOMAIN routed : routed[i] < x) =>
                                 \A i \in DOMAIN routed' : routed'[i] < x
           /\ RoutedOnceInOrder'
<1>0. routed \in Seq(Nat) /\ Len(origin) \in Nat /\ MaxGroup \in Nat BY OrderTypes
<1>1. /\ DOMAIN routed' = 1..(Len(routed) + 1) /\ DOMAIN routed = 1..Len(routed)
      /\ routed'[Len(routed) + 1] = h /\ Len(routed) \in Nat
      /\ \A i \in DOMAIN routed : routed'[i] = routed[i] /\ routed[i] \in Nat
  BY <1>0
<1>2. \A i \in DOMAIN routed' : i \in DOMAIN routed \/ i = Len(routed) + 1 BY <1>1
<1>3. h \in 1..Len(origin) BY DEF Arriving, OrderInv, DeliveriesGenerated
<1>4. \A x \in Nat : Contains(routed', x) => x \in 1..Len(origin)
  <2>1. \A x \in Nat : Contains(routed', x) => Contains(routed, x) \/ x = h
    BY <1>1, <1>2 DEF Contains
  <2> QED BY <1>3, <2>1 DEF OrderInv, DeliveriesGenerated
<1>5. WindowCoversGroup => \A i \in DOMAIN routed : routed[i] < h
  BY DEF OrderInv, NewIsLater
<1>6. \A x \in Nat : (h < x /\ \A i \in DOMAIN routed : routed[i] < x) =>
                         \A i \in DOMAIN routed' : routed'[i] < x
  BY <1>1, <1>2
<1>7. RoutedOnceInOrder'
  <2> SUFFICES ASSUME WindowCoversGroup, NEW i \in DOMAIN routed', NEW j \in DOMAIN routed', i < j
               PROVE  routed'[i] < routed'[j]
    BY DEF RoutedOnceInOrder, Increasing, WindowCoversGroup
  <2>1. i \in DOMAIN routed /\ (j \in DOMAIN routed \/ j = Len(routed) + 1) BY <1>1
  <2>2. \A k, l \in DOMAIN routed : k < l => routed[k] < routed[l]
    BY DEF OrderInv, RoutedOnceInOrder, Increasing, WindowCoversGroup
  <2> QED BY <1>1, <1>5, <2>1, <2>2
<1> QED BY <1>4, <1>5, <1>6, <1>7

\* brokerd routes a delivery that is not in its window: it is later than all it has routed.
LEMMA RoutesDelivery ==
    ASSUME OrderInv, RequestInv', BRouteDelivery
    PROVE  OrderInv'
<1> DEFINE h == Head(c2b).id
<1>1. /\ BReads("Delivery") /\ ~Contains(acquired_deliveries, h) /\ routed' = Append(routed, h)
      /\ UNCHANGED <<pending_deliveries, origin, bRestarts>>
  BY DEF BRouteDelivery, cVars, budgets
<1>2. /\ h \in Nat /\ Arriving(h) /\ h <= Len(origin) /\ c2b # <<>>
      /\ Ordered(Tail(c2b), DeliveryOrder)
      /\ \A x \in Nat : Carries(Tail(c2b), "Delivery", x) =>
             Carries(c2b, "Delivery", x) /\ h < x + MaxGroup
      /\ \A x \in Nat : Announced(c2b, x) => h <= x /\ (x # h => Announced(Tail(c2b), x))
  BY <1>1, ReadDelivery
<1>3. /\ acquired_deliveries \in Seq(Nat) /\ Len(acquired_deliveries) <= BrokerDedupDepth
      /\ Len(origin) \in Nat /\ MaxGroup \in Nat /\ BrokerDedupDepth \in Nat
      /\ \A x \in Nat : Contains(acquired_deliveries, x) => Contains(routed, x)
  BY OrderTypes, DepthAssumption
<1>4. BrokerDedupDepth = 0 => c2b' = <<>> /\ UNCHANGED acquired_deliveries
  BY DEF BRouteDelivery, BClose
<1>5. BrokerDedupDepth # 0 =>
          /\ acquired_deliveries' = DedupInsert(acquired_deliveries, BrokerDedupDepth, h)
          /\ c2b' = Tail(c2b)
  BY DEF BRouteDelivery
<1> HIDE DEF h
<1>6. /\ \A x \in Nat : Contains(routed', x) => x \in 1..Len(origin)
      /\ WindowCoversGroup => \A i \in DOMAIN routed : routed[i] < h
      /\ \A x \in Nat : (h < x /\ \A i \in DOMAIN routed : routed[i] < x) =>
                            \A i \in DOMAIN routed' : routed'[i] < x
      /\ RoutedOnceInOrder'
  BY <1>1, <1>2, RoutedGrows
<1>7. \A x \in Ids(pending_deliveries) : x \in 1..Len(origin) /\ x + MaxGroup > Len(origin)
  BY DEF OrderInv, DeliveriesGenerated
<1>8. CASE BrokerDedupDepth = 0
  <2>1. c2b' = <<>> /\ acquired_deliveries' = acquired_deliveries BY <1>4, <1>8
  <2>2. Ordered(c2b', DeliveryOrder) /\ \A x : ~Carries(c2b', "Delivery", x)
    BY <2>1, NoFrames
  <2>3. DeliveriesGenerated' BY <1>1, <1>6, <1>7, <2>2 DEF DeliveriesGenerated
  <2>4. DeliveriesInOrder'
    BY <1>1, <2>2 DEF OrderInv, DeliveriesInOrder, DeliveryOrder, GroupOrder
  <2>5. WindowIncreases' BY <1>1, <2>1 DEF OrderInv, WindowIncreases, WindowCoversGroup
  <2>6. ASSUME WindowCoversGroup, NEW x \in Ids(pending_deliveries) PROVE FALSE
    <3>1. MaxGroup = 0 BY <1>3, <1>8, <2>6 DEF WindowCoversGroup
    <3> QED BY <1>3, <1>7, <3>1
  <2>7. NewIsLater'
    <3>1. WindowCoversGroup' => WindowCoversGroup BY <1>1 DEF WindowCoversGroup
    <3>2. Ids(pending_deliveries') = Ids(pending_deliveries) BY <1>1
    <3> QED BY <2>2, <2>6, <3>1, <3>2 DEF NewIsLater, Arriving
  <2> QED BY <1>6, <2>3, <2>4, <2>5, <2>7 DEF OrderInv
<1>9. CASE BrokerDedupDepth # 0
  <2> DEFINE w == acquired_deliveries
             v == DedupInsert(acquired_deliveries, BrokerDedupDepth, h)
  <2>1. acquired_deliveries' = v /\ c2b' = Tail(c2b) BY <1>5, <1>9
  <2>2. /\ Contains(v, h)
        /\ \A x : Contains(w, x) => Contains(v, x) \/ (Len(w) = BrokerDedupDepth /\ x = w[1])
    BY <1>2, <1>3, <1>9, DedupInsertEntries
  <2>3. WindowCoversGroup =>
            /\ \A i, j \in DOMAIN v : i <= j => v[i] + (j - i) <= v[j]
            /\ Len(w) = BrokerDedupDepth => w[1] + BrokerDedupDepth <= h
    <3> SUFFICES ASSUME WindowCoversGroup
                 PROVE  /\ \A i, j \in DOMAIN v : i <= j => v[i] + (j - i) <= v[j]
                        /\ Len(w) = BrokerDedupDepth => w[1] + BrokerDedupDepth <= h
      OBVIOUS
    <3>1. \A i, j \in DOMAIN w : i <= j => w[i] + (j - i) <= w[j]
      BY DEF OrderInv, WindowIncreases
    <3>2. ASSUME NEW i \in DOMAIN w PROVE w[i] < h
      <4>1. w[i] \in Nat /\ Contains(w, w[i]) BY <1>3 DEF Contains
      <4>2. Contains(routed, w[i]) BY <1>3, <4>1
      <4> QED BY <1>6, <4>2 DEF Contains
    <3> QED BY <1>2, <1>3, <1>9, <3>1, <3>2, InsertsLater
  <2> HIDE DEF w, v
  <2>4. DeliveriesGenerated'
    <3>1. \A x \in Nat : Carries(c2b', "Delivery", x) => x \in 1..Len(origin)
      BY <1>2, <2>1 DEF OrderInv, DeliveriesGenerated
    <3> QED BY <1>1, <1>6, <1>7, <3>1 DEF DeliveriesGenerated
  <2>5. DeliveriesInOrder'
    BY <1>1, <1>2, <2>1 DEF OrderInv, DeliveriesInOrder, DeliveryOrder, GroupOrder
  <2>6. WindowIncreases' BY <1>1, <2>1, <2>3 DEF WindowIncreases, WindowCoversGroup
  <2>7. NewIsLater'
    <3> SUFFICES ASSUME WindowCoversGroup, NEW x \in Nat,
                        Carries(Tail(c2b), "Delivery", x) \/ x \in Ids(pending_deliveries),
                        ~Contains(v, x)
                 PROVE  (\A i \in DOMAIN routed' : routed'[i] < x) /\ Announced(Tail(c2b), x)
      BY <1>1, <2>1 DEF NewIsLater, WindowCoversGroup, Arriving
    <3>1. x # h BY <2>2
    <3>2. h < x + MaxGroup
      <4>1. CASE Carries(Tail(c2b), "Delivery", x) BY <1>2, <4>1
      <4>2. CASE x \in Ids(pending_deliveries) BY <1>2, <1>3, <1>7, <4>2
      <4> QED BY <4>1, <4>2
    <3>3. ~Contains(w, x)
      <4> SUFFICES ASSUME Contains(w, x) PROVE FALSE OBVIOUS
      <4>1. x = w[1] /\ w[1] + BrokerDedupDepth <= h BY <2>2, <2>3
      <4>2. MaxGroup <= BrokerDedupDepth BY DEF WindowCoversGroup
      <4> QED BY <1>2, <1>3, <3>2, <4>1, <4>2
    <3>4. Arriving(x) BY <1>2 DEF Arriving
    <3>5. (\A i \in DOMAIN routed : routed[i] < x) /\ Announced(c2b, x)
      BY <3>3, <3>4 DEF OrderInv, NewIsLater, w
    <3>6. h <= x /\ Announced(Tail(c2b), x) BY <1>2, <3>1, <3>5
    <3>7. h < x BY <1>2, <3>1, <3>6
    <3> QED BY <1>6, <3>5, <3>6, <3>7
  <2> QED BY <1>6, <2>4, <2>5, <2>6, <2>7 DEF OrderInv
<1> QED BY <1>8, <1>9

\* Either process loses its memory.
LEMMA ForgetsDeliveries ==
    ASSUME OrderInv, RequestInv', BrokerRestart \/ CaRestart
    PROVE  OrderInv'
<1>0. c2b \in Seq(Frames) /\ bRestarts \in Nat BY OrderTypes
<1>1. CASE BrokerRestart
  <2>1. /\ c2b' = <<>> /\ bRestarts' = bRestarts + 1
        /\ UNCHANGED <<pending_deliveries, origin, routed>>
    BY <1>1 DEF BrokerRestart, BClose, cVars, history
  <2>2. Ordered(c2b', DeliveryOrder) /\ \A x : ~Carries(c2b', "Delivery", x) BY <2>1, NoFrames
  <2>3. bRestarts' # 0 BY <1>0, <2>1
  <2>4. DeliveriesGenerated' BY <2>1, <2>2 DEF OrderInv, DeliveriesGenerated
  <2>5. DeliveriesInOrder'
    BY <2>1, <2>2 DEF OrderInv, DeliveriesInOrder, DeliveryOrder, GroupOrder
  <2>6. WindowIncreases' /\ NewIsLater' /\ RoutedOnceInOrder'
    BY <2>3 DEF WindowIncreases, NewIsLater, RoutedOnceInOrder, WindowCoversGroup
  <2> QED BY <2>4, <2>5, <2>6 DEF OrderInv
<1>2. CASE CaRestart
  <2>1. /\ c2b' \in Survivors(c2b) /\ pending_deliveries' = <<>>
        /\ UNCHANGED <<origin, routed, acquired_deliveries, bRestarts>>
    BY <1>2 DEF CaRestart, bVars, history
  <2>2. /\ Ordered(c2b', DeliveryOrder)
        /\ \A x \in Nat : Carries(c2b', "Delivery", x) => Carries(c2b, "Delivery", x)
        /\ \A x \in Nat : Announced(c2b, x) => Announced(c2b', x)
    BY <1>0, <2>1, SurvivingFrames DEF OrderInv, DeliveriesInOrder
  <2>3. Ids(pending_deliveries') = {} /\ Ordered(pending_deliveries', GroupOrder)
    BY <2>1, NoFrames DEF Ids
  <2>4. DeliveriesGenerated' BY <2>1, <2>2, <2>3 DEF OrderInv, DeliveriesGenerated
  <2>5. DeliveriesInOrder' BY <2>2, <2>3 DEF DeliveriesInOrder, DeliveryOrder, GroupOrder
  <2>6. WindowIncreases' BY <2>1 DEF OrderInv, WindowIncreases, WindowCoversGroup
  <2>7. NewIsLater'
    <3>1. \A x \in Nat : Arriving(x)' => Arriving(x) BY <2>2, <2>3 DEF Arriving
    <3> QED BY <2>1, <2>2, <3>1 DEF OrderInv, NewIsLater, WindowCoversGroup
  <2>8. RoutedOnceInOrder' BY <2>1 DEF OrderInv, RoutedOnceInOrder
  <2> QED BY <2>4, <2>5, <2>6, <2>7, <2>8 DEF OrderInv
<1> QED BY <1>1, <1>2

\* Dropping the stream on either side.
LEMMA OrderClose ==
    ASSUME OrderInv, RequestInv', BClose \/ CClose,
           UNCHANGED <<pending_deliveries, origin, routed, acquired_deliveries, bRestarts>>
    PROVE  OrderInv'
<1>1. c2b \in Seq(Frames) /\ Ordered(c2b, DeliveryOrder)
  BY OrderTypes DEF OrderInv, DeliveriesInOrder
<1>2. c2b' = <<>> \/ c2b' \in Survivors(c2b) BY DEF BClose, CClose
<1>3. /\ Ordered(c2b', DeliveryOrder)
      /\ \A x \in Nat : Carries(c2b', "Delivery", x) => Carries(c2b, "Delivery", x)
      /\ \A x \in Nat : Announced(c2b, x) => Announced(c2b', x)
  <2>1. CASE c2b' = <<>> BY <2>1, NoFrames
  <2>2. CASE c2b' \in Survivors(c2b) BY <1>1, <2>2, SurvivingFrames
  <2> QED BY <1>2, <2>1, <2>2
<1> QED BY <1>3, QuietForDeliveries

LEMMA OrderNext == OrderInv /\ [Next]_vars => OrderInv'
<1> SUFFICES ASSUME OrderInv, [Next]_vars PROVE OrderInv'
  OBVIOUS
<1>0. RequestInv' BY RequestNext DEF OrderInv
<1>a. /\ c2b \in Seq(Frames) /\ Ordered(c2b, DeliveryOrder)
      /\ pending_deliveries \in Seq(DeliveryFrames) /\ pending_deliveries \in Seq(Frames)
      /\ Ordered(pending_deliveries, GroupOrder)
  BY OrderTypes DEF OrderInv, DeliveriesInOrder
<1>b. ASSUME c2b # <<>>, Head(c2b).kind # "Delivery"
      PROVE  /\ Ordered(Tail(c2b), DeliveryOrder)
             /\ \A x \in Nat : Carries(Tail(c2b), "Delivery", x) => Carries(c2b, "Delivery", x)
             /\ \A x \in Nat : Announced(c2b, x) => Announced(Tail(c2b), x)
  BY <1>a, <1>b, ReadFrame
<1>c. /\ \A x \in Ids(pending_deliveries) : Announced(pending_deliveries, x)
      /\ \A x : Carries(pending_deliveries, "Delivery", x) <=> x \in Ids(pending_deliveries)
      /\ Ordered(pending_deliveries, DeliveryOrder)
  BY <1>a, GroupAnnounced
<1>1. ASSUME NEW session \in Requests, AgentRequest(session) PROVE OrderInv'
  BY <1>0, <1>a, <1>1, QuietForDeliveries DEF AgentRequest, cVars, net, history
<1>2. CASE BConnect
  BY <1>0, <1>a, <1>2, QuietForDeliveries DEF BConnect, cVars, budgets, history
<1>3. CASE CAccept
  <2>1. c2b' = <<AuthFrame("AuthChallenge")>> BY <1>3 DEF CAccept
  <2>2. AuthFrame("AuthChallenge").kind # "Delivery" BY DEF AuthFrame, Frame
  <2>3. /\ Ordered(c2b', DeliveryOrder) /\ \A x \in Nat : ~Carries(c2b', "Delivery", x)
        /\ \A x \in Nat : Announced(c2b', x)
    BY <2>1, <2>2, OneFrame
  <2> QED BY <1>0, <1>3, <2>3, QuietForDeliveries DEF CAccept, bVars, budgets, history
<1>4. CASE BRecvChallenge
  <2>1. c2b # <<>> /\ Head(c2b).kind # "Delivery" /\ c2b' = Tail(c2b)
    BY <1>4 DEF BRecvChallenge, BReads
  <2> QED BY <1>0, <1>b, <1>4, <2>1, QuietForDeliveries DEF BRecvChallenge, cVars, budgets, history
<1>5. CASE CRecvAuthResponse
  <2> DEFINE ok == AuthFrame("AuthOk")
             fs == <<ok>> \o pending_deliveries
  <2>1. ok \in Frames /\ ok.kind # "Delivery" BY FrameTypes DEF FrameKinds, AuthFrame, Frame
  <2>2. c2b' = Sent(c2b, fs) BY <1>5 DEF CRecvAuthResponse
  <2> HIDE DEF ok
  <2>3. /\ Range(<<ok>>) = {ok} /\ Ordered(<<ok>>, DeliveryOrder)
        /\ \A x : ~Carries(<<ok>>, "Delivery", x) /\ Announced(<<ok>>, x)
    BY <2>1, OneFrame
  <2>4. \A g \in Range(pending_deliveries) : <<ok, g>> \in DeliveryOrder
    <3>1. \A g \in Range(pending_deliveries) : g \in Frames BY <1>a, RangeOfSeq
    <3> QED BY <2>1, <3>1 DEF DeliveryOrder
  <2>5. <<ok>> \in Seq(Frames) BY <2>1
  <2>6. fs \in Seq(Frames) BY <1>a, <2>5
  <2>7. /\ \A x \in Nat : Carries(fs, "Delivery", x) => x \in Ids(pending_deliveries)
        /\ \A x \in Ids(pending_deliveries) : Announced(fs, x)
        /\ Ordered(fs, DeliveryOrder)
    BY <1>a, <1>c, <2>3, <2>4, <2>5, JoinFrames
  <2> HIDE DEF fs
  <2>8. UNCHANGED <<pending_deliveries, origin, routed, acquired_deliveries, bRestarts>>
    BY <1>5 DEF CRecvAuthResponse, bVars, budgets, history
  <2> QED BY <1>0, <2>2, <2>6, <2>7, <2>8, ResendsGroup
<1>6. CASE BRecvAuthOk
  <2>1. c2b # <<>> /\ Head(c2b).kind # "Delivery" /\ c2b' = Tail(c2b)
    BY <1>6 DEF BRecvAuthOk, BReads
  <2> QED BY <1>0, <1>b, <1>6, <2>1, QuietForDeliveries DEF BRecvAuthOk, cVars, budgets, history
<1>7. CASE BTakeRequest
  BY <1>0, <1>a, <1>7, QuietForDeliveries DEF BTakeRequest, cVars, budgets
<1>8. CASE BRecvAck
  <2>1. c2b # <<>> /\ Head(c2b).kind # "Delivery" /\ c2b' = Tail(c2b)
    BY <1>8 DEF BRecvAck, BReads
  <2> QED BY <1>0, <1>b, <1>8, <2>1, QuietForDeliveries DEF BRecvAck, cVars, budgets, history
<1>9. CASE BRecvDuplicateDelivery BY <1>0, <1>9, ReadsCopy
<1>10. CASE BRouteDelivery BY <1>0, <1>10, RoutesDelivery
<1>11. CASE BRejectDelivery
  BY <1>0, <1>11, OrderClose DEF BRejectDelivery, cVars, history
<1>12. CASE BRetry
  BY <1>0, <1>a, <1>12, QuietForDeliveries DEF BRetry, bVars, cVars, budgets, history
<1>13. CASE CRecvAck BY <1>0, <1>13, OrderedGroupShrinks
<1>14. CASE CRecvCurrentRequest
  BY <1>0, <1>a, <1>14, QuietForDeliveries DEF CRecvCurrentRequest, bVars, cVars, budgets, history
<1>15. ASSUME CRecvAcquiredRequest \/ CProcessNoDelivery PROVE OrderInv'
  <2> DEFINE f == Ack(Head(b2c).id)
  <2>1. /\ c2b' = Sent(c2b, <<f>>) /\ b2c # <<>>
        /\ UNCHANGED <<pending_deliveries, origin, routed, acquired_deliveries, bRestarts>>
    BY <1>15 DEF CRecvAcquiredRequest, CProcessNoDelivery, CReadsNewRequest, CReads,
                 bVars, cVars, budgets, history
  <2>2. Head(b2c).id \in Nat BY <2>1, OrderTypes, HeadType
  <2>3. f \in Frames /\ f.kind # "Delivery" BY <2>2, FrameTypes DEF Ack, Frame
  <2> HIDE DEF f
  <2>4. /\ Ordered(c2b', DeliveryOrder)
        /\ \A x \in Nat : Carries(c2b', "Delivery", x) => Carries(c2b, "Delivery", x)
        /\ \A x \in Nat : Announced(c2b, x) => Announced(c2b', x)
    BY <2>1, <2>3, SendsNoDelivery
  <2> QED BY <1>0, <2>1, <2>4, QuietForDeliveries
<1>17. ASSUME NEW n \in 1..MaxGroup, CPublish(n) PROVE OrderInv'
  BY <1>0, <1>17, GeneratesGroup
<1>18. CASE CUnexpectedRequest
  BY <1>0, <1>18, OrderClose DEF CUnexpectedRequest, bVars, budgets, history
<1>19. CASE CRetry
  <2>1. /\ c2b' = Sent(c2b, pending_deliveries)
        /\ UNCHANGED <<pending_deliveries, origin, routed, acquired_deliveries, bRestarts>>
    BY <1>19 DEF CRetry, bVars, cVars, budgets, history
  <2> QED BY <1>0, <1>a, <1>c, <2>1, ResendsGroup
<1>20. CASE BEof
  BY <1>0, <1>20, OrderClose DEF BEof, cVars, budgets, history
<1>21. CASE CEof
  BY <1>0, <1>21, OrderClose DEF CEof, bVars, budgets, history
<1>22. CASE BLinkFailure
  BY <1>0, <1>22, OrderClose DEF BLinkFailure, cVars, history
<1>23. CASE CLinkFailure
  BY <1>0, <1>23, OrderClose DEF CLinkFailure, bVars, history
<1>24. ASSUME BrokerRestart \/ CaRestart PROVE OrderInv' BY <1>0, <1>24, ForgetsDeliveries
<1>26. CASE UNCHANGED vars
  BY <1>0, <1>a, <1>26, QuietForDeliveries DEF vars, bVars, cVars, net, budgets, history
<1> QED
  BY <1>1, <1>2, <1>3, <1>4, <1>5, <1>6, <1>7, <1>8, <1>9, <1>10, <1>11, <1>12, <1>13, <1>14,
     <1>15, <1>17, <1>18, <1>19, <1>20, <1>21, <1>22, <1>23, <1>24, <1>26
     DEF Next, BStep, CStep, Faults

LEMMA OrderInvariant == Spec => []OrderInv
BY OrderInit, OrderNext, PTL DEF Spec

\* With a window as large as a group, and as long as brokerd runs, it routes every delivery once
\* and in the order in which cad generated them, whatever is retransmitted, lost or refused and
\* however often cad restarts.
THEOREM RoutedInOrder == Spec => []RoutedOnceInOrder
<1>1. OrderInv => RoutedOnceInOrder BY DEF OrderInv
<1> QED BY <1>1, OrderInvariant, PTL
=============================================================================
