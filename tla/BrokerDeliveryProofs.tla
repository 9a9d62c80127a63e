------------------------ MODULE BrokerDeliveryProofs ------------------------
(***************************************************************************)
(* Proofs about BrokerDelivery: what the link promises, joined to the      *)
(* router that its deliveries end in, for any Agents, any of them reading, *)
(* and any depth of queues.                                                *)
(***************************************************************************)
EXTENDS BrokerDelivery, BrokerCaLinkProofs

EndsTypeOK ==
    /\ to \in Seq(Agents) /\ Len(to) = Len(origin)
    /\ hand \in [Agents -> Seq(Nat)] /\ captured \in [Agents -> Seq(Nat)]
    /\ channel \in [Agents -> Seq(Nat)] /\ offline \in [Agents -> Seq(Nat)]
    /\ written \in [Agents -> Seq(Nat)]

\* An Agent that is not registered has nothing but its offline queue, and that of a registered
\* one is empty unless a delivery was enqueued behind its back.
Tables ==
    \A a \in Agents :
        /\ a \notin connected => hand[a] = <<>> /\ captured[a] = <<>> /\ channel[a] = <<>>
        /\ a \in connected /\ a \notin raced => offline[a] = <<>>

RoutedIsTaken ==
    \A d \in Nat : Contains(routed, d) => Contains(Taken(to[d]), d) \/ to[d] \in cut

TakenIsRouted ==
    \A a \in Agents : \A d \in Nat : Contains(Taken(a), d) => Contains(routed, d) /\ to[d] = a

Once(s) == \A i, j \in DOMAIN s : s[i] = s[j] => i = j

TakenOnce == BrokerDedupDepth >= MaxGroup => \A a \in Agents : Once(Taken(a))

TakenInOrder ==
    BrokerDedupDepth >= MaxGroup => \A a \in Agents \ raced : Increasing(Taken(a))

\* The link's own invariant, without restarts of brokerd, and what the router holds of the
\* deliveries that were routed.
EndInv ==
    /\ OrderInv /\ bRestarts = 0
    /\ EndsTypeOK /\ Tables /\ RoutedIsTaken /\ TakenIsRouted /\ TakenOnce /\ TakenInOrder

(***************************************************************************)
(* Sequences.                                                              *)
(***************************************************************************)
\* What is appended to the second of two sequences is appended to the two.
LEMMA AppendToSecond ==
    ASSUME NEW s \in Seq(Nat), NEW q \in Seq(Nat), NEW d \in Nat
    PROVE  s \o Append(q, d) = Append(s \o q, d)
<1>1. <<d>> \in Seq(Nat) OBVIOUS
<1>2. Append(q, d) = q \o <<d>> BY AppendIsConcat
<1>3. s \o q \in Seq(Nat) BY ConcatProperties
<1>4. Append(s \o q, d) = (s \o q) \o <<d>> BY <1>3, AppendIsConcat
<1> QED BY <1>1, <1>2, <1>4, ConcatAssociative

\* A sequence is its first entry and the others.
LEMMA HeadAndTail ==
    ASSUME NEW q \in Seq(Nat), q # <<>>
    PROVE  << Head(q) >> \in Seq(Nat) /\ Tail(q) \in Seq(Nat) /\ << Head(q) >> \o Tail(q) = q
<1>1. Head(q) \in Nat /\ Tail(q) \in Seq(Nat) BY HeadTailProperties
<1>2. << Head(q) >> \in Seq(Nat) BY <1>1
<1> DEFINE u == << Head(q) >> \o Tail(q)
<1>3. /\ u \in Seq(Nat) /\ Len(u) = 1 + Len(Tail(q))
      /\ \A i \in 1..(1 + Len(Tail(q))) : u[i] = IF i <= 1 THEN Head(q) ELSE Tail(q)[i - 1]
  BY <1>1, <1>2, ConcatProperties
<1>4. /\ Len(q) \in Nat /\ Len(Tail(q)) = Len(q) - 1 /\ Head(q) = q[1]
      /\ \A i \in 1..Len(Tail(q)) : Tail(q)[i] = q[i + 1]
  BY HeadTailProperties
<1> HIDE DEF u
<1>5. Len(u) = Len(q) BY <1>3, <1>4
<1>6. ASSUME NEW i \in 1..Len(u) PROVE u[i] = q[i]
  <2>1. CASE i = 1 BY <1>3, <1>4, <1>5, <2>1
  <2>2. CASE i # 1
    <3>1. i - 1 \in 1..Len(Tail(q)) /\ (i - 1) + 1 = i /\ ~(i <= 1)
      BY <1>3, <1>4, <1>5, <2>2
    <3>2. Tail(q)[i - 1] = q[i] BY <1>4, <3>1
    <3> QED BY <1>3, <1>5, <3>1, <3>2
  <2> QED BY <2>1, <2>2
<1>7. u = q BY <1>3, <1>5, <1>6, SeqEqual
<1> QED BY <1>1, <1>2, <1>7 DEF u

LEMMA Associative == \A x, y, z \in Seq(Nat) : (x \o y) \o z = x \o (y \o z)
<1> DEFINE S == Nat
<1> SUFFICES ASSUME NEW x \in Seq(S), NEW y \in Seq(S), NEW z \in Seq(S)
             PROVE  (x \o y) \o z = x \o (y \o z)
  OBVIOUS
<1> HIDE DEF S
<1> QED BY ConcatAssociative

\* A new entry is put between two sequences.
LEMMA Insert ==
    ASSUME NEW x \in Seq(Nat), NEW y \in Seq(Nat), NEW h \in Nat
    PROVE  LET s == x \o y
               t == Append(x, h) \o y
           IN  /\ \A d : Contains(t, d) <=> Contains(s, d) \/ d = h
               /\ Once(s) /\ ~Contains(s, h) => Once(t)
               /\ y = <<>> /\ Increasing(s) /\ (\A i \in DOMAIN s : s[i] < h) => Increasing(t)
<1> DEFINE s == x \o y
           t == Append(x, h) \o y
           n == Len(x)
           m == Len(y)
           old(i) == IF i <= n THEN i ELSE i - 1
           new(i) == IF i <= n THEN i ELSE i + 1
<1>1. /\ n \in Nat /\ m \in Nat /\ s \in Seq(Nat) /\ DOMAIN s = 1..(n + m)
      /\ \A i \in 1..(n + m) : s[i] = IF i <= n THEN x[i] ELSE y[i - n]
  BY ConcatProperties
<1>2. /\ Append(x, h) \in Seq(Nat) /\ Len(Append(x, h)) = n + 1 /\ Append(x, h)[n + 1] = h
      /\ \A i \in 1..n : Append(x, h)[i] = x[i]
  OBVIOUS
<1>3. /\ t \in Seq(Nat) /\ Len(t) = (n + 1) + m
      /\ \A i \in 1..((n + 1) + m) : t[i] = IF i <= n + 1 THEN Append(x, h)[i] ELSE y[i - (n + 1)]
  BY <1>2, ConcatProperties
<1> HIDE DEF n, m, s, t
<1>a. n \in Nat /\ m \in Nat BY <1>1
<1>4. DOMAIN t = 1..(n + 1 + m) /\ t[n + 1] = h BY <1>1, <1>2, <1>3
<1>5. ASSUME NEW i \in DOMAIN t, i # n + 1
      PROVE  /\ old(i) \in DOMAIN s /\ t[i] = s[old(i)]
             /\ i = IF old(i) <= n THEN old(i) ELSE old(i) + 1
  <2>1. CASE i <= n
    <3>1. i \in 1..n /\ i \in 1..(n + m) /\ i \in 1..((n + 1) + m) /\ i <= n + 1
      BY <1>a, <1>4, <2>1
    <3>2. t[i] = x[i] /\ s[i] = x[i] BY <1>1, <1>2, <1>3, <2>1, <3>1
    <3> QED BY <1>1, <2>1, <3>1, <3>2
  <2>2. CASE ~(i <= n)
    <3>1. i \in Int /\ n \in Int /\ m \in Int /\ i > n + 1 /\ i <= n + 1 + m
      BY <1>1, <1>4, <1>5, <2>2
    <3>2. i - 1 \in 1..(n + m) /\ ~(i - 1 <= n) /\ ~(i <= n + 1) /\ (i - 1) - n = i - (n + 1)
      BY <1>a, <3>1
    <3>3. old(i) = i - 1 BY <2>2
    <3>4. s[i - 1] = y[(i - 1) - n] /\ t[i] = y[i - (n + 1)] BY <1>1, <1>3, <1>4, <3>2
    <3>5. t[i] = s[i - 1] /\ i - 1 \in DOMAIN s BY <1>1, <3>2, <3>4
    <3>6. (i - 1) + 1 = i BY <3>1
    <3> QED BY <3>2, <3>3, <3>5, <3>6
  <2> QED BY <2>1, <2>2
<1>6. ASSUME NEW i \in DOMAIN s PROVE new(i) \in DOMAIN t /\ t[new(i)] = s[i]
  <2>1. CASE i <= n
    <3>1. i \in 1..n /\ i \in 1..(n + m) /\ i \in 1..((n + 1) + m) /\ i <= n + 1
      BY <1>a, <1>1, <2>1
    <3>2. t[i] = x[i] /\ s[i] = x[i] BY <1>1, <1>2, <1>3, <2>1, <3>1
    <3>3. i \in DOMAIN t /\ new(i) = i BY <1>a, <1>4, <2>1, <3>1
    <3> QED BY <3>2, <3>3
  <2>2. CASE ~(i <= n)
    <3>1. i + 1 \in 1..((n + 1) + m) /\ ~(i + 1 <= n + 1) /\ (i + 1) - (n + 1) = i - n
      BY <1>1, <2>2
    <3> QED BY <1>1, <1>3, <1>4, <2>2, <3>1
  <2> QED BY <2>1, <2>2
<1>7. n + 1 \in DOMAIN t BY <1>1, <1>4
<1>8. DOMAIN s = 1..Len(s) /\ DOMAIN t = 1..Len(t) BY <1>1, <1>3
<1> HIDE DEF old, new
<1>9. \A d : Contains(t, d) <=> Contains(s, d) \/ d = h
  <2>1. ASSUME NEW d, Contains(t, d) PROVE Contains(s, d) \/ d = h
    <3>1. PICK i \in DOMAIN t : t[i] = d BY <1>8, <2>1 DEF Contains
    <3> QED BY <1>4, <1>5, <1>8, <3>1 DEF Contains
  <2>2. ASSUME NEW d, Contains(s, d) PROVE Contains(t, d)
    <3>1. PICK i \in DOMAIN s : s[i] = d BY <1>8, <2>2 DEF Contains
    <3> QED BY <1>6, <1>8, <3>1 DEF Contains
  <2>3. Contains(t, h) BY <1>4, <1>7, <1>8 DEF Contains
  <2> QED BY <2>1, <2>2, <2>3
<1>10. ASSUME Once(s), ~Contains(s, h) PROVE Once(t)
  <2>1. \A i \in DOMAIN t : t[i] = h => i = n + 1 BY <1>5, <1>8, <1>10 DEF Contains
  <2>2. ASSUME NEW i \in DOMAIN t, NEW j \in DOMAIN t, t[i] = t[j] PROVE i = j
    <3>1. CASE i = n + 1 \/ j = n + 1 BY <1>4, <2>1, <2>2, <3>1
    <3>2. CASE i # n + 1 /\ j # n + 1
      <4>1. old(i) = old(j) BY <1>5, <1>10, <2>2, <3>2 DEF Once
      <4> QED BY <1>5, <3>2, <4>1
    <3> QED BY <3>1, <3>2
  <2> QED BY <2>2 DEF Once
<1>11. ASSUME y = <<>>, Increasing(s), \A i \in DOMAIN s : s[i] < h PROVE Increasing(t)
  <2>1. m = 0 BY <1>11 DEF m
  <2>2. ASSUME NEW i \in DOMAIN t, NEW j \in DOMAIN t, i < j PROVE t[i] < t[j]
    <3>1. i \in 1..n /\ j \in 1..(n + 1) BY <1>1, <1>4, <2>1, <2>2
    <3>2. ASSUME NEW k \in 1..n PROVE k \in DOMAIN s /\ t[k] = s[k]
      <4>1. k <= n /\ k # n + 1 /\ k \in DOMAIN t BY <1>1, <1>4, <2>1
      <4>2. old(k) = k BY <4>1 DEF old
      <4> QED BY <1>5, <4>1, <4>2
    <3>3. CASE j = n + 1 BY <1>4, <1>11, <3>1, <3>2, <3>3
    <3>4. CASE j # n + 1
      <4>1. j \in 1..n BY <1>1, <3>1, <3>4
      <4> QED BY <1>11, <2>2, <3>1, <3>2, <4>1 DEF Increasing
    <3> QED BY <3>3, <3>4
  <2> QED BY <2>2 DEF Increasing
<1> QED BY <1>9, <1>10, <1>11 DEF s, t

\* t is s, cut at some length.
IsPrefixOf(t, s) == t \in Seq(Nat) /\ s \in Seq(Nat) /\ Len(t) <= Len(s)
                    /\ \A i \in 1..Len(t) : t[i] = s[i]

\* The second of two sequences is cut.
LEMMA CutSecond ==
    ASSUME NEW w \in Seq(Nat), NEW q \in Seq(Nat), NEW n \in Nat, Len(q) > n
    PROVE  SubSeq(q, 1, n) \in Seq(Nat) /\ IsPrefixOf(w \o SubSeq(q, 1, n), w \o q)
<1> DEFINE p == SubSeq(q, 1, n)
<1>1. Len(q) \in Nat /\ \A i \in 1..n : i \in 1..Len(q) /\ q[i] \in Nat OBVIOUS
<1>2. /\ p \in Seq(Nat) /\ Len(p) = n
      /\ \A i \in 1..n : p[i] = q[i]
  BY <1>1
<1> HIDE DEF p
<1>3. /\ w \o p \in Seq(Nat) /\ Len(w \o p) = Len(w) + n
      /\ \A i \in 1..(Len(w) + n) : (w \o p)[i] = IF i <= Len(w) THEN w[i] ELSE p[i - Len(w)]
  BY <1>2, ConcatProperties
<1>4. /\ w \o q \in Seq(Nat) /\ Len(w \o q) = Len(w) + Len(q)
      /\ \A i \in 1..(Len(w) + Len(q)) :
             (w \o q)[i] = IF i <= Len(w) THEN w[i] ELSE q[i - Len(w)]
  BY ConcatProperties
<1>5. ASSUME NEW i \in 1..(Len(w) + n) PROVE (w \o p)[i] = (w \o q)[i]
  <2>1. i \in 1..(Len(w) + Len(q)) BY <1>1
  <2>2. CASE i <= Len(w) BY <1>3, <1>4, <2>1, <2>2
  <2>3. CASE ~(i <= Len(w))
    <3>1. i - Len(w) \in 1..n BY <2>3
    <3> QED BY <1>2, <1>3, <1>4, <2>1, <2>3, <3>1
  <2> QED BY <2>2, <2>3
<1> QED BY <1>1, <1>2, <1>3, <1>4, <1>5 DEF IsPrefixOf, p

\* What a cut keeps.
LEMMA PrefixKeeps ==
    ASSUME NEW t, NEW s, IsPrefixOf(t, s)
    PROVE  /\ \A d : Contains(t, d) => Contains(s, d)
           /\ Once(s) => Once(t)
           /\ Increasing(s) => Increasing(t)
<1>1. /\ DOMAIN t = 1..Len(t) /\ DOMAIN s = 1..Len(s) /\ Len(t) \in Nat /\ Len(s) \in Nat
      /\ \A i \in DOMAIN t : t[i] = s[i]
  <2>1. t \in Seq(Nat) /\ s \in Seq(Nat) BY DEF IsPrefixOf
  <2>2. DOMAIN t = 1..Len(t) /\ Len(t) \in Nat BY <2>1
  <2>3. DOMAIN s = 1..Len(s) /\ Len(s) \in Nat BY <2>1
  <2> QED BY <2>2, <2>3 DEF IsPrefixOf
<1>2. \A i \in DOMAIN t : i \in DOMAIN s BY <1>1 DEF IsPrefixOf
<1>3. \A d : Contains(t, d) => Contains(s, d) BY <1>1, <1>2 DEF Contains
<1>4. Once(s) => Once(t) BY <1>1, <1>2 DEF Once
<1>5. Increasing(s) => Increasing(t) BY <1>1, <1>2 DEF Increasing
<1> QED BY <1>3, <1>4, <1>5

(***************************************************************************)
(* What the router holds for one Agent, whose queues are w (written), h    *)
(* (in hand), c (captured), q (the channel) and o (offline).               *)
(***************************************************************************)
Chain(w, h, c, q, o) == w \o (h \o c \o q) \o o

LEMMA ChainType ==
    ASSUME NEW w \in Seq(Nat), NEW h \in Seq(Nat), NEW c \in Seq(Nat), NEW q \in Seq(Nat),
           NEW o \in Seq(Nat)
    PROVE  /\ h \o c \in Seq(Nat) /\ h \o c \o q \in Seq(Nat) /\ h \o c \o q \o o \in Seq(Nat)
           /\ w \o (h \o c \o q) \in Seq(Nat)
           /\ Chain(w, h, c, q, o) \in Seq(Nat)
           /\ Chain(w, h, c, q, o) = w \o (h \o c \o q \o o)
<1>1. h \o c \in Seq(Nat) BY ConcatProperties
<1>2. h \o c \o q \in Seq(Nat) BY <1>1, ConcatProperties
<1> DEFINE u == h \o c \o q
<1> HIDE DEF u
<1>3. u \in Seq(Nat) BY <1>2 DEF u
<1>4. w \o u \in Seq(Nat) /\ u \o o \in Seq(Nat) BY <1>3, ConcatProperties
<1>5. (w \o u) \o o \in Seq(Nat) BY <1>4, ConcatProperties
<1>6. (w \o u) \o o = w \o (u \o o)
  <2>1. \A x, y \in Seq(Nat) : (w \o x) \o y = w \o (x \o y) BY Associative
  <2> QED BY <1>3, <2>1
<1> QED BY <1>1, <1>3, <1>4, <1>5, <1>6 DEF u, Chain

\* Registration moves the offline queue to where the captured one is, recv_best_effort the first
\* captured frame, or the first of the channel, into the hand.
LEMMA ChainMoves ==
    /\ \A w, o \in Seq(Nat) : Chain(w, <<>>, o, <<>>, <<>>) = Chain(w, <<>>, <<>>, <<>>, o)
    /\ \A w, o \in Seq(Nat) : Chain(w, <<>>, <<>>, <<>>, o) = w \o o
    /\ \A c \in Seq(Nat) : c # <<>> => << Head(c) >> \o Tail(c) = <<>> \o c
    /\ \A q \in Seq(Nat) : q # <<>> => << Head(q) >> \o <<>> \o Tail(q) = <<>> \o <<>> \o q
<1>0. <<>> \in Seq(Nat) OBVIOUS
<1>1. \A x \in Seq(Nat) : <<>> \o x = x /\ x \o <<>> = x BY ConcatEmptySeq
<1>2. ASSUME NEW w \in Seq(Nat), NEW o \in Seq(Nat)
      PROVE  /\ Chain(w, <<>>, <<>>, <<>>, o) = w \o o
             /\ Chain(w, <<>>, o, <<>>, <<>>) = w \o o
  <2>1. w \o o \in Seq(Nat) BY ConcatProperties
  <2> QED BY <1>0, <1>1, <2>1 DEF Chain
<1>3. ASSUME NEW c \in Seq(Nat), c # <<>> PROVE << Head(c) >> \o Tail(c) = <<>> \o c
  BY <1>1, <1>3, HeadAndTail
<1>4. ASSUME NEW q \in Seq(Nat), q # <<>>
      PROVE  << Head(q) >> \o <<>> \o Tail(q) = <<>> \o <<>> \o q
  <2>1. << Head(q) >> \in Seq(Nat) /\ << Head(q) >> \o Tail(q) = q BY <1>4, HeadAndTail
  <2>2. << Head(q) >> \o <<>> = << Head(q) >> BY <1>1, <2>1
  <2> QED BY <1>0, <1>1, <2>1, <2>2
<1> QED BY <1>2, <1>3, <1>4

(***************************************************************************)
(* The invariant.                                                          *)
(***************************************************************************)
LEMMA EndTypes ==
    ASSUME EndsTypeOK, NEW a \in Agents
    PROVE  /\ written[a] \in Seq(Nat) /\ hand[a] \in Seq(Nat) /\ captured[a] \in Seq(Nat)
           /\ channel[a] \in Seq(Nat) /\ offline[a] \in Seq(Nat)
           /\ Taken(a) = Chain(written[a], hand[a], captured[a], channel[a], offline[a])
           /\ Unsent(a) \in Seq(Nat) /\ Taken(a) \in Seq(Nat)
<1>1. /\ written[a] \in Seq(Nat) /\ hand[a] \in Seq(Nat) /\ captured[a] \in Seq(Nat)
      /\ channel[a] \in Seq(Nat) /\ offline[a] \in Seq(Nat)
  BY DEF EndsTypeOK
<1>2. Taken(a) = Chain(written[a], hand[a], captured[a], channel[a], offline[a])
  BY DEF Taken, Unsent, Chain
<1>3. Unsent(a) \in Seq(Nat) BY <1>1, ChainType DEF Unsent
<1>4. Taken(a) \in Seq(Nat)
  <2>1. written[a] \o Unsent(a) \in Seq(Nat) BY <1>1, <1>3, ConcatProperties
  <2> QED BY <1>1, <2>1, ConcatProperties DEF Taken
<1> QED BY <1>1, <1>2, <1>3, <1>4

\* A delivery put into the channel comes after all but the offline queue.
LEMMA Sends ==
    ASSUME EndsTypeOK, NEW b \in Agents, NEW d \in Nat
    PROVE  /\ written[b] \o (hand[b] \o captured[b] \o Append(channel[b], d)) \o offline[b]
                  = Append(written[b] \o Unsent(b), d) \o offline[b]
           /\ written[b] \o Unsent(b) \o Append(offline[b], d) = Append(Taken(b), d) \o <<>>
<1>0. /\ written[b] \in Seq(Nat) /\ hand[b] \in Seq(Nat) /\ captured[b] \in Seq(Nat)
      /\ channel[b] \in Seq(Nat) /\ offline[b] \in Seq(Nat)
      /\ Unsent(b) \in Seq(Nat) /\ Taken(b) \in Seq(Nat)
  BY EndTypes
<1>1. hand[b] \o captured[b] \in Seq(Nat) BY <1>0, ConcatProperties
<1>2. (hand[b] \o captured[b]) \o Append(channel[b], d) = Append(Unsent(b), d)
  BY <1>0, <1>1, AppendToSecond DEF Unsent
<1>3. written[b] \o Append(Unsent(b), d) = Append(written[b] \o Unsent(b), d)
  BY <1>0, AppendToSecond
<1>4. written[b] \o Unsent(b) \in Seq(Nat) BY <1>0, ConcatProperties
<1>5. (written[b] \o Unsent(b)) \o Append(offline[b], d) = Append(Taken(b), d)
  BY <1>0, <1>4, AppendToSecond DEF Taken
<1>6. Append(Taken(b), d) \in Seq(Nat) BY <1>0
<1>7. Append(Taken(b), d) \o <<>> = Append(Taken(b), d) BY <1>6, ConcatEmptySeq
<1> QED BY <1>2, <1>3, <1>5, <1>7

\* A write moves what was in hand.
LEMMA Writes ==
    ASSUME EndsTypeOK, NEW b \in Agents
    PROVE  (written[b] \o hand[b]) \o (captured[b] \o channel[b]) = written[b] \o Unsent(b)
<1>0. /\ written[b] \in Seq(Nat) /\ hand[b] \in Seq(Nat) /\ captured[b] \in Seq(Nat)
      /\ channel[b] \in Seq(Nat)
  BY EndTypes
<1>1. captured[b] \o channel[b] \in Seq(Nat) BY <1>0, ConcatProperties
<1>2. hand[b] \o (captured[b] \o channel[b]) = Unsent(b)
  <2>1. \A x, y \in Seq(Nat) : (hand[b] \o x) \o y = hand[b] \o (x \o y) BY <1>0, Associative
  <2> QED BY <1>0, <2>1 DEF Unsent
<1>3. \A x, y \in Seq(Nat) : (written[b] \o x) \o y = written[b] \o (x \o y)
  BY <1>0, Associative
<1>4. \A y \in Seq(Nat) : (written[b] \o hand[b]) \o y = written[b] \o (hand[b] \o y)
  BY <1>0, <1>3
<1> QED BY <1>1, <1>2, <1>4

LEMMA EndInit == DeliveryInit => EndInv
<1> SUFFICES ASSUME DeliveryInit PROVE EndInv OBVIOUS
<1>1. OrderInv /\ bRestarts = 0 BY OrderInit DEF DeliveryInit, Init
<1>2. /\ origin = <<>> /\ routed = <<>> /\ to = <<>> /\ connected = {}
      /\ hand = [a \in Agents |-> <<>>] /\ captured = [a \in Agents |-> <<>>]
      /\ channel = [a \in Agents |-> <<>>] /\ offline = [a \in Agents |-> <<>>]
      /\ written = [a \in Agents |-> <<>>]
  BY DEF DeliveryInit, Init
<1>3. EndsTypeOK
  <2>1. \A f : f = [a \in Agents |-> <<>>] => f \in [Agents -> Seq(Nat)] OBVIOUS
  <2> QED BY <1>2, <2>1 DEF EndsTypeOK
<1>4. \A a \in Agents : Taken(a) = <<>>
  <2>1. <<>> \o <<>> = <<>> OBVIOUS
  <2> QED BY <1>2, <2>1 DEF Taken, Unsent
<1>5. Tables BY <1>2 DEF Tables
<1>6. RoutedIsTaken BY <1>2 DEF RoutedIsTaken, Contains
<1>7. TakenIsRouted BY <1>4 DEF TakenIsRouted, Contains
<1>8. TakenOnce BY <1>4 DEF TakenOnce, Once
<1>9. TakenInOrder BY <1>4 DEF TakenInOrder, Increasing
<1> QED BY <1>1, <1>3, <1>5, <1>6, <1>7, <1>8, <1>9 DEF EndInv

\* A step that neither generates nor routes and moves no frame.
LEMMA BesideStep ==
    ASSUME EndInv, OrderInv', UNCHANGED <<origin, routed, bRestarts>>,
           UNCHANGED <<to, connected, hand, captured, channel, offline, written, raced, cut>>
    PROVE  EndInv'
<1>1. EndsTypeOK' BY DEF EndInv, EndsTypeOK
<1>2. Tables' BY DEF EndInv, Tables
<1>3. RoutedIsTaken' BY DEF EndInv, RoutedIsTaken, Taken, Unsent
<1>4. TakenIsRouted' BY DEF EndInv, TakenIsRouted, Taken, Unsent
<1>5. TakenOnce' BY DEF EndInv, TakenOnce, Taken, Unsent
<1>6. TakenInOrder' BY DEF EndInv, TakenInOrder, Taken, Unsent
<1> QED BY <1>1, <1>2, <1>3, <1>4, <1>5, <1>6 DEF EndInv

\* A publication names the recipients of what it generates and of nothing else.
LEMMA PublishStep ==
    ASSUME EndInv, OrderInv', Publish
    PROVE  EndInv'
<1>1. PICK n \in 1..MaxGroup : CPublish(n) BY DEF Publish
<1>2. PICK recipients \in [1..(Len(origin') - Len(origin)) -> Agents] : to' = to \o recipients
  BY DEF Publish
<1>3. UNCHANGED <<connected, hand, captured, channel, offline, written, raced, cut,
                  routed, bRestarts>>
  BY <1>1 DEF Publish, CPublish, budgets, queues
<1>4. LinkInv /\ CReadsNewRequest
  BY <1>1 DEF EndInv, OrderInv, RequestInv, CPublish
<1>5. Len(origin) \in Nat /\ n \in Nat /\ Len(origin') = Len(origin) + n
  BY <1>1, <1>4, GroupFrames
<1>6. recipients \in Seq(Agents) /\ Len(recipients) = n
  <2>1. Len(origin') - Len(origin) = n BY <1>5
  <2> QED BY <1>5, <2>1
<1>7. to \in Seq(Agents) /\ Len(to) = Len(origin) BY DEF EndInv, EndsTypeOK
<1>8. /\ to' \in Seq(Agents) /\ Len(to') = Len(origin')
      /\ \A i \in 1..Len(to) : to'[i] = to[i]
  <2>1. /\ to' \in Seq(Agents) /\ Len(to') = Len(to) + Len(recipients)
        /\ \A i \in 1..(Len(to) + Len(recipients)) :
               to'[i] = IF i <= Len(to) THEN to[i] ELSE recipients[i - Len(to)]
    BY <1>2, <1>6, <1>7, ConcatProperties
  <2>2. \A i \in 1..Len(to) : i \in 1..(Len(to) + Len(recipients)) /\ i <= Len(to)
    BY <1>5, <1>6, <1>7
  <2> QED BY <1>5, <1>6, <1>7, <2>1, <2>2
<1>9. \A d \in Nat : Contains(routed, d) => to'[d] = to[d]
  BY <1>7, <1>8 DEF EndInv, OrderInv, DeliveriesGenerated
<1>10. EndsTypeOK' BY <1>3, <1>8 DEF EndInv, EndsTypeOK
<1>11. Tables' BY <1>3 DEF EndInv, Tables
<1>12. RoutedIsTaken' BY <1>3, <1>9 DEF EndInv, RoutedIsTaken, Taken, Unsent
<1>13. TakenIsRouted' BY <1>3, <1>9 DEF EndInv, TakenIsRouted, Taken, Unsent
<1>14. TakenOnce' BY <1>3 DEF EndInv, TakenOnce, Taken, Unsent
<1>15. TakenInOrder' BY <1>3 DEF EndInv, TakenInOrder, Taken, Unsent
<1> QED BY <1>3, <1>10, <1>11, <1>12, <1>13, <1>14, <1>15 DEF EndInv

\* The router takes a delivery h for its recipient b: it comes between x and y.
LEMMA TakesNew ==
    ASSUME EndInv, OrderInv', NEW h \in Nat, NEW b \in Agents, to[h] = b,
           NEW x \in Seq(Nat), NEW y \in Seq(Nat),
           Taken(b) = x \o y, Taken(b)' = Append(x, h) \o y,
           \A a \in Agents : a # b => Taken(a)' = Taken(a),
           UNCHANGED <<to, origin, bRestarts, cut>>, raced \subseteq raced',
           b \notin raced' => y = <<>>,
           \A d : Contains(routed', d) <=> Contains(routed, d) \/ d = h,
           WindowCoversGroup => \A i \in DOMAIN routed : routed[i] < h,
           EndsTypeOK', Tables'
    PROVE  EndInv'
<1> DEFINE s == Taken(b)
           t == Append(x, h) \o y
<1>2. s \in Seq(Nat) BY EndTypes DEF EndInv
<1>3. Taken(b)' = t OBVIOUS
<1>1. /\ \A d : Contains(t, d) <=> Contains(s, d) \/ d = h
      /\ Once(s) /\ ~Contains(s, h) => Once(t)
      /\ y = <<>> /\ Increasing(s) /\ (\A i \in DOMAIN s : s[i] < h) => Increasing(t)
  <2>1. s = x \o y OBVIOUS
  <2> HIDE DEF s
  <2> QED BY <2>1, Insert
<1> HIDE DEF t
<1>4. RoutedIsTaken'
  <2> SUFFICES ASSUME NEW d \in Nat, Contains(routed', d), to[d] \notin cut
               PROVE  Contains(Taken(to[d])', d)
    BY DEF RoutedIsTaken
  <2>1. CASE d = h BY <1>1, <1>3, <2>1
  <2>2. CASE d # h
    <3>1. Contains(routed, d) BY <2>2
    <3>a. to \in Seq(Agents) /\ d \in 1..Len(to)
      BY <3>1 DEF EndInv, OrderInv, DeliveriesGenerated, EndsTypeOK
    <3>b. to[d] \in Agents BY <3>a
    <3>2. to[d] \in Agents /\ Contains(Taken(to[d]), d)
      BY <3>1, <3>b DEF EndInv, RoutedIsTaken
    <3>3. CASE to[d] = b BY <1>1, <1>3, <3>2, <3>3
    <3>4. CASE to[d] # b BY <3>2, <3>4
    <3> QED BY <3>3, <3>4
  <2> QED BY <2>1, <2>2
<1>5. TakenIsRouted'
  <2> SUFFICES ASSUME NEW a \in Agents, NEW d \in Nat, Contains(Taken(a)', d)
               PROVE  Contains(routed', d) /\ to[d] = a
    BY DEF TakenIsRouted
  <2>1. Contains(Taken(a), d) \/ (a = b /\ d = h) BY <1>1, <1>3
  <2> QED BY <2>1 DEF EndInv, TakenIsRouted
<1>6. ASSUME BrokerDedupDepth >= MaxGroup
      PROVE  ~Contains(s, h) /\ \A i \in DOMAIN s : s[i] < h
  <2>1. WindowCoversGroup BY <1>6 DEF EndInv, WindowCoversGroup
  <2>2. routed \in Seq(Nat) BY OrderTypes DEF EndInv
  <2>3. ASSUME NEW d \in Nat, Contains(routed, d) PROVE d < h
    <3>1. PICK i \in DOMAIN routed : routed[i] = d BY <2>2, <2>3 DEF Contains
    <3> QED BY <2>1, <3>1
  <2>4. \A d \in Nat : Contains(s, d) => d < h BY <2>3 DEF EndInv, TakenIsRouted
  <2>5. ~Contains(s, h) BY <2>4
  <2>6. \A i \in DOMAIN s : s[i] \in Nat /\ Contains(s, s[i]) BY <1>2 DEF Contains
  <2> QED BY <2>4, <2>5, <2>6
<1>7. TakenOnce'
  <2> SUFFICES ASSUME BrokerDedupDepth >= MaxGroup, NEW a \in Agents PROVE Once(Taken(a)')
    BY DEF TakenOnce
  <2>1. Once(Taken(a)) BY DEF EndInv, TakenOnce
  <2>2. CASE a # b BY <2>1, <2>2
  <2>3. CASE a = b BY <1>1, <1>3, <1>6, <2>1, <2>3
  <2> QED BY <2>2, <2>3
<1>8. TakenInOrder'
  <2> SUFFICES ASSUME BrokerDedupDepth >= MaxGroup, NEW a \in Agents, a \notin raced'
               PROVE  Increasing(Taken(a)')
    BY DEF TakenInOrder
  <2>1. Increasing(Taken(a)) BY DEF EndInv, TakenInOrder
  <2>2. CASE a # b BY <2>1, <2>2
  <2>3. CASE a = b BY <1>1, <1>3, <1>6, <2>1, <2>3
  <2> QED BY <2>2, <2>3
<1> QED BY <1>4, <1>5, <1>7, <1>8 DEF EndInv

\* What a routed delivery is: one that was generated and, with a window as large as a group,
\* later than all that were routed before.
LEMMA RouteFacts ==
    ASSUME EndInv, BRouteDelivery
    PROVE  /\ Head(c2b).id \in Nat /\ to[Head(c2b).id] \in Agents
           /\ UNCHANGED <<origin, bRestarts>>
           /\ \A d : Contains(routed', d) <=> Contains(routed, d) \/ d = Head(c2b).id
           /\ WindowCoversGroup => \A i \in DOMAIN routed : routed[i] < Head(c2b).id
<1> DEFINE h == Head(c2b).id
<1>1. /\ BReads("Delivery") /\ ~Contains(acquired_deliveries, h) /\ routed' = Append(routed, h)
      /\ UNCHANGED <<origin, bRestarts>>
  BY DEF BRouteDelivery, budgets
<1>2. OrderInv BY DEF EndInv
<1>3. h \in Nat /\ Arriving(h) BY <1>1, <1>2, ReadDelivery
<1> HIDE DEF h
<1>4. WindowCoversGroup => \A i \in DOMAIN routed : routed[i] < h
  BY <1>1, <1>2, <1>3, RoutedGrows
<1>5. h \in 1..Len(origin)
  BY <1>2, <1>3 DEF Arriving, OrderInv, DeliveriesGenerated
<1>6. to[h] \in Agents BY <1>5 DEF EndInv, EndsTypeOK
<1>7. routed \in Seq(Nat) BY <1>2, OrderTypes
<1>8. /\ Len(routed') = Len(routed) + 1 /\ Len(routed) \in Nat
      /\ routed'[Len(routed) + 1] = h
      /\ \A i \in 1..Len(routed) : routed'[i] = routed[i]
  BY <1>1, <1>3, <1>7
<1>9. \A d : Contains(routed', d) <=> Contains(routed, d) \/ d = h
  <2>1. \A i \in 1..Len(routed') : i \in 1..Len(routed) \/ i = Len(routed) + 1 BY <1>8
  <2>2. \A i \in 1..Len(routed) : i \in 1..Len(routed') BY <1>8
  <2>3. Len(routed) + 1 \in 1..Len(routed') BY <1>8
  <2> QED BY <1>8, <2>1, <2>2, <2>3 DEF Contains
<1> QED BY <1>1, <1>3, <1>4, <1>6, <1>9 DEF h

LEMMA RouteOnlineStep ==
    ASSUME EndInv, OrderInv', RouteOnline
    PROVE  EndInv'
<1>0. BRouteDelivery BY DEF RouteOnline, Enqueue
<1>h. PICK h \in Nat : h = Head(c2b).id BY <1>0, RouteFacts
<1>b. PICK b \in Agents : b = to[h] BY <1>0, <1>h, RouteFacts
<1>1. /\ BRouteDelivery /\ b \in connected
      /\ channel' = [channel EXCEPT ![b] = Append(@, h)]
      /\ UNCHANGED <<to, connected, hand, captured, offline, written, raced, cut>>
  BY <1>h, <1>b DEF RouteOnline, Recipient
<1>2. /\ UNCHANGED <<origin, bRestarts>>
      /\ \A d : Contains(routed', d) <=> Contains(routed, d) \/ d = h
      /\ WindowCoversGroup => \A i \in DOMAIN routed : routed[i] < h
  BY <1>0, <1>h, RouteFacts
<1>4. /\ written[b] \in Seq(Nat) /\ hand[b] \in Seq(Nat) /\ captured[b] \in Seq(Nat)
      /\ channel[b] \in Seq(Nat) /\ offline[b] \in Seq(Nat)
      /\ channel \in [Agents -> Seq(Nat)]
  BY <1>2, EndTypes DEF EndInv, EndsTypeOK
<1>5. /\ channel'[b] = Append(channel[b], h) /\ channel' \in [Agents -> Seq(Nat)]
      /\ \A a \in Agents : a # b => channel'[a] = channel[a]
  <2>1. Append(channel[b], h) \in Seq(Nat) BY <1>2, <1>4
  <2> QED BY <1>1, <1>4, <2>1
<1>6. EndsTypeOK' BY <1>1, <1>2, <1>5 DEF EndInv, EndsTypeOK
<1>7. Tables' BY <1>1, <1>5 DEF EndInv, Tables
<1>x. PICK x \in Seq(Nat) : x = written[b] \o Unsent(b)
  <2>1. Unsent(b) \in Seq(Nat) BY EndTypes DEF EndInv
  <2>2. written[b] \o Unsent(b) \in Seq(Nat) BY <1>4, <2>1, ConcatProperties
  <2> QED BY <2>2
<1>y. PICK y \in Seq(Nat) : y = offline[b] BY <1>4
<1>9. Taken(b) = x \o y BY <1>x, <1>y DEF Taken
<1>10. Taken(b)' = Append(x, h) \o y
  <2>1. Taken(b)' = written[b] \o (hand[b] \o captured[b] \o Append(channel[b], h)) \o offline[b]
    BY <1>1, <1>5 DEF Taken, Unsent
  <2>2. EndsTypeOK BY DEF EndInv
  <2> QED BY <1>x, <1>y, <2>1, <2>2, Sends
<1>11. \A a \in Agents : a # b => Taken(a)' = Taken(a)
  BY <1>1, <1>5 DEF Taken, Unsent
<1>12. (b \notin raced' => y = <<>>) /\ raced \subseteq raced' BY <1>1, <1>y DEF EndInv, Tables
<1> QED BY <1>b, <1>y, <1>1, <1>2, <1>6, <1>7, <1>9, <1>10, <1>11, <1>12, TakesNew

LEMMA EnqueueStep ==
    ASSUME EndInv, OrderInv', Enqueue
    PROVE  EndInv'
<1>0. BRouteDelivery BY DEF RouteOnline, Enqueue
<1>h. PICK h \in Nat : h = Head(c2b).id BY <1>0, RouteFacts
<1>b. PICK b \in Agents : b = to[h] BY <1>0, <1>h, RouteFacts
<1>1. /\ BRouteDelivery
      /\ offline' = [offline EXCEPT ![b] = Append(@, h)]
      /\ raced' = IF b \in connected THEN raced \cup {b} ELSE raced
      /\ UNCHANGED <<to, connected, hand, captured, channel, written, cut>>
  BY <1>h, <1>b DEF Enqueue, Recipient
<1>2. /\ UNCHANGED <<origin, bRestarts>>
      /\ \A d : Contains(routed', d) <=> Contains(routed, d) \/ d = h
      /\ WindowCoversGroup => \A i \in DOMAIN routed : routed[i] < h
  BY <1>0, <1>h, RouteFacts
<1>4. /\ written[b] \in Seq(Nat) /\ hand[b] \in Seq(Nat) /\ captured[b] \in Seq(Nat)
      /\ channel[b] \in Seq(Nat) /\ offline[b] \in Seq(Nat)
      /\ offline \in [Agents -> Seq(Nat)]
  BY <1>2, EndTypes DEF EndInv, EndsTypeOK
<1>5. /\ offline'[b] = Append(offline[b], h) /\ offline' \in [Agents -> Seq(Nat)]
      /\ \A a \in Agents : a # b => offline'[a] = offline[a]
  <2>1. Append(offline[b], h) \in Seq(Nat) BY <1>2, <1>4
  <2> QED BY <1>1, <1>4, <2>1
<1>6. EndsTypeOK' BY <1>1, <1>2, <1>5 DEF EndInv, EndsTypeOK
<1>7. Tables'
  <2> SUFFICES ASSUME NEW a \in Agents
               PROVE  /\ a \notin connected =>
                            hand[a] = <<>> /\ captured[a] = <<>> /\ channel[a] = <<>>
                      /\ a \in connected /\ a \notin raced' => offline'[a] = <<>>
    BY <1>1 DEF Tables
  <2> QED BY <1>1, <1>5 DEF EndInv, Tables
<1>x. PICK x \in Seq(Nat) : x = Taken(b)
  <2>1. Taken(b) \in Seq(Nat) BY EndTypes DEF EndInv
  <2> QED BY <2>1
<1> DEFINE y == <<>>
<1>y. y \in Seq(Nat) OBVIOUS
<1>9. Taken(b) = x \o y BY <1>x, ConcatEmptySeq
<1>10. Taken(b)' = Append(x, h) \o y
  <2>1. Taken(b)' = written[b] \o Unsent(b) \o Append(offline[b], h)
    BY <1>1, <1>5 DEF Taken, Unsent
  <2>2. EndsTypeOK BY DEF EndInv
  <2> QED BY <1>x, <2>1, <2>2, Sends
<1>11. \A a \in Agents : a # b => Taken(a)' = Taken(a)
  BY <1>1, <1>5 DEF Taken, Unsent
<1>12. (b \notin raced' => y = <<>>) /\ raced \subseteq raced' BY <1>1
<1> HIDE DEF y
<1> QED BY <1>b, <1>y, <1>1, <1>2, <1>6, <1>7, <1>9, <1>10, <1>11, <1>12, TakesNew

\* A step of an Agent's connection leaves what was taken for it, or cuts its end and says so.
LEMMA AgentStep ==
    ASSUME EndInv, NEW b \in Agents, UNCHANGED <<vars, to, raced>>, EndsTypeOK', Tables',
           cut \subseteq cut', IsPrefixOf(Taken(b)', Taken(b)),
           Taken(b)' = Taken(b) \/ b \in cut',
           \A a \in Agents : a # b => Taken(a)' = Taken(a)
    PROVE  EndInv'
<1>1. UNCHANGED <<origin, routed, bRestarts>> BY DEF vars, budgets, history
<1>2. OrderInv' BY OrderNext DEF EndInv
<1>3. /\ \A d : Contains(Taken(b)', d) => Contains(Taken(b), d)
      /\ Once(Taken(b)) => Once(Taken(b)')
      /\ Increasing(Taken(b)) => Increasing(Taken(b)')
  BY PrefixKeeps
<1>4. RoutedIsTaken'
  <2> SUFFICES ASSUME NEW d \in Nat, Contains(routed, d), to[d] \notin cut'
               PROVE  Contains(Taken(to[d])', d)
    BY <1>1 DEF RoutedIsTaken
  <2>1. to \in Seq(Agents) /\ d \in 1..Len(to)
    BY DEF EndInv, OrderInv, DeliveriesGenerated, EndsTypeOK
  <2>2. to[d] \in Agents BY <2>1
  <2>3. Contains(Taken(to[d]), d) BY DEF EndInv, RoutedIsTaken
  <2> QED BY <2>2, <2>3
<1>5. TakenIsRouted'
  <2> SUFFICES ASSUME NEW a \in Agents, NEW d \in Nat, Contains(Taken(a)', d)
               PROVE  Contains(routed, d) /\ to[d] = a
    BY <1>1 DEF TakenIsRouted
  <2>1. Contains(Taken(a), d) BY <1>3
  <2> QED BY <2>1 DEF EndInv, TakenIsRouted
<1>6. TakenOnce'
  <2> SUFFICES ASSUME BrokerDedupDepth >= MaxGroup, NEW a \in Agents PROVE Once(Taken(a)')
    BY DEF TakenOnce
  <2>1. Once(Taken(a)) BY DEF EndInv, TakenOnce
  <2> QED BY <1>3, <2>1
<1>7. TakenInOrder'
  <2> SUFFICES ASSUME BrokerDedupDepth >= MaxGroup, NEW a \in Agents, a \notin raced
               PROVE  Increasing(Taken(a)')
    BY DEF TakenInOrder
  <2>1. Increasing(Taken(a)) BY DEF EndInv, TakenInOrder
  <2> QED BY <1>3, <2>1
<1> QED BY <1>1, <1>2, <1>4, <1>5, <1>6, <1>7 DEF EndInv

\* A step that moves frames of b and keeps their order.
LEMMA MoveStep ==
    ASSUME EndInv, NEW b \in Agents, UNCHANGED <<vars, to, raced, cut>>, EndsTypeOK', Tables',
           \A a \in Agents : Taken(a)' = Taken(a)
    PROVE  EndInv'
<1>1. Taken(b) \in Seq(Nat) BY EndTypes DEF EndInv
<1>2. IsPrefixOf(Taken(b), Taken(b)) BY <1>1 DEF IsPrefixOf
<1> QED BY <1>2, AgentStep

LEMMA ConnectStep ==
    ASSUME EndInv, NEW b \in Agents, Connect(b)
    PROVE  EndInv'
<1>1. /\ b \notin connected /\ connected' = connected \cup {b}
      /\ captured' = [captured EXCEPT ![b] = offline[b]]
      /\ offline' = [offline EXCEPT ![b] = <<>>]
      /\ UNCHANGED <<vars, to, hand, channel, written, raced, cut>>
  BY DEF Connect
<1>2. EndsTypeOK /\ UNCHANGED origin BY <1>1 DEF EndInv, vars, history
<1>3. /\ written[b] \in Seq(Nat) /\ offline[b] \in Seq(Nat)
      /\ captured \in [Agents -> Seq(Nat)] /\ offline \in [Agents -> Seq(Nat)]
  BY <1>2, EndTypes DEF EndsTypeOK
<1>4. /\ captured'[b] = offline[b] /\ offline'[b] = <<>>
      /\ captured' \in [Agents -> Seq(Nat)] /\ offline' \in [Agents -> Seq(Nat)]
      /\ \A a \in Agents : a # b => captured'[a] = captured[a] /\ offline'[a] = offline[a]
  BY <1>1, <1>3
<1>5. hand[b] = <<>> /\ captured[b] = <<>> /\ channel[b] = <<>> BY <1>1 DEF EndInv, Tables
<1>6. EndsTypeOK' BY <1>1, <1>2, <1>4 DEF EndsTypeOK
<1>7. Tables'
  <2> SUFFICES ASSUME NEW a \in Agents
               PROVE  /\ a \notin connected' =>
                            hand[a] = <<>> /\ captured'[a] = <<>> /\ channel[a] = <<>>
                      /\ a \in connected' /\ a \notin raced => offline'[a] = <<>>
    BY <1>1 DEF Tables
  <2>1. CASE a = b BY <1>1, <1>4, <2>1
  <2>2. CASE a # b BY <1>1, <1>4, <2>2 DEF EndInv, Tables
  <2> QED BY <2>1, <2>2
<1>8. Taken(b)' = Taken(b)
  <2>1. Taken(b)' = Chain(written[b], <<>>, offline[b], <<>>, <<>>)
    BY <1>1, <1>4, <1>5 DEF Taken, Unsent, Chain
  <2>2. Taken(b) = Chain(written[b], <<>>, <<>>, <<>>, offline[b])
    BY <1>5 DEF Taken, Unsent, Chain
  <2> QED BY <1>3, <2>1, <2>2, ChainMoves
<1>9. \A a \in Agents : a # b => Taken(a)' = Taken(a) BY <1>1, <1>4 DEF Taken, Unsent
<1> QED BY <1>1, <1>6, <1>7, <1>8, <1>9, MoveStep

LEMMA TakeStep ==
    ASSUME EndInv, NEW b \in Agents, Take(b)
    PROVE  EndInv'
<1>1. /\ b \in connected /\ hand[b] = <<>>
      /\ \/ /\ captured[b] # <<>>
            /\ hand' = [hand EXCEPT ![b] = << Head(captured[b]) >>]
            /\ captured' = [captured EXCEPT ![b] = Tail(captured[b])] /\ channel' = channel
         \/ /\ captured[b] = <<>> /\ channel[b] # <<>>
            /\ hand' = [hand EXCEPT ![b] = << Head(channel[b]) >>]
            /\ channel' = [channel EXCEPT ![b] = Tail(channel[b])] /\ captured' = captured
      /\ UNCHANGED <<vars, to, connected, offline, written, raced, cut>>
  BY DEF Take
<1>2. EndsTypeOK /\ UNCHANGED origin BY <1>1 DEF EndInv, vars, history
<1>3. /\ written[b] \in Seq(Nat) /\ captured[b] \in Seq(Nat) /\ channel[b] \in Seq(Nat)
      /\ offline[b] \in Seq(Nat)
      /\ hand \in [Agents -> Seq(Nat)] /\ captured \in [Agents -> Seq(Nat)]
      /\ channel \in [Agents -> Seq(Nat)]
  BY <1>2, EndTypes DEF EndsTypeOK
<1>4. CASE captured[b] # <<>>
  <2>1. /\ hand' = [hand EXCEPT ![b] = << Head(captured[b]) >>]
        /\ captured' = [captured EXCEPT ![b] = Tail(captured[b])] /\ channel' = channel
    BY <1>1, <1>4
  <2>2. << Head(captured[b]) >> \in Seq(Nat) /\ Tail(captured[b]) \in Seq(Nat)
    BY <1>3, <1>4, HeadAndTail
  <2>3. hand'[b] = << Head(captured[b]) >> /\ captured'[b] = Tail(captured[b])
    BY <1>3, <2>1
  <2>4. Taken(b)' = Taken(b)
    <3>1. Taken(b)' = Chain(written[b], << Head(captured[b]) >>, Tail(captured[b]),
                            channel[b], offline[b])
      BY <1>1, <2>1, <2>3 DEF Taken, Unsent, Chain
    <3>2. Taken(b) = Chain(written[b], <<>>, captured[b], channel[b], offline[b])
      BY <1>1 DEF Taken, Unsent, Chain
    <3>3. << Head(captured[b]) >> \o Tail(captured[b]) = <<>> \o captured[b]
      BY <1>3, <1>4, ChainMoves
    <3> QED BY <3>1, <3>2, <3>3 DEF Chain
  <2>5. hand' \in [Agents -> Seq(Nat)] /\ captured' \in [Agents -> Seq(Nat)]
    BY <1>3, <2>1, <2>2
  <2>6. \A a \in Agents : a # b => hand'[a] = hand[a] /\ captured'[a] = captured[a]
    BY <1>3, <2>1
  <2>7. EndsTypeOK' BY <1>1, <1>2, <2>1, <2>5 DEF EndsTypeOK
  <2>8. Tables' BY <1>1, <2>1, <2>6 DEF EndInv, Tables
  <2>9. \A a \in Agents : a # b => Taken(a)' = Taken(a) BY <1>1, <2>1, <2>6 DEF Taken, Unsent
  <2> QED BY <1>1, <2>4, <2>7, <2>8, <2>9, MoveStep
<1>5. CASE captured[b] = <<>>
  <2>1. /\ channel[b] # <<>> /\ hand' = [hand EXCEPT ![b] = << Head(channel[b]) >>]
        /\ channel' = [channel EXCEPT ![b] = Tail(channel[b])] /\ captured' = captured
    BY <1>1, <1>5
  <2>2. << Head(channel[b]) >> \in Seq(Nat) /\ Tail(channel[b]) \in Seq(Nat)
    BY <1>3, <2>1, HeadAndTail
  <2>3. hand'[b] = << Head(channel[b]) >> /\ channel'[b] = Tail(channel[b])
    BY <1>3, <2>1
  <2>4. Taken(b)' = Taken(b)
    <3>1. Taken(b)' = Chain(written[b], << Head(channel[b]) >>, <<>>, Tail(channel[b]),
                            offline[b])
      BY <1>1, <1>5, <2>1, <2>3 DEF Taken, Unsent, Chain
    <3>2. Taken(b) = Chain(written[b], <<>>, <<>>, channel[b], offline[b])
      BY <1>1, <1>5 DEF Taken, Unsent, Chain
    <3>3. << Head(channel[b]) >> \o <<>> \o Tail(channel[b]) = <<>> \o <<>> \o channel[b]
      BY <1>3, <2>1, ChainMoves
    <3> QED BY <3>1, <3>2, <3>3 DEF Chain
  <2>5. hand' \in [Agents -> Seq(Nat)] /\ channel' \in [Agents -> Seq(Nat)]
    BY <1>3, <2>1, <2>2
  <2>6. \A a \in Agents : a # b => hand'[a] = hand[a] /\ channel'[a] = channel[a]
    BY <1>3, <2>1
  <2>7. EndsTypeOK' BY <1>1, <1>2, <2>1, <2>5 DEF EndsTypeOK
  <2>8. Tables' BY <1>1, <2>1, <2>6 DEF EndInv, Tables
  <2>9. \A a \in Agents : a # b => Taken(a)' = Taken(a) BY <1>1, <2>1, <2>6 DEF Taken, Unsent
  <2> QED BY <1>1, <2>4, <2>7, <2>8, <2>9, MoveStep
<1> QED BY <1>4, <1>5

LEMMA WriteStep ==
    ASSUME EndInv, NEW b \in Agents, Write(b)
    PROVE  EndInv'
<1>1. /\ written' = [written EXCEPT ![b] = written[b] \o hand[b]]
      /\ hand' = [hand EXCEPT ![b] = <<>>]
      /\ UNCHANGED <<vars, to, connected, captured, channel, offline, raced, cut>>
  BY DEF Write
<1>2. EndsTypeOK /\ UNCHANGED origin BY <1>1 DEF EndInv, vars, history
<1>3. /\ written[b] \in Seq(Nat) /\ hand[b] \in Seq(Nat) /\ captured[b] \in Seq(Nat)
      /\ channel[b] \in Seq(Nat) /\ offline[b] \in Seq(Nat)
      /\ written \in [Agents -> Seq(Nat)] /\ hand \in [Agents -> Seq(Nat)]
  BY <1>2, EndTypes DEF EndsTypeOK
<1>4. written[b] \o hand[b] \in Seq(Nat) BY <1>3, ConcatProperties
<1>5. /\ written'[b] = written[b] \o hand[b] /\ hand'[b] = <<>>
      /\ written' \in [Agents -> Seq(Nat)] /\ hand' \in [Agents -> Seq(Nat)]
      /\ \A a \in Agents : a # b => written'[a] = written[a] /\ hand'[a] = hand[a]
  BY <1>1, <1>3, <1>4
<1>6. EndsTypeOK' BY <1>1, <1>2, <1>5 DEF EndsTypeOK
<1>7. Tables' BY <1>1, <1>5 DEF EndInv, Tables
<1>8. Taken(b)' = Taken(b)
  <2>1. Taken(b)' = (written[b] \o hand[b]) \o (<<>> \o captured[b] \o channel[b]) \o offline[b]
    BY <1>1, <1>5 DEF Taken, Unsent
  <2>2. <<>> \o captured[b] = captured[b] BY <1>3, ConcatEmptySeq
  <2>3. (written[b] \o hand[b]) \o (captured[b] \o channel[b]) = written[b] \o Unsent(b)
    BY <1>2, Writes
  <2> QED BY <2>1, <2>2, <2>3 DEF Taken
<1>9. \A a \in Agents : a # b => Taken(a)' = Taken(a) BY <1>1, <1>5 DEF Taken, Unsent
<1> QED BY <1>1, <1>6, <1>7, <1>8, <1>9, MoveStep

\* What is unsent goes before the offline queue, and what does not fit is cut.
LEMMA DisconnectStep ==
    ASSUME EndInv, NEW b \in Agents, Disconnect(b)
    PROVE  EndInv'
<1> DEFINE all == Unsent(b) \o offline[b]
           kept == IF Len(all) > OfflineDepth THEN SubSeq(all, 1, OfflineDepth) ELSE all
<1>1. /\ connected' = connected \ {b}
      /\ offline' = [offline EXCEPT ![b] = kept]
      /\ hand' = [hand EXCEPT ![b] = <<>>] /\ captured' = [captured EXCEPT ![b] = <<>>]
      /\ channel' = [channel EXCEPT ![b] = <<>>]
      /\ UNCHANGED <<vars, to, written, raced>>
  BY DEF Disconnect
<1>2. /\ Len(all) > OfflineDepth => cut' = cut \cup {b}
      /\ ~(Len(all) > OfflineDepth) => cut' = cut
  BY DEF Disconnect
<1>3. EndsTypeOK /\ UNCHANGED origin BY <1>1 DEF EndInv, vars, history
<1>4. /\ written[b] \in Seq(Nat) /\ Unsent(b) \in Seq(Nat) /\ offline[b] \in Seq(Nat)
      /\ hand \in [Agents -> Seq(Nat)] /\ captured \in [Agents -> Seq(Nat)]
      /\ channel \in [Agents -> Seq(Nat)] /\ offline \in [Agents -> Seq(Nat)]
  BY <1>3, EndTypes DEF EndsTypeOK
<1>5. all \in Seq(Nat) BY <1>4, ConcatProperties
<1>6. Taken(b) = written[b] \o all
  <2>1. \A x, y \in Seq(Nat) : (written[b] \o x) \o y = written[b] \o (x \o y)
    BY <1>4, Associative
  <2> QED BY <1>4, <2>1 DEF Taken
<1> HIDE DEF all
<1>7. kept \in Seq(Nat) /\ IsPrefixOf(written[b] \o kept, Taken(b))
  <2>1. CASE Len(all) > OfflineDepth
    <3>1. OfflineDepth \in Nat BY RouterAssumption
    <3> QED BY <1>4, <1>5, <1>6, <2>1, <3>1, CutSecond
  <2>2. CASE ~(Len(all) > OfflineDepth)
    <3>1. kept = all BY <2>2
    <3>2. written[b] \o all \in Seq(Nat) BY <1>4, <1>5, ConcatProperties
    <3>3. IsPrefixOf(written[b] \o all, written[b] \o all) BY <3>2 DEF IsPrefixOf
    <3> QED BY <1>5, <1>6, <3>1, <3>3
  <2> QED BY <2>1, <2>2
<1>8. ~(Len(all) > OfflineDepth) => written[b] \o kept = Taken(b) BY <1>6
<1> HIDE DEF kept
<1>9. /\ hand'[b] = <<>> /\ captured'[b] = <<>> /\ channel'[b] = <<>> /\ offline'[b] = kept
      /\ hand' \in [Agents -> Seq(Nat)] /\ captured' \in [Agents -> Seq(Nat)]
      /\ channel' \in [Agents -> Seq(Nat)] /\ offline' \in [Agents -> Seq(Nat)]
  BY <1>1, <1>4, <1>7
<1>10. \A a \in Agents : a # b => /\ hand'[a] = hand[a] /\ captured'[a] = captured[a]
                                  /\ channel'[a] = channel[a] /\ offline'[a] = offline[a]
  BY <1>1, <1>4
<1>11. Taken(b)' = written[b] \o kept
  <2>1. Taken(b)' = Chain(written[b], <<>>, <<>>, <<>>, kept)
    BY <1>1, <1>9 DEF Taken, Unsent, Chain
  <2> QED BY <1>4, <1>7, <2>1, ChainMoves
<1>12. \A a \in Agents : a # b => Taken(a)' = Taken(a) BY <1>1, <1>10 DEF Taken, Unsent
<1>13. EndsTypeOK' BY <1>1, <1>3, <1>9 DEF EndsTypeOK
<1>14. Tables'
  <2> SUFFICES ASSUME NEW a \in Agents
               PROVE  /\ a \notin connected' =>
                            hand'[a] = <<>> /\ captured'[a] = <<>> /\ channel'[a] = <<>>
                      /\ a \in connected' /\ a \notin raced => offline'[a] = <<>>
    BY <1>1 DEF Tables
  <2>1. CASE a = b BY <1>1, <1>9, <2>1
  <2>2. CASE a # b BY <1>1, <1>10, <2>2 DEF EndInv, Tables
  <2> QED BY <2>1, <2>2
<1>15. cut \subseteq cut' /\ (Taken(b)' = Taken(b) \/ b \in cut') BY <1>2, <1>8, <1>11
<1>16. IsPrefixOf(Taken(b)', Taken(b)) BY <1>7, <1>11
<1> QED BY <1>1, <1>12, <1>13, <1>14, <1>15, <1>16, AgentStep

\* A refusal closes the connection and forgets nothing.
LEMMA RefuseStep ==
    ASSUME EndInv, Refuse
    PROVE  EndInv'
<1>1. /\ BClose
      /\ UNCHANGED <<to, connected, hand, captured, channel, offline, written, raced, cut>>
      /\ UNCHANGED <<requests, pending, acquired_deliveries, cVars, budgets, history>>
  BY DEF Refuse, queues
<1>2. OrderInv /\ RequestInv /\ LinkInv /\ TypeOK BY DEF EndInv, OrderInv, RequestInv, LinkInv
<1>3. TypeOK' BY <1>1, <1>2, CloseType DEF TypeOK, cVars, budgets, history
<1>4. b2c' \in Seq(BrokerFrames) BY <1>1, <1>2, SurvivorsType DEF BClose, LinkInv
<1>5. LinkInv' BY <1>1, <1>2, <1>3, <1>4, OtherStep DEF cVars, budgets, history
<1>6. RequestInv' BY <1>1, <1>2, <1>5, QuietClose DEF cVars, budgets, history
<1>7. OrderInv' BY <1>1, <1>2, <1>6, OrderClose DEF cVars, budgets, history
<1> QED BY <1>1, <1>7, BesideStep DEF budgets, history

\* A step that leaves the router alone.
LEMMA OutsideStep ==
    ASSUME EndInv, [Next]_vars, UNCHANGED ends, UNCHANGED <<origin, routed, bRestarts>>
    PROVE  EndInv'
<1>1. OrderInv' BY OrderNext DEF EndInv
<1>2. UNCHANGED <<to, connected, hand, captured, channel, offline, written, raced, cut>>
  BY DEF ends, queues
<1> QED BY <1>1, <1>2, BesideStep

LEMMA EndNext == EndInv /\ [DeliveryNext]_allVars => EndInv'
<1> SUFFICES ASSUME EndInv, [DeliveryNext]_allVars PROVE EndInv'
  OBVIOUS
<1>1. [Next]_vars => OrderInv' BY OrderNext DEF EndInv
<1>2. ASSUME BrokerStep PROVE EndInv'
  <2>1. CASE RouteOnline
    <3>1. BRouteDelivery BY <2>1 DEF RouteOnline
    <3> QED BY <1>1, <2>1, <3>1, RouteOnlineStep DEF Next, BStep
  <2>2. CASE Enqueue
    <3>1. BRouteDelivery BY <2>2 DEF Enqueue
    <3> QED BY <1>1, <2>2, <3>1, EnqueueStep DEF Next, BStep
  <2>3. CASE RouteOffline
    <3>1. UNCHANGED <<vars, to, connected, hand, captured, channel, offline, written, raced, cut>>
      BY <2>3 DEF RouteOffline, queues
    <3>2. UNCHANGED <<origin, routed, bRestarts>> BY <3>1 DEF vars, budgets, history
    <3> QED BY <1>1, <3>1, <3>2, BesideStep
  <2>4. CASE Refuse BY <2>4, RefuseStep
  <2>5. ASSUME \/ LinkTask(BConnect) \/ LinkTask(BRecvChallenge) \/ LinkTask(BRecvAuthOk)
               \/ LinkTask(BTakeRequest) \/ LinkTask(BRecvAck)
               \/ LinkTask(BRecvDuplicateDelivery) \/ LinkTask(BEof)
        PROVE  EndInv'
    <3>1. BStep /\ UNCHANGED ends BY <2>5 DEF BStep, LinkTask
    <3>2. UNCHANGED <<origin, routed, bRestarts>>
      BY <2>5 DEF LinkTask, BConnect, BRecvChallenge, BRecvAuthOk, BTakeRequest, BRecvAck,
                  BRecvDuplicateDelivery, BEof, budgets, history
    <3> QED BY <3>1, <3>2, OutsideStep DEF Next
  <2> QED BY <1>2, <2>1, <2>2, <2>3, <2>4, <2>5 DEF BrokerStep
<1>3. ASSUME CaStep PROVE EndInv'
  <2>1. CASE Publish
    <3>1. \E n \in 1..MaxGroup : CPublish(n) BY <2>1 DEF Publish
    <3> QED BY <1>1, <2>1, <3>1, PublishStep DEF Next, CStep
  <2>2. ASSUME \/ Beside(CAccept) \/ Beside(CRecvAuthResponse) \/ Beside(CRecvAck)
               \/ Beside(CRecvCurrentRequest) \/ Beside(CRecvAcquiredRequest)
               \/ Beside(CProcessNoDelivery) \/ Beside(CEof)
        PROVE  EndInv'
    <3>1. CStep /\ UNCHANGED ends BY <2>2 DEF CStep, Beside
    <3>2. UNCHANGED <<origin, routed, bRestarts>>
      BY <2>2 DEF Beside, CAccept, CRecvAuthResponse, CRecvAck, CRecvCurrentRequest,
                  CRecvAcquiredRequest, CProcessNoDelivery, CEof, budgets, history
    <3> QED BY <3>1, <3>2, OutsideStep DEF Next
  <2> QED BY <1>3, <2>1, <2>2 DEF CaStep
<1>4. ASSUME NEW session \in Requests, Beside(AgentRequest(session)) PROVE EndInv'
  <2>1. AgentRequest(session) /\ UNCHANGED ends BY <1>4 DEF Beside
  <2> QED BY <2>1, OutsideStep DEF Next, AgentRequest, history
<1>5. ASSUME LinkTask(BRetry) \/ Beside(CRetry) PROVE EndInv'
  <2>1. (BRetry \/ CRetry) /\ UNCHANGED ends BY <1>5 DEF Beside, LinkTask
  <2> QED BY <2>1, OutsideStep DEF Next, BRetry, CRetry, budgets, history
<1>6. ASSUME LinkTask(BLinkFailure) \/ Beside(CLinkFailure) \/ Beside(CaRestart) PROVE EndInv'
  <2>1. (BLinkFailure \/ CLinkFailure \/ CaRestart) /\ UNCHANGED ends
    BY <1>6 DEF Beside, LinkTask
  <2>2. UNCHANGED <<origin, routed, bRestarts>>
    BY <2>1 DEF BLinkFailure, CLinkFailure, CaRestart, history
  <2> QED BY <2>1, <2>2, OutsideStep DEF Next, Faults
<1>7. ASSUME NEW a \in Agents, Serve(a) \/ Disconnect(a) PROVE EndInv'
  BY <1>7, ConnectStep, TakeStep, WriteStep, DisconnectStep DEF Serve
<1>8. CASE UNCHANGED allVars
  <2>1. UNCHANGED vars /\ UNCHANGED ends BY <1>8 DEF allVars
  <2> QED BY <2>1, OutsideStep DEF vars, budgets, history
<1> QED BY <1>2, <1>3, <1>4, <1>5, <1>6, <1>7, <1>8 DEF DeliveryNext

LEMMA EndInvariant == DeliverySpec => []EndInv
BY EndInit, EndNext, PTL DEF DeliverySpec

\* A delivery that the CA generated is with the CA, held for its recipient or written to it, for
\* queues of any depth and however often a full one ends the session; an Agent misses one only
\* after a requeue of its own overflowed.
THEOREM NoneLostUnlessCut == DeliverySpec => []NoLossUnlessCut
<1>1. EndInv => NoLossUnlessCut
  <2> SUFFICES ASSUME EndInv, cRestarts = 0, NEW d \in DOMAIN origin,
                      ~(d \in Ids(pending_deliveries)), to[d] \notin cut
               PROVE  Contains(Taken(to[d]), d)
    BY DEF NoLossUnlessCut
  <2>1. origin \in Seq(Nat) BY OrderTypes DEF EndInv
  <2>2. d \in Nat BY <2>1
  <2>3. Contains(routed, d) BY DEF EndInv, OrderInv, RequestInv, LinkInv, NoDeliveryLost
  <2> QED BY <2>2, <2>3 DEF EndInv, RoutedIsTaken
<1> QED BY <1>1, EndInvariant, PTL

\* With a window as large as a group, an Agent is written its own deliveries, each once, and in
\* the order of their generation unless one was enqueued while it was connected.
THEOREM WrittenOnceInOrder == DeliverySpec => []OncePerAgentInOrder
<1>1. EndInv => OncePerAgentInOrder
  <2> SUFFICES ASSUME EndInv, BrokerDedupDepth >= MaxGroup, NEW a \in Agents
               PROVE  /\ \A i \in DOMAIN Taken(a) : to[Taken(a)[i]] = a
                      /\ \A i, j \in DOMAIN Taken(a) : Taken(a)[i] = Taken(a)[j] => i = j
                      /\ a \notin raced => Increasing(Taken(a))
    BY DEF OncePerAgentInOrder
  <2>1. ASSUME NEW i \in DOMAIN Taken(a) PROVE to[Taken(a)[i]] = a
    <3>1. Taken(a) \in Seq(Nat) BY EndTypes DEF EndInv
    <3>2. Taken(a)[i] \in Nat /\ Contains(Taken(a), Taken(a)[i]) BY <3>1 DEF Contains
    <3> QED BY <3>2 DEF EndInv, TakenIsRouted
  <2>2. \A i, j \in DOMAIN Taken(a) : Taken(a)[i] = Taken(a)[j] => i = j
    BY DEF EndInv, TakenOnce, Once
  <2>3. a \notin raced => Increasing(Taken(a)) BY DEF EndInv, TakenInOrder
  <2> QED BY <2>1, <2>2, <2>3
<1> QED BY <1>1, EndInvariant, PTL
=============================================================================
