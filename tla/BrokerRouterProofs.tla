------------------------- MODULE BrokerRouterProofs -------------------------
(***************************************************************************)
(* Proofs about BrokerRouter: any Agents, limits and numbers of            *)
(* connections, deliveries and aborted tasks.                              *)
(***************************************************************************)
EXTENDS BrokerRouter, FiniteSetTheorems, SequenceTheorems, TLAPS

-----------------------------------------------------------------------------
(***************************************************************************)
(* The inductive invariant.                                                *)
(***************************************************************************)
Distinct(s) == \A i, j \in DOMAIN s : s[i] = s[j] => i = j
Less(S, T)  == \A x \in S, y \in T : x < y

\* The frames a registration holds: the one being written, those captured, those live.
InHand(r) == IF r.hand = NoFrame THEN {} ELSE {r.hand}
HeldBy(r) == InHand(r) \cup Elements(r.pending) \cup Elements(r.channel)
Empty(r)  == r.hand = NoFrame /\ r.pending = <<>> /\ r.channel = <<>>

\* The deliveries the router has answered for.
Taken == IF link = "idle" THEN 1..Len(recipient) ELSE 1..(Len(recipient) - 1)

\* The connection table and the tasks agree, and a task that ended holds nothing.
TableOK ==
    /\ \A a \in Agents :
           connections[a] # NoGeneration => /\ connections[a] \in Generations
                                            /\ registrations[connections[a]].owner = a
    /\ \A g \in Generations :
           IF registrations[g].task = "ended"
           THEN Empty(registrations[g])
           ELSE connections[registrations[g].owner] = g

Leaked == {a \in Connected : registrations[connections[a]].task = "ended"}
LeakOK == IsFiniteSet(Leaked) /\ Cardinality(Leaked) <= aborts

\* A frame is only ever where its addressee will read it.
RightPlace ==
    /\ link # "idle" => Len(recipient) > 0
    /\ accepted \subseteq Taken
    /\ \A a \in Agents : \A d \in Elements(written[a]) \cup Elements(offline[a]) :
           d \in Taken /\ recipient[d] = a
    /\ \A g \in Generations : \A d \in HeldBy(registrations[g]) :
           d \in Taken /\ recipient[d] = registrations[g].owner

\* What the router took, with the places of a delivery spelt out.
Accounted ==
    \A d \in accepted :
        \/ d \in Elements(offline[recipient[d]]) \/ d \in Elements(written[recipient[d]])
        \/ \E g \in Generations : /\ registrations[g].owner = recipient[d]
                                  /\ d \in HeldBy(registrations[g])
        \/ d \in truncated \/ d \in dropped

DistinctIn(r) ==
    /\ Distinct(r.pending) /\ Distinct(r.channel)
    /\ InHand(r) \cap Elements(r.pending) = {} /\ InHand(r) \cap Elements(r.channel) = {}
    /\ Elements(r.pending) \cap Elements(r.channel) = {}

OnePlace ==
    /\ \A a \in Agents :
           /\ Distinct(written[a]) /\ Distinct(offline[a])
           /\ Elements(written[a]) \cap Elements(offline[a]) = {}
    /\ \A g \in Generations :
           LET r == registrations[g]
           IN  /\ DistinctIn(r)
               /\ HeldBy(r) \cap Elements(written[r.owner]) = {}
               /\ HeldBy(r) \cap Elements(offline[r.owner]) = {}

IncreasingIn(r) ==
    /\ Increasing(r.pending) /\ Increasing(r.channel)
    /\ Less(InHand(r), Elements(r.pending)) /\ Less(InHand(r), Elements(r.channel))
    /\ Less(Elements(r.pending), Elements(r.channel))

\* Without the race an Agent in the table has nothing in its offline queue, so that
\* written, in hand, captured, live and offline are in the order of acceptance.
InOrder ==
    raced \/
    /\ \A a \in Agents :
           /\ Increasing(written[a]) /\ Increasing(offline[a])
           /\ Less(Elements(written[a]), Elements(offline[a]))
           /\ connections[a] # NoGeneration => offline[a] = <<>>
    /\ \A g \in Generations :
           LET r == registrations[g]
           IN  IncreasingIn(r) /\ Less(Elements(written[r.owner]), HeldBy(r))

Inv ==
    /\ TypeOK /\ TableOK /\ LeakOK
    /\ RightPlace /\ Accounted /\ OnePlace /\ InOrder

-----------------------------------------------------------------------------
(***************************************************************************)
(* What the operations on queues do to their elements and their order.     *)
(***************************************************************************)
LEMMA EmptyQueue == Elements(<<>>) = {} /\ Distinct(<<>>) /\ Increasing(<<>>) /\ <<>> \in Seq(Nat)
BY DEF Elements, Distinct, Increasing

LEMMA ElementsNat ==
    ASSUME NEW s \in Seq(Nat)
    PROVE  Elements(s) \subseteq Nat
BY DEF Elements

LEMMA NoElements ==
    ASSUME NEW s \in Seq(Nat), Elements(s) = {}
    PROVE  s = <<>>
<1>1. DOMAIN s = {}
  BY DEF Elements
<1> QED BY <1>1

\* A frame appended to a queue.
LEMMA Appended ==
    ASSUME NEW s \in Seq(Nat), NEW e \in Nat
    PROVE  /\ Append(s, e) \in Seq(Nat) /\ Len(Append(s, e)) = Len(s) + 1
           /\ Elements(Append(s, e)) = Elements(s) \cup {e}
           /\ Distinct(s) /\ e \notin Elements(s) => Distinct(Append(s, e))
           /\ Increasing(s) /\ Less(Elements(s), {e}) => Increasing(Append(s, e))
<1> DEFINE t == Append(s, e)
<1>1. /\ t \in Seq(Nat) /\ Len(t) = Len(s) + 1 /\ DOMAIN t = 1..(Len(s) + 1)
      /\ \A i \in 1..Len(s) : t[i] = s[i]
      /\ t[Len(s) + 1] = e
  OBVIOUS
<1>2. DOMAIN s = 1..Len(s) /\ Len(s) \in Nat
  OBVIOUS
<1> HIDE DEF t
<1>3. Elements(t) = Elements(s) \cup {e}
  <2>1. \A i \in DOMAIN t : t[i] \in Elements(s) \cup {e}
    BY <1>1, <1>2 DEF Elements
  <2>2. \A i \in DOMAIN s : i \in DOMAIN t /\ t[i] = s[i]
    BY <1>1, <1>2
  <2>3. Len(s) + 1 \in DOMAIN t
    BY <1>1, <1>2
  <2> QED BY <1>1, <2>1, <2>2, <2>3 DEF Elements
<1>4. \A i \in DOMAIN t : (i \in DOMAIN s /\ t[i] = s[i] /\ s[i] \in Elements(s)) \/ (i = Len(s) + 1 /\ t[i] = e)
  BY <1>1, <1>2 DEF Elements
<1>5. ASSUME Distinct(s), e \notin Elements(s)
      PROVE  Distinct(t)
  BY <1>4, <1>5 DEF Distinct
<1>6. ASSUME Increasing(s), Less(Elements(s), {e})
      PROVE  Increasing(t)
  BY <1>2, <1>4, <1>6 DEF Increasing, Less
<1> QED BY <1>1, <1>3, <1>5, <1>6 DEF t

\* A frame taken from the front of a queue.
LEMMA HeadTail ==
    ASSUME NEW s \in Seq(Nat), s # <<>>
    PROVE  /\ Head(s) \in Nat /\ Tail(s) \in Seq(Nat) /\ Len(Tail(s)) <= Len(s)
           /\ Elements(s) = {Head(s)} \cup Elements(Tail(s))
           /\ Distinct(s) => Distinct(Tail(s)) /\ Head(s) \notin Elements(Tail(s))
           /\ Increasing(s) => Increasing(Tail(s)) /\ Less({Head(s)}, Elements(Tail(s)))
<1> DEFINE t == Tail(s)
           n == Len(s)
<1>1. n \in Nat /\ n >= 1 /\ DOMAIN s = 1..n
  OBVIOUS
<1>2. /\ t \in Seq(Nat) /\ Len(t) = n - 1 /\ DOMAIN t = 1..(n - 1)
      /\ \A i \in 1..(n - 1) : t[i] = s[i + 1]
      /\ Head(s) = s[1] /\ Head(s) \in Nat
  <2>1. Len(t) = n - 1 /\ t \in Seq(Nat) /\ Head(s) = s[1] /\ Head(s) \in Nat
    BY <1>1
  <2> QED BY <1>1, <2>1
<1> HIDE DEF t, n
<1>3. \A i \in DOMAIN t : i + 1 \in DOMAIN s /\ t[i] = s[i + 1] /\ i \in Nat
  BY <1>1, <1>2
<1>4. \A j \in DOMAIN s : j = 1 \/ (j - 1 \in DOMAIN t /\ t[j - 1] = s[j])
  BY <1>1, <1>2
<1>5. Elements(s) = {Head(s)} \cup Elements(t)
  <2>1. \A j \in DOMAIN s : s[j] \in {Head(s)} \cup Elements(t)
    BY <1>2, <1>4 DEF Elements
  <2>2. 1 \in DOMAIN s
    BY <1>1
  <2>3. \A i \in DOMAIN t : t[i] \in Elements(s)
    BY <1>3 DEF Elements
  <2>4. s[1] \in Elements(s)
    BY <2>2 DEF Elements
  <2> QED BY <1>2, <2>1, <2>3, <2>4 DEF Elements
<1>6. ASSUME Distinct(s)
      PROVE  Distinct(t) /\ Head(s) \notin Elements(t)
  <2>1. \A i, j \in DOMAIN t : t[i] = t[j] => i + 1 = j + 1
    BY <1>3, <1>6 DEF Distinct
  <2>2. Distinct(t)
    BY <1>3, <2>1 DEF Distinct
  <2>3. \A i \in DOMAIN t : t[i] # s[1]
    <3>1. 1 \in DOMAIN s
      BY <1>1
    <3>2. \A i \in DOMAIN t : i + 1 # 1
      BY <1>1, <1>2
    <3> QED BY <1>3, <1>6, <3>1, <3>2 DEF Distinct
  <2> QED BY <1>2, <2>2, <2>3 DEF Elements
<1>7. ASSUME Increasing(s)
      PROVE  Increasing(t) /\ Less({Head(s)}, Elements(t))
  <2>1. \A i, j \in DOMAIN t : i < j => t[i] < t[j]
    <3> SUFFICES ASSUME NEW i \in DOMAIN t, NEW j \in DOMAIN t, i < j
                 PROVE  t[i] < t[j]
      OBVIOUS
    <3>1. i + 1 < j + 1
      BY <1>3
    <3> QED BY <1>3, <1>7, <3>1 DEF Increasing
  <2>2. \A i \in DOMAIN t : s[1] < t[i]
    <3>1. 1 \in DOMAIN s
      BY <1>1
    <3>2. \A i \in DOMAIN t : 1 < i + 1
      BY <1>1, <1>2
    <3> QED BY <1>3, <1>7, <3>1, <3>2 DEF Increasing
  <2> QED BY <1>2, <2>1, <2>2 DEF Increasing, Less, Elements
<1>8. Len(t) <= n
  BY <1>1, <1>2
<1> QED BY <1>2, <1>5, <1>6, <1>7, <1>8 DEF t, n

\* One queue after another.
LEMMA Joined ==
    ASSUME NEW s \in Seq(Nat), NEW t \in Seq(Nat)
    PROVE  /\ s \o t \in Seq(Nat) /\ Elements(s \o t) = Elements(s) \cup Elements(t)
           /\ Distinct(s) /\ Distinct(t) /\ Elements(s) \cap Elements(t) = {} => Distinct(s \o t)
           /\ Increasing(s) /\ Increasing(t) /\ Less(Elements(s), Elements(t)) => Increasing(s \o t)
<1> DEFINE u == s \o t
<1>1. /\ Len(s) \in Nat /\ Len(t) \in Nat /\ DOMAIN s = 1..Len(s) /\ DOMAIN t = 1..Len(t)
  OBVIOUS
<1>2. /\ u \in Seq(Nat) /\ Len(u) = Len(s) + Len(t)
      /\ \A i \in 1..Len(u) : u[i] = IF i <= Len(s) THEN s[i] ELSE t[i - Len(s)]
  BY ConcatProperties
<1>3. DOMAIN u = 1..(Len(s) + Len(t))
  BY <1>2
<1> HIDE DEF u
<1>4. \A i \in DOMAIN u : \/ i \in DOMAIN s /\ u[i] = s[i] /\ i <= Len(s)
                          \/ i - Len(s) \in DOMAIN t /\ u[i] = t[i - Len(s)] /\ i > Len(s)
  BY <1>1, <1>2, <1>3
<1>5. /\ \A i \in DOMAIN s : i \in DOMAIN u /\ u[i] = s[i]
      /\ \A i \in DOMAIN t : i + Len(s) \in DOMAIN u /\ u[i + Len(s)] = t[i]
  <2>1. \A i \in DOMAIN s : i \in DOMAIN u /\ i <= Len(s)
    BY <1>1, <1>3
  <2>2. \A i \in DOMAIN t :
            i + Len(s) \in DOMAIN u /\ ~(i + Len(s) <= Len(s)) /\ (i + Len(s)) - Len(s) = i
    BY <1>1, <1>3
  <2> QED BY <1>2, <1>3, <2>1, <2>2
<1>6. Elements(u) = Elements(s) \cup Elements(t)
  <2>1. \A i \in DOMAIN u : u[i] \in Elements(s) \cup Elements(t)
    BY <1>4 DEF Elements
  <2>2. \A i \in DOMAIN s : s[i] \in Elements(u)
    BY <1>5 DEF Elements
  <2>3. \A i \in DOMAIN t : t[i] \in Elements(u)
    BY <1>5 DEF Elements
  <2> QED BY <2>1, <2>2, <2>3 DEF Elements
<1>7. ASSUME Distinct(s), Distinct(t), Elements(s) \cap Elements(t) = {}
      PROVE  Distinct(u)
  <2> SUFFICES ASSUME NEW i \in DOMAIN u, NEW j \in DOMAIN u, u[i] = u[j]
               PROVE  i = j
    BY DEF Distinct
  <2>1. \A k \in DOMAIN s, m \in DOMAIN t : s[k] # t[m]
    BY <1>7 DEF Elements
  <2>2. i \in Nat /\ j \in Nat
    BY <1>3
  <2>3. CASE i <= Len(s) /\ j <= Len(s)
    BY <1>1, <1>4, <1>7, <2>2, <2>3 DEF Distinct
  <2>4. CASE i > Len(s) /\ j > Len(s)
    <3>1. i - Len(s) \in DOMAIN t /\ u[i] = t[i - Len(s)]
      BY <1>1, <1>4, <2>2, <2>4
    <3>2. j - Len(s) \in DOMAIN t /\ u[j] = t[j - Len(s)]
      BY <1>1, <1>4, <2>2, <2>4
    <3>3. i - Len(s) = j - Len(s)
      BY <1>7, <3>1, <3>2 DEF Distinct
    <3> QED BY <1>1, <2>2, <3>3
  <2>5. CASE i <= Len(s) /\ j > Len(s)
    BY <1>1, <1>4, <2>1, <2>2, <2>5
  <2>6. CASE i > Len(s) /\ j <= Len(s)
    BY <1>1, <1>4, <2>1, <2>2, <2>6
  <2> QED BY <1>1, <2>2, <2>3, <2>4, <2>5, <2>6
<1>8. ASSUME Increasing(s), Increasing(t), Less(Elements(s), Elements(t))
      PROVE  Increasing(u)
  <2> SUFFICES ASSUME NEW i \in DOMAIN u, NEW j \in DOMAIN u, i < j
               PROVE  u[i] < u[j]
    BY DEF Increasing
  <2>1. \A k \in DOMAIN s, m \in DOMAIN t : s[k] < t[m]
    BY <1>8 DEF Elements, Less
  <2>2. i \in Nat /\ j \in Nat
    BY <1>3
  <2>3. CASE j <= Len(s)
    BY <1>1, <1>4, <1>8, <2>2, <2>3 DEF Increasing
  <2>4. CASE i > Len(s)
    <3>1. i - Len(s) \in DOMAIN t /\ u[i] = t[i - Len(s)]
      BY <1>1, <1>4, <2>2, <2>4
    <3>2. j - Len(s) \in DOMAIN t /\ u[j] = t[j - Len(s)]
      BY <1>1, <1>4, <2>2, <2>4
    <3>3. i - Len(s) < j - Len(s)
      BY <1>1, <2>2
    <3> QED BY <1>8, <3>1, <3>2, <3>3 DEF Increasing
  <2>5. CASE i <= Len(s) /\ j > Len(s)
    BY <1>1, <1>4, <2>1, <2>2, <2>5
  <2> QED BY <1>1, <2>2, <2>3, <2>4, <2>5
<1> QED BY <1>2, <1>6, <1>7, <1>8 DEF u

\* prepend keeps the front of the queue, in its order, within the depth.
LEMMA PrependedQueue ==
    ASSUME NEW s \in Seq(Nat), NEW t \in Seq(Nat)
    PROVE  /\ Prepended(s, t) \in Seq(Nat) /\ Len(Prepended(s, t)) <= OfflineDepth
           /\ Elements(Prepended(s, t)) \subseteq Elements(s \o t)
           /\ Distinct(s \o t) => Distinct(Prepended(s, t))
           /\ Increasing(s \o t) => Increasing(Prepended(s, t))
<1> DEFINE u == s \o t
           n == IF Len(u) > OfflineDepth THEN OfflineDepth ELSE Len(u)
           v == SubSeq(u, 1, n)
<1>1. u \in Seq(Nat)
  BY Joined
<1> HIDE DEF u
<1>2. Len(u) \in Nat /\ DOMAIN u = 1..Len(u) /\ n \in Nat /\ n <= Len(u) /\ n <= OfflineDepth
  BY <1>1, LimitAssumption
<1> HIDE DEF n
<1>3. v \in Seq(Nat) /\ Len(v) = n /\ \A i \in 1..n : v[i] = u[i]
  <2>1. \A i \in 1..n : u[i] \in Nat
    BY <1>1, <1>2
  <2> QED BY <1>2, <2>1, SubSeqProperties
<1>4. DOMAIN v = 1..n
  BY <1>3
<1> HIDE DEF v
<1>5. \A i \in DOMAIN v : i \in DOMAIN u /\ v[i] = u[i]
  BY <1>2, <1>3, <1>4
<1>6. Elements(v) \subseteq Elements(u)
  BY <1>5 DEF Elements
<1>7. (Distinct(u) => Distinct(v)) /\ (Increasing(u) => Increasing(v))
  BY <1>5 DEF Distinct, Increasing
<1>8. Prepended(s, t) = v
  BY DEF Prepended, u, n, v
<1> QED BY <1>2, <1>3, <1>6, <1>7, <1>8 DEF u

-----------------------------------------------------------------------------
(***************************************************************************)
(* Registrations.                                                          *)
(***************************************************************************)
LEMMA RegistrationOf ==
    ASSUME TypeOK, NEW g \in Generations
    PROVE  /\ registrations[g] \in RegistrationType /\ registrations[g].owner \in Agents
           /\ registrations[g].pending \in Seq(Nat) /\ registrations[g].channel \in Seq(Nat)
           /\ registrations[g].hand \in Nat /\ g \in Nat /\ g # NoGeneration
           /\ HeldBy(registrations[g]) \subseteq Nat
<1>1. registrations[g] \in RegistrationType /\ g \in Nat /\ g # 0
  BY DEF TypeOK, Generations
<1>2. /\ registrations[g].pending \in Seq(Nat) /\ registrations[g].channel \in Seq(Nat)
      /\ registrations[g].hand \in Nat /\ registrations[g].owner \in Agents
  BY <1>1 DEF RegistrationType
<1>3. HeldBy(registrations[g]) \subseteq Nat
  BY <1>2, ElementsNat DEF HeldBy, InHand
<1> QED BY <1>1, <1>2, <1>3 DEF NoGeneration

\* A task that changes its own registration changes no other.
LEMMA RegistrationChange ==
    ASSUME TypeOK, NEW g \in Generations, NEW q \in RegistrationType,
           registrations' = [registrations EXCEPT ![g] = q]
    PROVE  /\ registrations' \in Seq(RegistrationType) /\ Generations' = Generations
           /\ registrations'[g] = q
           /\ \A h \in Generations : h # g => registrations'[h] = registrations[h]
<1>1. registrations \in Seq(RegistrationType) /\ g \in 1..Len(registrations)
  BY DEF TypeOK, Generations
<1>2. registrations' \in Seq(RegistrationType)
  BY <1>1, ExceptSeq
<1> QED BY <1>1, <1>2 DEF Generations

\* What disconnect_and_requeue collects is what the registration holds, in its order.
LEMMA UnsentFrames ==
    ASSUME TypeOK, NEW g \in Generations
    PROVE  /\ Unsent(g) \in Seq(Nat) /\ Elements(Unsent(g)) = HeldBy(registrations[g])
           /\ DistinctIn(registrations[g]) => Distinct(Unsent(g))
           /\ IncreasingIn(registrations[g]) => Increasing(Unsent(g))
<1> DEFINE r == registrations[g]
           h == IF r.hand = NoFrame THEN <<>> ELSE <<r.hand>>
<1>1. r.pending \in Seq(Nat) /\ r.channel \in Seq(Nat) /\ r.hand \in Nat
  BY RegistrationOf
<1>2. h \in Seq(Nat) /\ Elements(h) = InHand(r) /\ Distinct(h) /\ Increasing(h)
  <2>1. CASE r.hand = NoFrame
    BY <2>1, EmptyQueue DEF InHand
  <2>2. CASE r.hand # NoFrame
    <3>1. h = <<r.hand>> /\ InHand(r) = {r.hand}
      BY <2>2 DEF InHand
    <3>2. <<r.hand>> \in Seq(Nat) /\ DOMAIN <<r.hand>> = {1} /\ <<r.hand>>[1] = r.hand
      BY <1>1
    <3> QED BY <3>1, <3>2 DEF Elements, Distinct, Increasing
  <2> QED BY <2>1, <2>2
<1> DEFINE front == h \o r.pending
<1>3. Unsent(g) = front \o r.channel
  BY DEF Unsent
<1> HIDE DEF r, h
<1>4. /\ front \in Seq(Nat) /\ Elements(front) = InHand(r) \cup Elements(r.pending)
      /\ DistinctIn(r) => Distinct(front)
      /\ IncreasingIn(r) => Increasing(front)
  BY <1>1, <1>2, Joined DEF DistinctIn, IncreasingIn
<1> HIDE DEF front
<1>5. front \o r.channel \in Seq(Nat) /\ Elements(front \o r.channel) = HeldBy(r)
  BY <1>1, <1>4, Joined DEF HeldBy
<1>6. DistinctIn(r) => Distinct(front \o r.channel)
  BY <1>1, <1>4, Joined DEF DistinctIn
<1>7. IncreasingIn(r) => Increasing(front \o r.channel)
  <2>1. IncreasingIn(r) => Less(Elements(front), Elements(r.channel))
    BY <1>4 DEF IncreasingIn, Less
  <2> QED BY <1>1, <1>4, <2>1, Joined DEF IncreasingIn
<1> QED BY <1>3, <1>5, <1>6, <1>7 DEF r

\* The frames of the router are generated deliveries, never the absent frame.
LEMMA TakenNat ==
    ASSUME TypeOK, NEW d \in Taken
    PROVE  d \in Nat /\ d # NoFrame /\ d <= Len(recipient) /\ d \in DOMAIN recipient
BY DEF TypeOK, Taken, NoFrame

\* What a registration of an Agent holds is held by the registration in the table.
LEMMA HolderInTable ==
    ASSUME Inv, NEW g \in Generations, NEW d \in HeldBy(registrations[g])
    PROVE  /\ registrations[g].task # "ended"
           /\ connections[registrations[g].owner] = g
<1>1. Empty(registrations[g]) => HeldBy(registrations[g]) = {}
  BY EmptyQueue DEF Empty, HeldBy, InHand
<1> QED BY <1>1 DEF Inv, TableOK

LEMMA EmptyRegistration ==
    ASSUME NEW r, Empty(r)
    PROVE  HeldBy(r) = {} /\ DistinctIn(r) /\ IncreasingIn(r)
BY EmptyQueue DEF Empty, HeldBy, InHand, DistinctIn, IncreasingIn, Less

-----------------------------------------------------------------------------
(***************************************************************************)
(* The tasks of the connections.                                           *)
(***************************************************************************)
\* A task rearranges the frames it holds, or stops serving.
LEMMA SameFrames ==
    ASSUME Inv, NEW g \in Generations, NEW q \in RegistrationType,
           registrations' = [registrations EXCEPT ![g] = q],
           registrations[g].task # "ended", q.task # "ended", q.owner = registrations[g].owner,
           HeldBy(q) = HeldBy(registrations[g]), DistinctIn(q), raced \/ IncreasingIn(q),
           Len(q.channel) <= OnlineDepth, Len(q.pending) <= OfflineDepth,
           UNCHANGED <<connections, offline, link, recipient, aborts, history>>
    PROVE  Inv'
<1> USE DEF Inv
<1>1. /\ registrations' \in Seq(RegistrationType) /\ Generations' = Generations
      /\ registrations'[g] = q
      /\ \A h \in Generations : h # g => registrations'[h] = registrations[h]
  BY RegistrationChange
<1>2. UNCHANGED <<connections, offline, link, recipient, aborts, accepted, written, truncated,
                  dropped, raced>>
  BY DEF history
<1>3. \A h \in Generations : /\ registrations'[h].owner = registrations[h].owner
                             /\ HeldBy(registrations'[h]) = HeldBy(registrations[h])
                             /\ registrations'[h].task = "ended" <=> registrations[h].task = "ended"
  BY <1>1
<1>4. TypeOK'
  BY <1>1, <1>2 DEF TypeOK
<1>5. TableOK'
  BY <1>1, <1>2 DEF TableOK
<1>6. Leaked' = Leaked
  BY <1>2, <1>3 DEF Leaked, Connected, TableOK
<1>7. LeakOK'
  BY <1>2, <1>6 DEF LeakOK
<1>8. RightPlace'
  BY <1>1, <1>2, <1>3 DEF RightPlace, Taken
<1>9. Accounted'
  BY <1>1, <1>2, <1>3 DEF Accounted
<1>10. OnePlace'
  BY <1>1, <1>2, <1>3 DEF OnePlace
<1>11. InOrder'
  BY <1>1, <1>2, <1>3 DEF InOrder
<1> QED BY <1>4, <1>5, <1>7, <1>8, <1>9, <1>10, <1>11

\* recv_best_effort moves the oldest frame of the registration into the task's hand.
LEMMA TakeFrameInv == ASSUME Inv, NEW g \in Generations, TakeFrame(g) PROVE Inv'
<1> USE DEF Inv
<1> DEFINE r == registrations[g]
<1>1. r \in RegistrationType /\ r.pending \in Seq(Nat) /\ r.channel \in Seq(Nat)
  BY RegistrationOf
<1>2. r.task = "serving" /\ r.hand = NoFrame /\ InHand(r) = {}
  BY DEF TakeFrame, Serving, InHand
<1>3. Len(r.channel) <= OnlineDepth /\ Len(r.pending) <= OfflineDepth
  BY DEF TypeOK
<1>4. DistinctIn(r) /\ (raced \/ IncreasingIn(r))
  BY DEF OnePlace, InOrder
<1>5. \A d \in HeldBy(r) : d \in Nat /\ d # NoFrame
  BY TakenNat DEF RightPlace
<1>6. CASE /\ r.pending # <<>>
           /\ registrations' = [registrations EXCEPT ![g].hand = Head(r.pending),
                                                     ![g].pending = Tail(r.pending)]
  <2> DEFINE q == [r EXCEPT !.hand = Head(r.pending), !.pending = Tail(r.pending)]
  <2>1. registrations' = [registrations EXCEPT ![g] = q]
    BY <1>6 DEF TypeOK, Generations
  <2>2. /\ Head(r.pending) \in Nat /\ Tail(r.pending) \in Seq(Nat)
        /\ Len(Tail(r.pending)) <= Len(r.pending)
        /\ Elements(r.pending) = {Head(r.pending)} \cup Elements(Tail(r.pending))
    BY <1>1, <1>6, HeadTail
  <2>3. /\ q \in RegistrationType /\ q.owner = r.owner /\ q.task = r.task
        /\ q.hand = Head(r.pending) /\ q.pending = Tail(r.pending) /\ q.channel = r.channel
    BY <1>1, <2>2 DEF RegistrationType
  <2>4. Head(r.pending) \in HeldBy(r)
    BY <2>2 DEF HeldBy
  <2> HIDE DEF q
  <2>5. InHand(q) = {Head(r.pending)}
    BY <1>5, <2>3, <2>4 DEF InHand
  <2>6. HeldBy(q) = HeldBy(r)
    BY <1>2, <2>2, <2>3, <2>5 DEF HeldBy
  <2>7. Distinct(r.pending) =>
            Distinct(Tail(r.pending)) /\ Head(r.pending) \notin Elements(Tail(r.pending))
    BY <1>1, <1>6, HeadTail
  <2>8. DistinctIn(q)
    BY <1>4, <2>2, <2>3, <2>5, <2>7 DEF DistinctIn
  <2>9. Increasing(r.pending) =>
            Increasing(Tail(r.pending)) /\ Less({Head(r.pending)}, Elements(Tail(r.pending)))
    BY <1>1, <1>6, HeadTail
  <2>10. raced \/ IncreasingIn(q)
    BY <1>4, <2>2, <2>3, <2>5, <2>9 DEF IncreasingIn, Less
  <2>11. Len(q.pending) <= OfflineDepth
    BY <1>1, <1>3, <2>2, <2>3, LimitAssumption
  <2> QED BY <1>2, <1>3, <2>1, <2>3, <2>6, <2>8, <2>10, <2>11, SameFrames DEF TakeFrame
<1>7. CASE /\ r.pending = <<>> /\ r.channel # <<>>
           /\ registrations' = [registrations EXCEPT ![g].hand = Head(r.channel),
                                                     ![g].channel = Tail(r.channel)]
  <2> DEFINE q == [r EXCEPT !.hand = Head(r.channel), !.channel = Tail(r.channel)]
  <2>1. registrations' = [registrations EXCEPT ![g] = q]
    BY <1>7 DEF TypeOK, Generations
  <2>2. /\ Head(r.channel) \in Nat /\ Tail(r.channel) \in Seq(Nat)
        /\ Len(Tail(r.channel)) <= Len(r.channel)
        /\ Elements(r.channel) = {Head(r.channel)} \cup Elements(Tail(r.channel))
    BY <1>1, <1>7, HeadTail
  <2>3. /\ q \in RegistrationType /\ q.owner = r.owner /\ q.task = r.task
        /\ q.hand = Head(r.channel) /\ q.channel = Tail(r.channel) /\ q.pending = r.pending
    BY <1>1, <2>2 DEF RegistrationType
  <2>4. Head(r.channel) \in HeldBy(r)
    BY <2>2 DEF HeldBy
  <2> HIDE DEF q
  <2>5. InHand(q) = {Head(r.channel)}
    BY <1>5, <2>3, <2>4 DEF InHand
  <2>6. HeldBy(q) = HeldBy(r)
    BY <1>2, <2>2, <2>3, <2>5 DEF HeldBy
  <2>7. Distinct(r.channel) =>
            Distinct(Tail(r.channel)) /\ Head(r.channel) \notin Elements(Tail(r.channel))
    BY <1>1, <1>7, HeadTail
  <2>8. Elements(r.pending) = {}
    BY <1>7, EmptyQueue
  <2>9. DistinctIn(q)
    BY <1>4, <2>2, <2>3, <2>5, <2>7, <2>8 DEF DistinctIn
  <2>10. Increasing(r.channel) =>
            Increasing(Tail(r.channel)) /\ Less({Head(r.channel)}, Elements(Tail(r.channel)))
    BY <1>1, <1>7, HeadTail
  <2>11. raced \/ IncreasingIn(q)
    BY <1>4, <2>2, <2>3, <2>5, <2>8, <2>10 DEF IncreasingIn, Less
  <2>12. Len(q.channel) <= OnlineDepth
    BY <1>1, <1>3, <2>2, <2>3, LimitAssumption
  <2> QED BY <1>2, <1>3, <2>1, <2>3, <2>6, <2>9, <2>11, <2>12, SameFrames DEF TakeFrame
<1> QED BY <1>6, <1>7 DEF TakeFrame

LEMMA LeaveInv == ASSUME Inv, NEW g \in Generations, Leave(g) PROVE Inv'
<1> USE DEF Inv
<1> DEFINE r == registrations[g]
           q == [r EXCEPT !.task = "leaving"]
<1>1. r \in RegistrationType /\ r.task = "serving"
  BY RegistrationOf DEF Leave, Serving
<1>2. registrations' = [registrations EXCEPT ![g] = q]
  BY DEF Leave, TypeOK, Generations
<1>3. /\ q \in RegistrationType /\ q.owner = r.owner /\ q.task = "leaving"
      /\ q.hand = r.hand /\ q.pending = r.pending /\ q.channel = r.channel
  BY <1>1 DEF RegistrationType
<1>4. /\ DistinctIn(r) /\ (raced \/ IncreasingIn(r))
      /\ Len(r.channel) <= OnlineDepth /\ Len(r.pending) <= OfflineDepth
  BY DEF OnePlace, InOrder, TypeOK
<1> HIDE DEF q
<1>5. /\ HeldBy(q) = HeldBy(r) /\ DistinctIn(q) /\ (raced \/ IncreasingIn(q))
      /\ Len(q.channel) <= OnlineDepth /\ Len(q.pending) <= OfflineDepth
  BY <1>3, <1>4 DEF HeldBy, InHand, DistinctIn, IncreasingIn
<1> QED BY <1>1, <1>2, <1>3, <1>5, SameFrames DEF Leave

\* Only the registration in the table holds frames of its Agent.
LEMMA OthersHoldNothing ==
    ASSUME Inv, NEW g \in Generations, registrations[g].task # "ended",
           NEW h \in Generations, h # g, registrations[h].owner = registrations[g].owner
    PROVE  HeldBy(registrations[h]) = {}
<1>1. connections[registrations[g].owner] = g
  BY DEF Inv, TableOK
<1> QED BY <1>1, HolderInTable

\* An accepted delivery has an addressee.
LEMMA AcceptedRecipient ==
    ASSUME Inv, NEW e \in accepted
    PROVE  recipient[e] \in Agents
<1>1. e \in DOMAIN recipient
  BY TakenNat DEF Inv, RightPlace
<1>2. recipient \in Seq(Agents)
  BY DEF Inv, TypeOK
<1> QED BY <1>1, <1>2

\* A step that leaves no further entry without a task.
LEMMA NoNewLeak ==
    ASSUME Inv, Leaked' \subseteq Leaked, aborts' = aborts
    PROVE  LeakOK'
<1>1. IsFiniteSet(Leaked) /\ Cardinality(Leaked) <= aborts /\ aborts \in Nat
  BY DEF Inv, LeakOK, TypeOK
<1>2. IsFiniteSet(Leaked') /\ Cardinality(Leaked') <= Cardinality(Leaked)
  BY <1>1, FS_Subset
<1>3. Cardinality(Leaked') \in Nat /\ Cardinality(Leaked) \in Nat
  BY <1>1, <1>2, FS_CardinalityType
<1>4. Cardinality(Leaked') <= aborts
  BY <1>1, <1>2, <1>3
<1> QED BY <1>2, <1>4 DEF LeakOK

LEMMA WriteOkInv == ASSUME Inv, NEW g \in Generations, WriteOk(g) PROVE Inv'
<1> USE DEF Inv
<1> DEFINE r == registrations[g]
           q == [r EXCEPT !.hand = NoFrame]
           a == r.owner
           d == r.hand
<1>1. /\ r \in RegistrationType /\ a \in Agents /\ d \in Nat /\ r.task = "serving" /\ d # NoFrame
      /\ written[a] \in Seq(Nat) /\ offline[a] \in Seq(Nat)
  BY RegistrationOf DEF WriteOk, Serving, TypeOK
<1>2. /\ registrations' = [registrations EXCEPT ![g] = q]
      /\ written' = [written EXCEPT ![a] = Append(written[a], d)]
      /\ UNCHANGED <<connections, offline, link, recipient, aborts, accepted, truncated, dropped,
                     raced>>
  BY DEF WriteOk, TypeOK, Generations
<1>3. /\ q \in RegistrationType /\ q.owner = a /\ q.task = r.task
      /\ q.hand = NoFrame /\ q.pending = r.pending /\ q.channel = r.channel
  BY <1>1 DEF RegistrationType, NoFrame
<1>4. InHand(r) = {d} /\ InHand(q) = {}
  BY <1>1, <1>3 DEF InHand
<1> HIDE DEF q
<1>5. /\ registrations' \in Seq(RegistrationType) /\ Generations' = Generations
      /\ registrations'[g] = q
      /\ \A h \in Generations : h # g => registrations'[h] = registrations[h]
  BY <1>2, <1>3, RegistrationChange
<1>6. DistinctIn(r) /\ HeldBy(r) \cap Elements(written[a]) = {} /\ HeldBy(r) \cap Elements(offline[a]) = {}
  BY DEF OnePlace
<1>7. HeldBy(r) = HeldBy(q) \cup {d} /\ d \notin HeldBy(q) /\ DistinctIn(q)
  BY <1>3, <1>4, <1>6, EmptyQueue DEF HeldBy, DistinctIn
<1>8. connections[a] = g
  BY <1>1 DEF TableOK
<1>9. \A h \in Generations : h # g /\ registrations[h].owner = a => HeldBy(registrations[h]) = {}
  BY <1>1, OthersHoldNothing
<1>10. /\ written' \in [Agents -> Seq(Nat)]
       /\ \A b \in Agents : b # a => written'[b] = written[b]
       /\ written'[a] = Append(written[a], d)
  BY <1>1, <1>2 DEF TypeOK
<1>11. /\ Elements(written'[a]) = Elements(written[a]) \cup {d}
       /\ Distinct(written'[a])
       /\ Increasing(written[a]) /\ Less(Elements(written[a]), {d}) => Increasing(written'[a])
  <2>1. d \notin Elements(written[a]) /\ Distinct(written[a])
    BY <1>1, <1>6, <1>7 DEF OnePlace
  <2> HIDE DEF a, d
  <2> QED BY <1>1, <1>10, <2>1, Appended
<1>12. \A h \in Generations : /\ registrations'[h].owner = registrations[h].owner
                              /\ HeldBy(registrations'[h]) \subseteq HeldBy(registrations[h])
                              /\ registrations'[h].task = registrations[h].task
  BY <1>3, <1>5, <1>7
<1>13. TypeOK'
  <2>1. \A h \in Generations : /\ Len(registrations'[h].channel) <= OnlineDepth
                               /\ Len(registrations'[h].pending) <= OfflineDepth
    BY <1>3, <1>5 DEF TypeOK
  <2> QED BY <1>2, <1>5, <1>10, <2>1 DEF TypeOK
<1>14. TableOK'
  BY <1>1, <1>2, <1>3, <1>5 DEF TableOK
<1>15. LeakOK'
  <2>1. Leaked' = Leaked
    BY <1>2, <1>12 DEF Leaked, Connected, TableOK
  <2> QED BY <1>2, <2>1 DEF LeakOK
<1>16. RightPlace'
  <2>1. d \in Taken /\ recipient[d] = a
    BY <1>7 DEF RightPlace
  <2>2. Taken' = Taken
    BY <1>2 DEF Taken
  <2>3. ASSUME NEW b \in Agents, NEW e \in Elements(written'[b]) \cup Elements(offline[b])
        PROVE  e \in Taken /\ recipient[e] = b
    <3>1. CASE b = a
      BY <1>11, <2>1, <2>3, <3>1 DEF RightPlace
    <3>2. CASE b # a
      BY <1>10, <2>3, <3>2 DEF RightPlace
    <3> QED BY <3>1, <3>2
  <2>4. \A h \in Generations : \A e \in HeldBy(registrations'[h]) :
            e \in Taken /\ recipient[e] = registrations'[h].owner
    BY <1>12 DEF RightPlace
  <2>5. (link # "idle" => Len(recipient) > 0) /\ accepted \subseteq Taken
    BY DEF RightPlace
  <2> QED BY <1>2, <1>5, <2>2, <2>3, <2>4, <2>5 DEF RightPlace
<1>17. Accounted'
  <2> SUFFICES ASSUME NEW e \in accepted
               PROVE  \/ e \in Elements(offline[recipient[e]])
                      \/ e \in Elements(written'[recipient[e]])
                      \/ \E h \in Generations : /\ registrations'[h].owner = recipient[e]
                                                /\ e \in HeldBy(registrations'[h])
                      \/ e \in truncated \/ e \in dropped
    BY <1>2, <1>5 DEF Accounted
  <2>1. recipient[e] \in Agents
    BY AcceptedRecipient
  <2>2. e \in Elements(written[recipient[e]]) => e \in Elements(written'[recipient[e]])
    BY <1>10, <1>11, <2>1
  <2>3. CASE \E h \in Generations : /\ registrations[h].owner = recipient[e]
                                    /\ e \in HeldBy(registrations[h])
    <3>1. PICK h \in Generations : registrations[h].owner = recipient[e] /\ e \in HeldBy(registrations[h])
      BY <2>3
    <3>2. CASE h = g
      BY <1>5, <1>3, <1>7, <1>11, <3>1, <3>2
    <3>3. CASE h # g
      BY <1>5, <3>1, <3>3
    <3> QED BY <3>2, <3>3
  <2> QED BY <2>2, <2>3 DEF Accounted
<1>18. OnePlace'
  <2>1. ASSUME NEW b \in Agents
        PROVE  /\ Distinct(written'[b]) /\ Distinct(offline[b])
               /\ Elements(written'[b]) \cap Elements(offline[b]) = {}
    BY <1>6, <1>7, <1>10, <1>11 DEF OnePlace
  <2>2. ASSUME NEW h \in Generations
        PROVE  /\ DistinctIn(registrations'[h])
               /\ HeldBy(registrations'[h]) \cap Elements(written'[registrations'[h].owner]) = {}
               /\ HeldBy(registrations'[h]) \cap Elements(offline[registrations'[h].owner]) = {}
    <3>1. CASE h = g
      BY <1>3, <1>5, <1>6, <1>7, <1>11, <3>1
    <3>2. CASE h # g /\ registrations[h].owner = a
      BY <1>5, <1>9, <3>2 DEF OnePlace
    <3>3. CASE h # g /\ registrations[h].owner # a
      BY <1>5, <1>10, <3>3, RegistrationOf DEF OnePlace
    <3> QED BY <3>1, <3>2, <3>3
  <2> QED BY <1>2, <1>5, <2>1, <2>2 DEF OnePlace
<1>19. InOrder'
  <2> SUFFICES ASSUME ~raced PROVE InOrder'
    BY <1>2 DEF InOrder
  <2>1. Less(Elements(written[a]), HeldBy(r)) /\ IncreasingIn(r) /\ offline[a] = <<>>
    BY <1>1, <1>8, RegistrationOf DEF InOrder
  <2>2. Less(Elements(written[a]), {d})
    BY <1>7, <2>1 DEF Less
  <2>3. Elements(offline[a]) = {}
    BY <2>1, EmptyQueue
  <2>4. ASSUME NEW b \in Agents
        PROVE  /\ Increasing(written'[b]) /\ Increasing(offline[b])
               /\ Less(Elements(written'[b]), Elements(offline[b]))
               /\ connections[b] # NoGeneration => offline[b] = <<>>
    <3>1. CASE b = a
      BY <1>11, <2>1, <2>2, <2>3, <3>1 DEF InOrder, Less
    <3>2. CASE b # a
      BY <1>10, <3>2 DEF InOrder
    <3> QED BY <3>1, <3>2
  <2>5. IncreasingIn(q)
    BY <1>3, <1>4, <2>1 DEF IncreasingIn, Less
  <2>6. Less({d}, HeldBy(q))
    BY <1>3, <1>4, <2>1 DEF IncreasingIn, Less, HeldBy
  <2>7. Less(Elements(written'[a]), HeldBy(q))
    BY <1>7, <1>11, <2>1, <2>6 DEF Less
  <2>8. ASSUME NEW h \in Generations
        PROVE  /\ IncreasingIn(registrations'[h])
               /\ Less(Elements(written'[registrations'[h].owner]), HeldBy(registrations'[h]))
    <3>1. CASE h = g
      BY <1>3, <1>5, <2>5, <2>7, <3>1
    <3>2. CASE h # g /\ registrations[h].owner = a
      BY <1>5, <1>9, <3>2 DEF InOrder, Less
    <3>3. CASE h # g /\ registrations[h].owner # a
      BY <1>5, <1>10, <3>3, RegistrationOf DEF InOrder
    <3> QED BY <3>1, <3>2, <3>3
  <2> QED BY <1>2, <1>5, <2>4, <2>8 DEF InOrder
<1> QED BY <1>13, <1>14, <1>15, <1>16, <1>17, <1>18, <1>19

\* What is left of a registration whose task ends.
LEMMA Ended ==
    ASSUME TypeOK, NEW g \in Generations,
           registrations' = [registrations EXCEPT ![g].task = "ended", ![g].hand = NoFrame,
                                                  ![g].pending = <<>>, ![g].channel = <<>>]
    PROVE  /\ registrations' \in Seq(RegistrationType) /\ Generations' = Generations
           /\ registrations'[g].owner = registrations[g].owner
           /\ registrations'[g].task = "ended" /\ Empty(registrations'[g])
           /\ HeldBy(registrations'[g]) = {}
           /\ DistinctIn(registrations'[g]) /\ IncreasingIn(registrations'[g])
           /\ Len(registrations'[g].channel) = 0 /\ Len(registrations'[g].pending) = 0
           /\ \A h \in Generations : h # g => registrations'[h] = registrations[h]
<1> DEFINE r == registrations[g]
           q == [r EXCEPT !.task = "ended", !.hand = NoFrame, !.pending = <<>>, !.channel = <<>>]
<1>1. r \in RegistrationType
  BY RegistrationOf
<1>2. registrations' = [registrations EXCEPT ![g] = q]
  BY DEF TypeOK, Generations
<1>3. /\ q \in RegistrationType /\ q.owner = r.owner /\ q.task = "ended"
      /\ q.hand = NoFrame /\ q.pending = <<>> /\ q.channel = <<>>
  BY <1>1, EmptyQueue DEF RegistrationType, NoFrame
<1> HIDE DEF q
<1>4. /\ registrations' \in Seq(RegistrationType) /\ Generations' = Generations
      /\ registrations'[g] = q
      /\ \A h \in Generations : h # g => registrations'[h] = registrations[h]
  BY <1>2, <1>3, RegistrationChange
<1>5. Empty(q) /\ Len(q.channel) = 0 /\ Len(q.pending) = 0
  BY <1>3 DEF Empty
<1> QED BY <1>3, <1>4, <1>5, EmptyRegistration

\* A task that dies leaves its entry behind, which is one more than before.
LEMMA AbortInv == ASSUME Inv, NEW g \in Generations, Abort(g) PROVE Inv'
<1> USE DEF Inv
<1> DEFINE r == registrations[g]
<1>1. /\ r.task # "ended" /\ r.owner \in Agents /\ aborts' = aborts + 1
      /\ dropped' = dropped \cup HeldBy(r) /\ HeldBy(r) \subseteq Nat
      /\ UNCHANGED <<connections, offline, link, recipient, accepted, written, truncated, raced>>
  BY RegistrationOf, UnsentFrames DEF Abort
<1>2. /\ registrations' \in Seq(RegistrationType) /\ Generations' = Generations
      /\ registrations'[g].owner = r.owner
      /\ registrations'[g].task = "ended" /\ Empty(registrations'[g])
      /\ HeldBy(registrations'[g]) = {}
      /\ DistinctIn(registrations'[g]) /\ IncreasingIn(registrations'[g])
      /\ Len(registrations'[g].channel) = 0 /\ Len(registrations'[g].pending) = 0
      /\ \A h \in Generations : h # g => registrations'[h] = registrations[h]
  BY Ended DEF Abort
<1>3. TypeOK'
  <2>1. \A h \in Generations : /\ Len(registrations'[h].channel) <= OnlineDepth
                               /\ Len(registrations'[h].pending) <= OfflineDepth
    <3>1. 0 <= OnlineDepth /\ 0 <= OfflineDepth
      BY LimitAssumption
    <3> QED BY <1>2, <3>1 DEF TypeOK
  <2>2. aborts' \in Nat
    BY <1>1 DEF TypeOK
  <2>3. dropped \subseteq Nat
    BY DEF TypeOK
  <2>4. dropped' \subseteq Nat
    BY <1>1, <2>3
  <2> QED BY <1>1, <1>2, <2>1, <2>2, <2>4 DEF TypeOK
<1>4. TableOK'
  BY <1>1, <1>2 DEF TableOK
<1>5. LeakOK'
  <2>1. Leaked' \subseteq Leaked \cup {r.owner}
    <3> SUFFICES ASSUME NEW b \in Leaked', b # r.owner
                 PROVE  b \in Leaked
      OBVIOUS
    <3>1. b \in Agents /\ connections[b] # NoGeneration /\ registrations'[connections[b]].task = "ended"
      BY <1>1 DEF Leaked, Connected
    <3>2. connections[b] \in Generations /\ registrations[connections[b]].owner = b
      BY <3>1 DEF TableOK
    <3> QED BY <1>2, <3>1, <3>2 DEF Leaked, Connected
  <2>2. IsFiniteSet(Leaked \cup {r.owner}) /\ Cardinality(Leaked \cup {r.owner}) <= aborts + 1
    <3>1. IsFiniteSet(Leaked) /\ Cardinality(Leaked) <= aborts /\ aborts \in Nat
      BY DEF LeakOK, TypeOK
    <3>2. Cardinality(Leaked) \in Nat
      BY <3>1, FS_CardinalityType
    <3>3. /\ IsFiniteSet(Leaked \cup {r.owner})
          /\ \/ Cardinality(Leaked \cup {r.owner}) = Cardinality(Leaked)
             \/ Cardinality(Leaked \cup {r.owner}) = Cardinality(Leaked) + 1
      BY <3>1, FS_AddElement
    <3> QED BY <3>1, <3>2, <3>3
  <2>3. IsFiniteSet(Leaked') /\ Cardinality(Leaked') <= Cardinality(Leaked \cup {r.owner})
    BY <2>1, <2>2, FS_Subset
  <2>4. Cardinality(Leaked') \in Nat /\ Cardinality(Leaked \cup {r.owner}) \in Nat /\ aborts \in Nat
    BY <2>2, <2>3, FS_CardinalityType DEF TypeOK
  <2>5. Cardinality(Leaked') <= aborts + 1
    BY <2>2, <2>3, <2>4
  <2> QED BY <1>1, <2>3, <2>5 DEF LeakOK
<1>6. \A h \in Generations : /\ registrations'[h].owner = registrations[h].owner
                             /\ HeldBy(registrations'[h]) \subseteq HeldBy(registrations[h])
                             /\ DistinctIn(registrations'[h])
                             /\ raced \/ IncreasingIn(registrations'[h])
  BY <1>2 DEF OnePlace, InOrder
<1>7. RightPlace'
  <2>1. Taken' = Taken
    BY <1>1 DEF Taken
  <2> QED BY <1>1, <1>2, <1>6, <2>1 DEF RightPlace
<1>8. Accounted'
  <2>1. \A h \in Generations : \A d \in HeldBy(registrations[h]) :
            d \in HeldBy(registrations'[h]) \/ d \in dropped'
    BY <1>1, <1>2
  <2> QED BY <1>1, <1>2, <1>6, <2>1 DEF Accounted
<1>9. OnePlace'
  BY <1>1, <1>2, <1>6 DEF OnePlace
<1>10. InOrder'
  <2> SUFFICES ASSUME ~raced PROVE InOrder'
    BY <1>1 DEF InOrder
  <2>1. \A h \in Generations :
            Less(Elements(written'[registrations'[h].owner]), HeldBy(registrations'[h]))
    BY <1>1, <1>6 DEF InOrder, Less
  <2> QED BY <1>1, <1>2, <1>6, <2>1 DEF InOrder
<1> QED BY <1>3, <1>4, <1>5, <1>7, <1>8, <1>9, <1>10

\* disconnect_and_requeue gives the slot back and puts what was not sent in front of
\* the offline queue, as far as it fits.
LEMMA DisconnectInv == ASSUME Inv, NEW g \in Generations, DisconnectAndRequeue(g) PROVE Inv'
<1> USE DEF Inv
<1> DEFINE r == registrations[g]
           a == r.owner
           all == Unsent(g) \o offline[a]
<1>1. r.task = "leaving" /\ a \in Agents /\ connections[a] = g /\ g # NoGeneration
  BY RegistrationOf DEF DisconnectAndRequeue, TableOK
<1>2. /\ connections' = [connections EXCEPT ![a] = NoGeneration]
      /\ offline' = [offline EXCEPT ![a] = Prepended(Unsent(g), offline[a])]
      /\ truncated' = truncated \cup (Elements(all) \ Elements(offline'[a]))
      /\ UNCHANGED <<link, recipient, aborts, accepted, written, dropped, raced>>
  BY <1>1 DEF DisconnectAndRequeue
<1>3. /\ registrations' \in Seq(RegistrationType) /\ Generations' = Generations
      /\ registrations'[g].owner = r.owner
      /\ registrations'[g].task = "ended" /\ Empty(registrations'[g])
      /\ HeldBy(registrations'[g]) = {}
      /\ DistinctIn(registrations'[g]) /\ IncreasingIn(registrations'[g])
      /\ Len(registrations'[g].channel) = 0 /\ Len(registrations'[g].pending) = 0
      /\ \A h \in Generations : h # g => registrations'[h] = registrations[h]
  BY Ended DEF DisconnectAndRequeue
<1>4. /\ offline[a] \in Seq(Nat) /\ Unsent(g) \in Seq(Nat) /\ Elements(Unsent(g)) = HeldBy(r)
      /\ DistinctIn(r) => Distinct(Unsent(g))
      /\ IncreasingIn(r) => Increasing(Unsent(g))
  BY <1>1, UnsentFrames DEF TypeOK
<1>5. /\ all \in Seq(Nat) /\ Elements(all) = HeldBy(r) \cup Elements(offline[a])
      /\ Distinct(all)
  BY <1>1, <1>4, Joined DEF OnePlace
<1>6. /\ connections' \in [Agents -> Nat] /\ connections'[a] = NoGeneration
      /\ \A b \in Agents : b # a => connections'[b] = connections[b]
  BY <1>1, <1>2 DEF TypeOK, NoGeneration
<1>7. /\ offline'[a] = Prepended(Unsent(g), offline[a])
      /\ \A b \in Agents : b # a => offline'[b] = offline[b]
  BY <1>1, <1>2 DEF TypeOK
<1>8. /\ offline'[a] \in Seq(Nat) /\ Len(offline'[a]) <= OfflineDepth
      /\ Elements(offline'[a]) \subseteq Elements(all)
      /\ Distinct(offline'[a])
      /\ Increasing(all) => Increasing(offline'[a])
  BY <1>4, <1>5, <1>7, PrependedQueue
<1>9. \A d \in Elements(all) : d \in Elements(offline'[a]) \/ d \in truncated'
  BY <1>2
<1> HIDE DEF all
<1>10. \A h \in Generations : /\ registrations'[h].owner = registrations[h].owner
                              /\ registrations[h].owner \in Agents
                              /\ registrations'[h].owner = a => HeldBy(registrations'[h]) = {}
  <2>1. \A h \in Generations : h # g /\ registrations[h].owner = a => HeldBy(registrations[h]) = {}
    BY <1>1, OthersHoldNothing
  <2> QED BY <1>3, <2>1, RegistrationOf
<1>11. TypeOK'
  <2>1. offline' \in [Agents -> Seq(Nat)]
    BY <1>2, <1>7, <1>8 DEF TypeOK
  <2>2. \A b \in Agents : Len(offline'[b]) <= OfflineDepth
    BY <1>7, <1>8 DEF TypeOK
  <2>3. truncated' \subseteq Nat
    BY <1>2, <1>5, ElementsNat DEF TypeOK
  <2>4. \A h \in Generations : /\ Len(registrations'[h].channel) <= OnlineDepth
                               /\ Len(registrations'[h].pending) <= OfflineDepth
    <3>1. 0 <= OnlineDepth /\ 0 <= OfflineDepth
      BY LimitAssumption
    <3> QED BY <1>3, <3>1 DEF TypeOK
  <2> QED BY <1>2, <1>3, <1>6, <2>1, <2>2, <2>3, <2>4 DEF TypeOK
<1>12. TableOK'
  <2>1. ASSUME NEW b \in Agents, connections'[b] # NoGeneration
        PROVE  connections'[b] \in Generations /\ registrations'[connections'[b]].owner = b
    BY <1>6, <1>10, <2>1 DEF TableOK
  <2>2. ASSUME NEW h \in Generations
        PROVE  IF registrations'[h].task = "ended"
               THEN Empty(registrations'[h])
               ELSE connections'[registrations'[h].owner] = h
    <3>1. CASE h = g
      BY <1>3, <3>1
    <3>2. CASE h # g /\ registrations[h].task = "ended"
      BY <1>3, <3>2 DEF TableOK
    <3>3. CASE h # g /\ registrations[h].task # "ended"
      <4>1. connections[registrations[h].owner] = h
        BY <3>3 DEF TableOK
      <4>2. registrations[h].owner # a
        BY <1>1, <3>3, <4>1
      <4> QED BY <1>3, <1>6, <1>10, <3>3, <4>1, <4>2
    <3> QED BY <3>1, <3>2, <3>3
  <2> QED BY <1>3, <2>1, <2>2 DEF TableOK
<1>13. LeakOK'
  <2>1. Leaked' \subseteq Leaked
    <3> SUFFICES ASSUME NEW b \in Leaked'
                 PROVE  b \in Leaked
      OBVIOUS
    <3>1. b \in Agents /\ connections'[b] # NoGeneration /\ registrations'[connections'[b]].task = "ended"
      BY DEF Leaked, Connected
    <3>2. b # a /\ connections'[b] = connections[b]
      BY <1>6, <3>1
    <3>3. connections[b] \in Generations /\ registrations[connections[b]].owner = b
      BY <3>1, <3>2 DEF TableOK
    <3>4. connections[b] # g
      BY <3>2, <3>3
    <3> QED BY <1>3, <3>1, <3>2, <3>3, <3>4 DEF Leaked, Connected
  <2> QED BY <1>2, <2>1, NoNewLeak
<1>14. RightPlace'
  <2>1. Taken' = Taken
    BY <1>2 DEF Taken
  <2>2. \A d \in Elements(all) : d \in Taken /\ recipient[d] = a
    BY <1>1, <1>5 DEF RightPlace
  <2>3. \A b \in Agents : \A d \in Elements(offline'[b]) : d \in Taken /\ recipient[d] = b
    BY <1>7, <1>8, <2>2 DEF RightPlace
  <2>4. \A b \in Agents : \A d \in Elements(written[b]) : d \in Taken /\ recipient[d] = b
    BY DEF RightPlace
  <2>5. \A h \in Generations : \A d \in HeldBy(registrations'[h]) :
            d \in Taken /\ recipient[d] = registrations'[h].owner
    BY <1>3 DEF RightPlace
  <2>6. (link # "idle" => Len(recipient) > 0) /\ accepted \subseteq Taken
    BY DEF RightPlace
  <2> QED BY <1>2, <1>3, <2>1, <2>3, <2>4, <2>5, <2>6 DEF RightPlace
<1>15. Accounted'
  <2> SUFFICES ASSUME NEW e \in accepted
               PROVE  \/ e \in Elements(offline'[recipient[e]])
                      \/ e \in Elements(written[recipient[e]])
                      \/ \E h \in Generations : /\ registrations'[h].owner = recipient[e]
                                                /\ e \in HeldBy(registrations'[h])
                      \/ e \in truncated' \/ e \in dropped
    BY <1>2, <1>3 DEF Accounted
  <2>1. recipient[e] \in Agents
    BY AcceptedRecipient
  <2>2. CASE e \in Elements(offline[recipient[e]])
    BY <1>5, <1>7, <1>9, <2>1, <2>2
  <2>3. CASE \E h \in Generations : /\ registrations[h].owner = recipient[e]
                                    /\ e \in HeldBy(registrations[h])
    <3>1. PICK h \in Generations : registrations[h].owner = recipient[e] /\ e \in HeldBy(registrations[h])
      BY <2>3
    <3>2. CASE h = g
      BY <1>5, <1>9, <3>1, <3>2
    <3>3. CASE h # g
      BY <1>3, <3>1, <3>3
    <3> QED BY <3>2, <3>3
  <2>4. CASE e \in Elements(written[recipient[e]]) \/ e \in truncated \/ e \in dropped
    BY <1>2, <2>4
  <2> QED BY <2>2, <2>3, <2>4 DEF Accounted
<1>16. Elements(written[a]) \cap Elements(all) = {}
  BY <1>1, <1>5 DEF OnePlace
<1>17. OnePlace'
  <2>1. ASSUME NEW b \in Agents
        PROVE  /\ Distinct(written[b]) /\ Distinct(offline'[b])
               /\ Elements(written[b]) \cap Elements(offline'[b]) = {}
    BY <1>7, <1>8, <1>16 DEF OnePlace
  <2>2. ASSUME NEW h \in Generations
        PROVE  /\ DistinctIn(registrations'[h])
               /\ HeldBy(registrations'[h]) \cap Elements(written[registrations'[h].owner]) = {}
               /\ HeldBy(registrations'[h]) \cap Elements(offline'[registrations'[h].owner]) = {}
    <3>1. DistinctIn(registrations'[h])
      BY <1>3 DEF OnePlace
    <3>2. CASE registrations'[h].owner = a
      BY <1>10, <3>1, <3>2
    <3>3. CASE registrations'[h].owner # a
      BY <1>3, <1>7, <1>10, <3>1, <3>3 DEF OnePlace
    <3> QED BY <3>2, <3>3
  <2> QED BY <1>2, <1>3, <2>1, <2>2 DEF OnePlace
<1>18. InOrder'
  <2> SUFFICES ASSUME ~raced PROVE InOrder'
    BY <1>2 DEF InOrder
  <2>1. /\ Less(Elements(written[a]), HeldBy(r)) /\ IncreasingIn(r) /\ offline[a] = <<>>
        /\ Less(Elements(written[a]), Elements(offline[a]))
    BY <1>1 DEF InOrder
  <2>2. Increasing(all)
    <3>1. Less(Elements(Unsent(g)), Elements(offline[a])) /\ Increasing(offline[a])
      BY <2>1, EmptyQueue DEF Less
    <3> QED BY <1>4, <2>1, <3>1, Joined DEF all
  <2>3. Less(Elements(written[a]), Elements(offline'[a]))
    BY <1>5, <1>8, <2>1 DEF Less
  <2>4. ASSUME NEW b \in Agents
        PROVE  /\ Increasing(written[b]) /\ Increasing(offline'[b])
               /\ Less(Elements(written[b]), Elements(offline'[b]))
               /\ connections'[b] # NoGeneration => offline'[b] = <<>>
    BY <1>6, <1>7, <1>8, <2>2, <2>3 DEF InOrder
  <2>5. ASSUME NEW h \in Generations
        PROVE  /\ IncreasingIn(registrations'[h])
               /\ Less(Elements(written[registrations'[h].owner]), HeldBy(registrations'[h]))
    <3>1. CASE h = g
      BY <1>3, <3>1 DEF Less
    <3>2. CASE h # g
      BY <1>3, <3>2 DEF InOrder
    <3> QED BY <3>1, <3>2
  <2> QED BY <1>2, <1>3, <2>4, <2>5 DEF InOrder
<1> QED BY <1>11, <1>12, <1>13, <1>14, <1>15, <1>17, <1>18

\* register captures the offline queue as it enters the table.
LEMMA RegisterInv == ASSUME Inv, NEW a \in Agents, Register(a) PROVE Inv'
<1> USE DEF Inv
<1> DEFINE n == Len(registrations) + 1
           q == Registration(a, offline[a])
<1>1. /\ connections[a] = NoGeneration
      /\ connections' = [connections EXCEPT ![a] = n]
      /\ registrations' = Append(registrations, q)
      /\ offline' = [offline EXCEPT ![a] = <<>>]
      /\ UNCHANGED <<link, recipient, aborts, accepted, written, truncated, dropped, raced>>
  BY DEF Register, history
<1>2. registrations \in Seq(RegistrationType) /\ offline[a] \in Seq(Nat) /\ Len(offline[a]) <= OfflineDepth
  BY DEF TypeOK
<1>3. /\ q \in RegistrationType /\ q.owner = a /\ q.task = "serving" /\ q.hand = NoFrame
      /\ q.pending = offline[a] /\ q.channel = <<>>
  BY <1>2, EmptyQueue DEF Registration, RegistrationType, NoFrame
<1> HIDE DEF q
<1>4. /\ InHand(q) = {} /\ HeldBy(q) = Elements(offline[a])
      /\ Distinct(offline[a]) => DistinctIn(q)
      /\ Increasing(offline[a]) => IncreasingIn(q)
  BY <1>3, EmptyQueue DEF InHand, HeldBy, DistinctIn, IncreasingIn, Less
<1>5. /\ registrations' \in Seq(RegistrationType) /\ Generations' = Generations \cup {n}
      /\ registrations'[n] = q /\ n \in Nat /\ n # NoGeneration /\ n \notin Generations
      /\ \A h \in Generations : registrations'[h] = registrations[h]
  <2>1. Generations = 1..Len(registrations) /\ Len(registrations) \in Nat
    BY <1>2 DEF Generations
  <2>2. /\ registrations' \in Seq(RegistrationType) /\ Len(registrations') = n
        /\ \A h \in 1..Len(registrations) : registrations'[h] = registrations[h]
        /\ registrations'[n] = q
    BY <1>1, <1>2, <1>3, AppendProperties
  <2>3. Generations' = 1..n
    BY <2>2 DEF Generations
  <2> QED BY <2>1, <2>2, <2>3 DEF NoGeneration
<1> HIDE DEF n
<1>6. /\ connections' \in [Agents -> Nat] /\ connections'[a] = n
      /\ \A b \in Agents : b # a => connections'[b] = connections[b]
  BY <1>1, <1>5 DEF TypeOK
<1>7. /\ offline' \in [Agents -> Seq(Nat)] /\ offline'[a] = <<>>
      /\ \A b \in Agents : b # a => offline'[b] = offline[b]
  BY <1>1, EmptyQueue DEF TypeOK
<1>8. Elements(offline'[a]) = {} /\ Distinct(offline'[a]) /\ Increasing(offline'[a])
  BY <1>7, EmptyQueue
<1>9. TypeOK'
  <2>1. \A h \in Generations' : /\ Len(registrations'[h].channel) <= OnlineDepth
                                /\ Len(registrations'[h].pending) <= OfflineDepth
    <3>1. Len(q.channel) <= OnlineDepth
      BY <1>3, LimitAssumption
    <3> QED BY <1>2, <1>3, <1>5, <3>1 DEF TypeOK
  <2>2. \A b \in Agents : Len(offline'[b]) <= OfflineDepth
    <3>1. Len(offline'[a]) <= OfflineDepth
      BY <1>7, LimitAssumption
    <3> QED BY <1>7, <3>1 DEF TypeOK
  <2> QED BY <1>1, <1>5, <1>6, <1>7, <2>1, <2>2 DEF TypeOK
<1>10. TableOK'
  <2>1. ASSUME NEW b \in Agents, connections'[b] # NoGeneration
        PROVE  connections'[b] \in Generations' /\ registrations'[connections'[b]].owner = b
    BY <1>3, <1>5, <1>6, <2>1 DEF TableOK
  <2>2. ASSUME NEW h \in Generations'
        PROVE  IF registrations'[h].task = "ended"
               THEN Empty(registrations'[h])
               ELSE connections'[registrations'[h].owner] = h
    <3>1. CASE h = n
      BY <1>3, <1>5, <1>6, <3>1
    <3>2. CASE h \in Generations
      <4>1. registrations'[h] = registrations[h] /\ registrations[h].owner \in Agents /\ h # NoGeneration
        BY <1>5, <3>2, RegistrationOf
      <4> QED BY <1>1, <1>6, <3>2, <4>1 DEF TableOK
    <3> QED BY <1>5, <3>1, <3>2
  <2> QED BY <2>1, <2>2 DEF TableOK
<1>11. LeakOK'
  <2>1. Leaked' \subseteq Leaked
    <3> SUFFICES ASSUME NEW b \in Leaked'
                 PROVE  b \in Leaked
      OBVIOUS
    <3>1. b \in Agents /\ connections'[b] # NoGeneration /\ registrations'[connections'[b]].task = "ended"
      BY DEF Leaked, Connected
    <3>2. b # a
      BY <1>3, <1>5, <1>6, <3>1
    <3>3. connections'[b] = connections[b] /\ connections[b] \in Generations
      BY <1>6, <3>1, <3>2 DEF TableOK
    <3> QED BY <1>5, <3>1, <3>3 DEF Leaked, Connected
  <2> QED BY <1>1, <2>1, NoNewLeak
<1>12. RightPlace'
  <2>1. Taken' = Taken
    BY <1>1 DEF Taken
  <2>2. \A b \in Agents : \A d \in Elements(written[b]) \cup Elements(offline'[b]) :
            d \in Taken /\ recipient[d] = b
    BY <1>7, <1>8 DEF RightPlace
  <2>3. \A h \in Generations' : \A d \in HeldBy(registrations'[h]) :
            d \in Taken /\ recipient[d] = registrations'[h].owner
    BY <1>3, <1>4, <1>5 DEF RightPlace
  <2>4. (link # "idle" => Len(recipient) > 0) /\ accepted \subseteq Taken
    BY DEF RightPlace
  <2> QED BY <1>1, <2>1, <2>2, <2>3, <2>4 DEF RightPlace
<1>13. Accounted'
  <2> SUFFICES ASSUME NEW e \in accepted
               PROVE  \/ e \in Elements(offline'[recipient[e]])
                      \/ e \in Elements(written[recipient[e]])
                      \/ \E h \in Generations' : /\ registrations'[h].owner = recipient[e]
                                                 /\ e \in HeldBy(registrations'[h])
                      \/ e \in truncated \/ e \in dropped
    BY <1>1 DEF Accounted
  <2>1. recipient[e] \in Agents
    BY AcceptedRecipient
  <2>2. CASE e \in Elements(offline[recipient[e]])
    <3>1. CASE recipient[e] = a
      <4>1. n \in Generations' /\ registrations'[n].owner = recipient[e] /\ e \in HeldBy(registrations'[n])
        BY <1>3, <1>4, <1>5, <2>2, <3>1
      <4> QED BY <4>1
    <3>2. CASE recipient[e] # a
      BY <1>7, <2>1, <2>2, <3>2
    <3> QED BY <3>1, <3>2
  <2>3. CASE \E h \in Generations : /\ registrations[h].owner = recipient[e]
                                    /\ e \in HeldBy(registrations[h])
    BY <1>5, <2>3
  <2>4. CASE e \in Elements(written[recipient[e]]) \/ e \in truncated \/ e \in dropped
    BY <2>4
  <2> QED BY <2>2, <2>3, <2>4 DEF Accounted
<1>14. OnePlace'
  <2>1. ASSUME NEW b \in Agents
        PROVE  /\ Distinct(written[b]) /\ Distinct(offline'[b])
               /\ Elements(written[b]) \cap Elements(offline'[b]) = {}
    BY <1>7, <1>8 DEF OnePlace
  <2>2. ASSUME NEW h \in Generations'
        PROVE  /\ DistinctIn(registrations'[h])
               /\ HeldBy(registrations'[h]) \cap Elements(written[registrations'[h].owner]) = {}
               /\ HeldBy(registrations'[h]) \cap Elements(offline'[registrations'[h].owner]) = {}
    <3>1. CASE h = n
      <4>1. Distinct(offline[a]) /\ Elements(offline[a]) \cap Elements(written[a]) = {}
        BY DEF OnePlace
      <4>2. registrations'[h] = q
        BY <1>5, <3>1
      <4> QED BY <1>3, <1>4, <1>8, <4>1, <4>2
    <3>2. CASE h \in Generations
      <4>1. registrations'[h] = registrations[h] /\ registrations[h].owner \in Agents
        BY <1>5, <3>2, RegistrationOf
      <4>2. Elements(offline'[registrations[h].owner]) \subseteq Elements(offline[registrations[h].owner])
        BY <1>7, <1>8, <4>1
      <4> QED BY <3>2, <4>1, <4>2 DEF OnePlace
    <3> QED BY <1>5, <3>1, <3>2
  <2> QED BY <1>1, <2>1, <2>2 DEF OnePlace
<1>15. InOrder'
  <2> SUFFICES ASSUME ~raced PROVE InOrder'
    BY <1>1 DEF InOrder
  <2>1. ASSUME NEW b \in Agents
        PROVE  /\ Increasing(written[b]) /\ Increasing(offline'[b])
               /\ Less(Elements(written[b]), Elements(offline'[b]))
               /\ connections'[b] # NoGeneration => offline'[b] = <<>>
    BY <1>6, <1>7, <1>8 DEF InOrder, Less
  <2>2. ASSUME NEW h \in Generations'
        PROVE  /\ IncreasingIn(registrations'[h])
               /\ Less(Elements(written[registrations'[h].owner]), HeldBy(registrations'[h]))
    <3>1. CASE h = n
      BY <1>3, <1>4, <1>5, <3>1 DEF InOrder
    <3>2. CASE h \in Generations
      BY <1>5, <3>2 DEF InOrder
    <3> QED BY <1>5, <3>1, <3>2
  <2> QED BY <1>1, <2>1, <2>2 DEF InOrder
<1> QED BY <1>9, <1>10, <1>11, <1>12, <1>13, <1>14, <1>15

-----------------------------------------------------------------------------
(***************************************************************************)
(* The link task.                                                          *)
(***************************************************************************)
LEMMA CaDeliveryInv == ASSUME Inv, NEW a \in Agents, CaDelivery(a) PROVE Inv'
<1> USE DEF Inv
<1>1. /\ link = "idle" /\ link' = "routing" /\ recipient' = Append(recipient, a)
      /\ UNCHANGED <<connections, offline, registrations, aborts, accepted, written, truncated,
                     dropped, raced>>
  BY DEF CaDelivery, history
<1>2. /\ recipient' \in Seq(Agents) /\ Len(recipient') = Len(recipient) + 1
      /\ Len(recipient) \in Nat
      /\ \A d \in 1..Len(recipient) : recipient'[d] = recipient[d]
  BY <1>1, AppendProperties DEF TypeOK
<1>3. Taken' = Taken /\ Taken = 1..Len(recipient)
  BY <1>1, <1>2 DEF Taken
<1>4. TypeOK'
  BY <1>1, <1>2 DEF TypeOK, Generations
<1>5. TableOK' /\ LeakOK'
  BY <1>1 DEF TableOK, LeakOK, Leaked, Connected, Generations
<1>6. Len(recipient') > 0
  BY <1>2
<1>7. RightPlace'
  BY <1>1, <1>2, <1>3, <1>6 DEF RightPlace, Generations
<1>8. Accounted'
  <2>1. \A d \in accepted : recipient'[d] = recipient[d]
    BY <1>2, <1>3 DEF RightPlace
  <2> QED BY <1>1, <2>1 DEF Accounted, Generations
<1>9. OnePlace' /\ InOrder'
  BY <1>1 DEF OnePlace, InOrder, Generations
<1> QED BY <1>4, <1>5, <1>7, <1>8, <1>9

\* The delivery being routed is newer than every frame the router has taken.
LEMMA CurrentIsNew ==
    ASSUME Inv, link # "idle"
    PROVE  /\ Current \in Nat /\ Current # NoFrame /\ Addressee \in Agents
           /\ Taken \cup {Current} = 1..Len(recipient)
           /\ \A d \in Taken : d < Current /\ d # Current
<1>1. recipient \in Seq(Agents) /\ Len(recipient) > 0 /\ Len(recipient) \in Nat
  BY DEF Inv, RightPlace, TypeOK
<1>2. Current = Len(recipient) /\ Taken = 1..(Len(recipient) - 1)
  BY DEF Current, Taken
<1>3. recipient[Len(recipient)] \in Agents
  BY <1>1
<1> QED BY <1>1, <1>2, <1>3 DEF Addressee, NoFrame, Current

LEMMA RouteOnlineInv == ASSUME Inv, RouteOnline PROVE Inv'
<1> USE DEF Inv
<1> DEFINE a == Addressee
           g == connections[a]
           d == Current
           r == registrations[g]
           q == [r EXCEPT !.channel = Append(@, d)]
<1>1. /\ link = "routing" /\ link' = "idle" /\ a \in Connected /\ accepted' = accepted \cup {d}
      /\ r.task # "ended" /\ Len(r.channel) < OnlineDepth
      /\ UNCHANGED <<connections, offline, recipient, aborts, written, truncated, dropped, raced>>
  BY DEF RouteOnline
<1>2. a \in Agents /\ g \in Generations /\ r.owner = a /\ g # NoGeneration
  BY <1>1 DEF Connected, TableOK
<1>3. r \in RegistrationType /\ r.pending \in Seq(Nat) /\ r.channel \in Seq(Nat)
  BY <1>2, RegistrationOf
<1>4. /\ d \in Nat /\ d # NoFrame /\ Taken \cup {d} = 1..Len(recipient)
      /\ \A e \in Taken : e < d /\ e # d
  BY <1>1, CurrentIsNew
<1>5. registrations' = [registrations EXCEPT ![g] = q]
  BY <1>2 DEF RouteOnline, TypeOK, Generations
<1>6. recipient[d] = a
  BY DEF Addressee
<1> HIDE DEF a, d
<1>7. /\ Append(r.channel, d) \in Seq(Nat) /\ Len(Append(r.channel, d)) = Len(r.channel) + 1
      /\ Elements(Append(r.channel, d)) = Elements(r.channel) \cup {d}
      /\ Distinct(r.channel) /\ d \notin Elements(r.channel) => Distinct(Append(r.channel, d))
      /\ Increasing(r.channel) /\ Less(Elements(r.channel), {d}) => Increasing(Append(r.channel, d))
  BY <1>3, <1>4, Appended
<1>8. /\ q \in RegistrationType /\ q.owner = a /\ q.task = r.task /\ q.hand = r.hand
      /\ q.pending = r.pending /\ q.channel = Append(r.channel, d)
  BY <1>2, <1>3, <1>7 DEF RegistrationType
<1> HIDE DEF q
<1>9. /\ registrations' \in Seq(RegistrationType) /\ Generations' = Generations
      /\ registrations'[g] = q
      /\ \A h \in Generations : h # g => registrations'[h] = registrations[h]
  BY <1>2, <1>5, <1>8, RegistrationChange
<1>10. HeldBy(q) = HeldBy(r) \cup {d} /\ InHand(q) = InHand(r)
  BY <1>7, <1>8 DEF HeldBy, InHand
<1>11. /\ \A e \in HeldBy(r) : e \in Taken
       /\ \A b \in Agents : \A e \in Elements(written[b]) \cup Elements(offline[b]) : e \in Taken
  BY <1>2 DEF RightPlace
<1>12. InHand(r) \subseteq HeldBy(r) /\ Elements(r.pending) \subseteq HeldBy(r) /\ Elements(r.channel) \subseteq HeldBy(r)
  BY DEF HeldBy
<1>13. Less(HeldBy(r), {d}) /\ d \notin HeldBy(r)
  BY <1>4, <1>11 DEF Less
<1>14. \A b \in Agents : /\ Less(Elements(written[b]), {d})
                         /\ d \notin Elements(written[b]) /\ d \notin Elements(offline[b])
  BY <1>4, <1>11 DEF Less
<1>15. DistinctIn(q)
  <2>1. DistinctIn(r)
    BY <1>2 DEF OnePlace
  <2> QED BY <1>7, <1>8, <1>10, <1>12, <1>13, <2>1 DEF DistinctIn
<1>16. raced \/ IncreasingIn(q)
  <2>1. raced \/ IncreasingIn(r)
    BY <1>2 DEF InOrder
  <2> QED BY <1>7, <1>8, <1>10, <1>12, <1>13, <2>1 DEF IncreasingIn, Less
<1>17. TypeOK'
  <2>1. \A h \in Generations : /\ Len(registrations'[h].channel) <= OnlineDepth
                               /\ Len(registrations'[h].pending) <= OfflineDepth
    <3>1. Len(q.channel) <= OnlineDepth
      BY <1>1, <1>3, <1>7, <1>8, LimitAssumption
    <3>2. Len(q.pending) <= OfflineDepth
      BY <1>2, <1>8 DEF TypeOK
    <3> QED BY <1>9, <3>1, <3>2 DEF TypeOK
  <2>2. accepted' \subseteq Nat
    BY <1>1, <1>4 DEF TypeOK
  <2> QED BY <1>1, <1>9, <2>1, <2>2 DEF TypeOK
<1>18. \A h \in Generations : /\ registrations'[h].owner = registrations[h].owner
                              /\ registrations'[h].task = registrations[h].task
  BY <1>2, <1>8, <1>9
<1>19. TableOK'
  <2>1. \A h \in Generations : registrations[h].task = "ended" => registrations'[h] = registrations[h]
    BY <1>1, <1>9
  <2> QED BY <1>1, <1>9, <1>18, <2>1 DEF TableOK
<1>20. LeakOK'
  <2>1. Leaked' = Leaked
    BY <1>1, <1>18 DEF Leaked, Connected, TableOK
  <2> QED BY <1>1, <2>1, NoNewLeak
<1>21. Taken' = Taken \cup {d}
  BY <1>1, <1>4 DEF Taken
<1>22. RightPlace'
  <2>1. \A h \in Generations : \A e \in HeldBy(registrations'[h]) :
            e \in Taken' /\ recipient[e] = registrations'[h].owner
    BY <1>2, <1>6, <1>8, <1>9, <1>10, <1>21 DEF RightPlace
  <2>2. \A b \in Agents : \A e \in Elements(written[b]) \cup Elements(offline[b]) :
            e \in Taken' /\ recipient[e] = b
    BY <1>21 DEF RightPlace
  <2>3. accepted' \subseteq Taken'
    BY <1>1, <1>21 DEF RightPlace
  <2> QED BY <1>1, <1>9, <2>1, <2>2, <2>3 DEF RightPlace
<1>23. Accounted'
  <2>1. \A h \in Generations : HeldBy(registrations[h]) \subseteq HeldBy(registrations'[h])
    BY <1>9, <1>10
  <2>2. registrations'[g].owner = recipient[d] /\ d \in HeldBy(registrations'[g])
    BY <1>6, <1>8, <1>9, <1>10
  <2> QED BY <1>1, <1>2, <1>9, <1>18, <2>1, <2>2 DEF Accounted
<1>24. OnePlace'
  <2>1. ASSUME NEW h \in Generations
        PROVE  /\ DistinctIn(registrations'[h])
               /\ HeldBy(registrations'[h]) \cap Elements(written[registrations'[h].owner]) = {}
               /\ HeldBy(registrations'[h]) \cap Elements(offline[registrations'[h].owner]) = {}
    <3>1. CASE h = g
      <4>1. /\ HeldBy(r) \cap Elements(written[a]) = {}
            /\ HeldBy(r) \cap Elements(offline[a]) = {}
        BY <1>2 DEF OnePlace
      <4> QED BY <1>2, <1>8, <1>9, <1>10, <1>14, <1>15, <3>1, <4>1
    <3>2. CASE h # g
      BY <1>9, <3>2 DEF OnePlace
    <3> QED BY <3>1, <3>2
  <2> QED BY <1>1, <1>9, <2>1 DEF OnePlace
<1>25. InOrder'
  <2> SUFFICES ASSUME ~raced PROVE InOrder'
    BY <1>1 DEF InOrder
  <2>1. ASSUME NEW h \in Generations
        PROVE  /\ IncreasingIn(registrations'[h])
               /\ Less(Elements(written[registrations'[h].owner]), HeldBy(registrations'[h]))
    <3>1. CASE h = g
      <4>1. Less(Elements(written[a]), HeldBy(r))
        BY <1>2 DEF InOrder
      <4>2. Less(Elements(written[a]), HeldBy(q))
        BY <1>2, <1>10, <1>14, <4>1 DEF Less
      <4> QED BY <1>8, <1>9, <1>16, <3>1, <4>2
    <3>2. CASE h # g
      BY <1>9, <3>2 DEF InOrder
    <3> QED BY <3>1, <3>2
  <2> QED BY <1>1, <1>9, <2>1 DEF InOrder
<1> QED BY <1>17, <1>19, <1>20, <1>22, <1>23, <1>24, <1>25

\* An entry without a task is removed on the way.
LEMMA RouteOfflineInv == ASSUME Inv, RouteOffline PROVE Inv'
<1> USE DEF Inv
<1> DEFINE a == Addressee
<1>1. /\ link = "routing" /\ link' = "unlocked"
      /\ UNCHANGED <<offline, registrations, recipient, aborts, accepted, written, truncated,
                     dropped, raced>>
  BY DEF RouteOffline, history
<1>2. a \in Agents
  BY <1>1, CurrentIsNew
<1>3. /\ connections' \in [Agents -> Nat]
      /\ \A b \in Agents : \/ connections'[b] = connections[b]
                           \/ /\ connections'[b] = NoGeneration
                              /\ registrations[connections[b]].task = "ended"
  <2>1. CASE UNCHANGED connections
    BY <2>1 DEF TypeOK
  <2>2. CASE /\ registrations[connections[a]].task = "ended"
             /\ connections' = [connections EXCEPT ![a] = NoGeneration]
    BY <1>2, <2>2 DEF TypeOK, NoGeneration
  <2> QED BY <2>1, <2>2 DEF RouteOffline
<1>4. Generations' = Generations /\ Taken' = Taken
  BY <1>1 DEF Generations, Taken
<1>5. TypeOK'
  BY <1>1, <1>3, <1>4 DEF TypeOK
<1>6. TableOK'
  <2>1. \A b \in Agents : connections'[b] # NoGeneration => connections'[b] = connections[b]
    BY <1>3
  <2>2. ASSUME NEW h \in Generations, registrations[h].task # "ended"
        PROVE  connections'[registrations[h].owner] = h
    <3>1. connections[registrations[h].owner] = h /\ registrations[h].owner \in Agents
      BY <2>2, RegistrationOf DEF TableOK
    <3> QED BY <1>3, <2>2, <3>1
  <2> QED BY <1>1, <1>4, <2>1, <2>2 DEF TableOK
<1>7. LeakOK'
  <2>1. Leaked' \subseteq Leaked
    BY <1>1, <1>3 DEF Leaked, Connected
  <2> QED BY <1>1, <2>1, NoNewLeak
<1>8. RightPlace' /\ Accounted' /\ OnePlace'
  BY <1>1, <1>4 DEF RightPlace, Accounted, OnePlace
<1>9. InOrder'
  BY <1>1, <1>3, <1>4 DEF InOrder
<1> QED BY <1>5, <1>6, <1>7, <1>8, <1>9

\* The frame joins the offline queue behind everything the Agent has, unless the Agent
\* registered while the table was unlocked, which is the race.
LEMMA EnqueueInv == ASSUME Inv, Enqueue PROVE Inv'
<1> USE DEF Inv
<1> DEFINE a == Addressee
           d == Current
<1>1. /\ link = "unlocked" /\ link' = "idle" /\ Len(offline[a]) < OfflineDepth
      /\ offline' = [offline EXCEPT ![a] = Append(@, d)] /\ accepted' = accepted \cup {d}
      /\ raced' = (raced \/ a \in Connected)
      /\ UNCHANGED <<connections, registrations, recipient, aborts, written, truncated, dropped>>
  BY DEF Enqueue
<1>2. /\ d \in Nat /\ d # NoFrame /\ Taken \cup {d} = 1..Len(recipient) /\ a \in Agents
      /\ \A e \in Taken : e < d /\ e # d
  BY <1>1, CurrentIsNew
<1>3. recipient[d] = a
  BY DEF Addressee
<1> HIDE DEF a, d
<1>4. offline[a] \in Seq(Nat)
  BY <1>2 DEF TypeOK
<1>5. /\ offline'[a] = Append(offline[a], d)
      /\ \A b \in Agents : b # a => offline'[b] = offline[b]
  BY <1>1, <1>2 DEF TypeOK
<1>6. /\ \A b \in Agents : \A e \in Elements(written[b]) \cup Elements(offline[b]) : e \in Taken
      /\ \A h \in Generations : \A e \in HeldBy(registrations[h]) : e \in Taken
  BY DEF RightPlace
<1>7. /\ d \notin Elements(offline[a]) /\ Less(Elements(offline[a]), {d})
      /\ d \notin Elements(written[a]) /\ Less(Elements(written[a]), {d})
      /\ \A h \in Generations : d \notin HeldBy(registrations[h])
  BY <1>2, <1>6 DEF Less
<1>8. /\ offline'[a] \in Seq(Nat) /\ Len(offline'[a]) = Len(offline[a]) + 1
      /\ Elements(offline'[a]) = Elements(offline[a]) \cup {d}
      /\ Distinct(offline[a]) => Distinct(offline'[a])
      /\ Increasing(offline[a]) => Increasing(offline'[a])
  BY <1>2, <1>4, <1>5, <1>7, Appended
<1>9. Generations' = Generations /\ Taken' = Taken \cup {d}
  BY <1>1, <1>2 DEF Generations, Taken
<1>10. TypeOK'
  <2>1. offline' \in [Agents -> Seq(Nat)]
    BY <1>1, <1>5, <1>8 DEF TypeOK
  <2>2. \A b \in Agents : Len(offline'[b]) <= OfflineDepth
    <3>1. Len(offline'[a]) <= OfflineDepth
      BY <1>1, <1>4, <1>8, LimitAssumption
    <3> QED BY <1>5, <3>1 DEF TypeOK
  <2>3. accepted' \subseteq Nat
    BY <1>1, <1>2 DEF TypeOK
  <2>4. raced' \in BOOLEAN
    BY <1>1
  <2> QED BY <1>1, <1>9, <2>1, <2>2, <2>3, <2>4 DEF TypeOK
<1>11. TableOK' /\ LeakOK'
  BY <1>1, <1>9 DEF TableOK, LeakOK, Leaked, Connected
<1>12. RightPlace'
  <2>1. \A b \in Agents : \A e \in Elements(written[b]) \cup Elements(offline'[b]) :
            e \in Taken' /\ recipient[e] = b
    BY <1>3, <1>5, <1>8, <1>9 DEF RightPlace
  <2>2. \A h \in Generations : \A e \in HeldBy(registrations[h]) :
            e \in Taken' /\ recipient[e] = registrations[h].owner
    BY <1>9 DEF RightPlace
  <2>3. accepted' \subseteq Taken'
    BY <1>1, <1>9 DEF RightPlace
  <2> QED BY <1>1, <1>9, <2>1, <2>2, <2>3 DEF RightPlace
<1>13. Accounted'
  <2>1. \A b \in Agents : Elements(offline[b]) \subseteq Elements(offline'[b])
    BY <1>5, <1>8
  <2>2. d \in Elements(offline'[recipient[d]])
    BY <1>3, <1>8
  <2>3. \A e \in accepted : recipient[e] \in Agents
    BY AcceptedRecipient
  <2> QED BY <1>1, <1>9, <2>1, <2>2, <2>3 DEF Accounted
<1>14. OnePlace'
  <2>1. ASSUME NEW b \in Agents
        PROVE  /\ Distinct(written[b]) /\ Distinct(offline'[b])
               /\ Elements(written[b]) \cap Elements(offline'[b]) = {}
    BY <1>5, <1>7, <1>8 DEF OnePlace
  <2>2. ASSUME NEW h \in Generations
        PROVE  HeldBy(registrations[h]) \cap Elements(offline'[registrations[h].owner]) = {}
    <3>1. HeldBy(registrations[h]) \cap Elements(offline[registrations[h].owner]) = {}
      BY DEF OnePlace
    <3> QED BY <1>5, <1>7, <1>8, <3>1, RegistrationOf
  <2> QED BY <1>1, <1>9, <2>1, <2>2 DEF OnePlace
<1>15. InOrder'
  <2> SUFFICES ASSUME ~raced, a \notin Connected PROVE InOrder'
    BY <1>1 DEF InOrder
  <2>1. connections[a] = NoGeneration
    BY <1>2 DEF Connected
  <2>2. ASSUME NEW b \in Agents
        PROVE  /\ Increasing(written[b]) /\ Increasing(offline'[b])
               /\ Less(Elements(written[b]), Elements(offline'[b]))
               /\ connections[b] # NoGeneration => offline'[b] = <<>>
    <3>1. CASE b = a
      BY <1>7, <1>8, <2>1, <3>1 DEF InOrder, Less
    <3>2. CASE b # a
      BY <1>5, <3>2 DEF InOrder
    <3> QED BY <3>1, <3>2
  <2> QED BY <1>1, <1>9, <2>2 DEF InOrder
<1> QED BY <1>10, <1>11, <1>12, <1>13, <1>14, <1>15

\* A step that changes at most what the link task does with the delivery in hand.
LEMMA EnqueueRefusedInv ==
    ASSUME Inv, link' \in {"idle", "routing", "unlocked"}, link' = "idle" <=> link = "idle",
           UNCHANGED <<connections, offline, registrations, recipient, aborts, history>>
    PROVE  Inv'
<1> USE DEF Inv, history
<1>1. Generations' = Generations /\ Taken' = Taken
  BY DEF Generations, Taken
<1>2. TypeOK'
  BY <1>1 DEF TypeOK
<1>3. TableOK' /\ LeakOK'
  BY <1>1 DEF TableOK, LeakOK, Leaked, Connected
<1>4. RightPlace' /\ Accounted' /\ OnePlace' /\ InOrder'
  BY <1>1 DEF RightPlace, Accounted, OnePlace, InOrder
<1> QED BY <1>2, <1>3, <1>4

-----------------------------------------------------------------------------
(***************************************************************************)
(* The theorems.                                                           *)
(***************************************************************************)
LEMMA InitInv == ASSUME Init PROVE Inv
<1> USE DEF Init
<1>1. Generations = {} /\ registrations \in Seq(RegistrationType) /\ recipient \in Seq(Agents)
  BY DEF Generations
<1>2. TypeOK
  <2>1. \A a \in Agents : Len(offline[a]) <= OfflineDepth
    BY LimitAssumption
  <2>2. offline \in [Agents -> Seq(Nat)] /\ written \in [Agents -> Seq(Nat)]
    BY EmptyQueue
  <2> QED BY <1>1, <2>1, <2>2 DEF TypeOK, NoGeneration
<1>3. TableOK
  BY <1>1 DEF TableOK
<1>4. LeakOK
  <2>1. Leaked = {}
    BY DEF Leaked, Connected
  <2> QED BY <2>1, FS_EmptySet DEF LeakOK
<1>5. RightPlace
  BY <1>1, EmptyQueue DEF RightPlace
<1>6. Accounted
  BY DEF Accounted
<1>7. OnePlace /\ InOrder
  BY <1>1, EmptyQueue DEF OnePlace, InOrder, Less
<1> QED BY <1>2, <1>3, <1>4, <1>5, <1>6, <1>7 DEF Inv

LEMMA NextInv == ASSUME Inv, [Next]_vars PROVE Inv'
<1>1. CASE \E a \in Agents : Register(a) \/ CaDelivery(a)
  BY <1>1, RegisterInv, CaDeliveryInv
<1>2. CASE \E g \in Generations : TaskStep(g)
  BY <1>2, TakeFrameInv, WriteOkInv, DisconnectInv DEF TaskStep
<1>3. CASE \E g \in Generations : Leave(g) \/ Abort(g)
  BY <1>3, LeaveInv, AbortInv
<1>4. CASE RouteOnline \/ RouteOffline \/ Enqueue
  BY <1>4, RouteOnlineInv, RouteOfflineInv, EnqueueInv
<1>5. CASE EnqueueRefused
  BY <1>5, EnqueueRefusedInv DEF EnqueueRefused
<1>6. CASE UNCHANGED vars
  BY <1>6, EnqueueRefusedInv DEF vars, Inv, TypeOK
<1> QED BY <1>1, <1>2, <1>3, <1>4, <1>5, <1>6 DEF Next, LinkStep

LEMMA AlwaysInv == Spec => []Inv
<1>1. Init => Inv
  BY InitInv
<1>2. Inv /\ [Next]_vars => Inv'
  BY NextInv
<1> QED BY <1>1, <1>2, PTL DEF Spec

LEMMA HeldFrames ==
    ASSUME Inv, NEW a \in Agents, NEW d
    PROVE  d \in Held(a) <=> \/ d \in Elements(offline[a])
                             \/ \E g \in Generations : /\ registrations[g].owner = a
                                                       /\ d \in HeldBy(registrations[g])
<1>1. \A g \in Generations : Elements(Unsent(g)) = HeldBy(registrations[g])
  BY UnsentFrames DEF Inv
<1> QED BY <1>1 DEF Held

\* The state keeps its shape, and neither the channel of a connection nor an offline
\* queue outgrows its configured depth (try_send, enqueue and prepend).
THEOREM TypeCorrect == Spec => []TypeOK
<1>1. Inv => TypeOK
  BY DEF Inv
<1> QED BY <1>1, AlwaysInv, PTL

\* Only a task that died has dropped frames: no cleanup finds its connection replaced.
DropsByDeath == dropped # {} => aborts > 0

LEMMA DropsNext == Inv /\ DropsByDeath /\ [Next]_vars => DropsByDeath'
<1> SUFFICES ASSUME Inv, DropsByDeath, [Next]_vars PROVE DropsByDeath'
  OBVIOUS
<1>1. aborts \in Nat BY DEF Inv, TypeOK
<1>2. ASSUME NEW g \in Generations, DisconnectAndRequeue(g) PROVE DropsByDeath'
  <2>1. connections[registrations[g].owner] = g
    BY <1>2 DEF Inv, TableOK, DisconnectAndRequeue
  <2>2. UNCHANGED <<dropped, aborts>> BY <1>2, <2>1 DEF DisconnectAndRequeue
  <2> QED BY <2>2 DEF DropsByDeath
<1>3. ASSUME NEW g \in Generations, Abort(g) PROVE DropsByDeath'
  <2>1. aborts' = aborts + 1 BY <1>3 DEF Abort
  <2> QED BY <1>1, <2>1 DEF DropsByDeath
<1>4. ASSUME UNCHANGED <<dropped, aborts>> PROVE DropsByDeath' BY <1>4 DEF DropsByDeath
<1>5. ASSUME NEW g \in Generations, TakeFrame(g) \/ WriteOk(g) \/ Leave(g) PROVE DropsByDeath'
  BY <1>4, <1>5 DEF TakeFrame, WriteOk, Leave, history
<1>6. ASSUME NEW a \in Agents, Register(a) \/ CaDelivery(a) PROVE DropsByDeath'
  BY <1>4, <1>6 DEF Register, CaDelivery, history
<1>7. ASSUME LinkStep PROVE DropsByDeath'
  BY <1>4, <1>7 DEF LinkStep, RouteOnline, RouteOffline, Enqueue, EnqueueRefused, history
<1>8. CASE UNCHANGED vars BY <1>4, <1>8 DEF vars, history
<1> QED BY <1>2, <1>3, <1>5, <1>6, <1>7, <1>8 DEF Next, TaskStep

\* What route_ca_delivery took is written or held for its Agent, unless a requeue cut it off or
\* the task that held it died: no interleaving of the tasks loses another.
THEOREM KeptOrCut == Spec => []KeptUnlessOverflow
<1>1. Inv /\ DropsByDeath => KeptUnlessOverflow
  <2> SUFFICES ASSUME Inv, DropsByDeath, NEW d \in accepted
               PROVE  \/ d \in Held(recipient[d]) \cup Elements(written[recipient[d]])
                                   \cup truncated
                      \/ d \in dropped /\ aborts > 0
    BY DEF KeptUnlessOverflow
  <2>1. recipient[d] \in Agents
    BY AcceptedRecipient
  <2>2. d \in dropped => aborts > 0 BY DEF DropsByDeath
  <2> QED BY <2>1, <2>2, HeldFrames DEF Inv, Accounted
<1>2. Init => DropsByDeath BY DEF Init, DropsByDeath
<1> QED BY <1>1, <1>2, DropsNext, AlwaysInv, PTL DEF Spec

\* No delivery is written twice, or written and still queued, however often an Agent
\* reconnects and whatever its tasks put back.
THEOREM NothingTwice == Spec => []NeverDuplicated
<1>1. Inv => NeverDuplicated
  <2> SUFFICES ASSUME Inv, NEW a \in Agents
               PROVE  /\ \A i, j \in DOMAIN written[a] : written[a][i] = written[a][j] => i = j
                      /\ Held(a) \cap Elements(written[a]) = {}
    BY DEF NeverDuplicated
  <2>1. Distinct(written[a])
    BY DEF Inv, OnePlace
  <2>2. ASSUME NEW d \in Held(a), d \in Elements(written[a])
        PROVE  FALSE
    BY <2>2, HeldFrames DEF Inv, OnePlace
  <2> QED BY <2>1, <2>2 DEF Distinct
<1> QED BY <1>1, AlwaysInv, PTL

\* Every Agent reads its deliveries in the order the router took them, unless an Agent
\* registered between the two critical sections of route_ca_delivery: there is no other
\* way to lose the order.
THEOREM FifoOrRaced == Spec => []FifoUnlessRaced
<1>1. Inv => FifoUnlessRaced
  BY DEF Inv, InOrder, FifoUnlessRaced, PerAgentFifo
<1> QED BY <1>1, AlwaysInv, PTL

\* The table names the task of every registration in use, so no Agent has two writers,
\* and it holds no more entries without a task than tasks have died.
THEOREM TableMatchesTasks == Spec => []TableFollowsTasks
<1>1. Inv => TableFollowsTasks
  BY DEF Inv, TableOK, LeakOK, Leaked, TableFollowsTasks
<1> QED BY <1>1, AlwaysInv, PTL
=============================================================================
