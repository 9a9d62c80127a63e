------------------------- MODULE AgentClientProofs --------------------------
(***************************************************************************)
(* Proofs about AgentClient, for every capacity and time to live of the    *)
(* replay cache, any set of connections and programs, and any bound.       *)
(***************************************************************************)
EXTENDS AgentClient, SequenceTheorems, FiniteSetTheorems, WellFoundedInduction,
        TLAPS

-----------------------------------------------------------------------------
(***************************************************************************)
(* The operators of the connection and of the cache.                       *)
(***************************************************************************)
\* What remains in flight when an end closes is a sequence of the same frames.
LEMMA PrefixType ==
    ASSUME NEW S, NEW s \in Seq(S), NEW p \in Prefixes(s)
    PROVE  p \in Seq(S)
<1>1. PICK n \in 0..Len(s) : p = SubSeq(s, 1, n)
  BY DEF Prefixes
<1>2. \A i \in 1..n : s[i] \in S
  BY <1>1
<1> QED BY <1>1, <1>2, SubSeqProperties

\* The values of a link that the actions build.
LEMMA LinkTypes ==
    /\ Closed \in Links /\ Accepted \in Links
    /\ \A l \in Links : \A up \in Seq(Frames) : AgentCloses(l, up) \in Links
    /\ \A l \in Links : \A down \in Seq(Deliveries) : BrokerCloses(l, down) \in Links
<1>1. Closed \in Links
  BY DEF Closed, Links
<1>2. Accepted \in Links
  <2>1. Hello \in Frames BY DEF Hello, Frames
  <2>2. <<Hello>> \in Seq(Frames) BY <2>1
  <2> QED BY <2>2 DEF Accepted, Links
<1>3. ASSUME NEW l \in Links, NEW up \in Seq(Frames) PROVE AgentCloses(l, up) \in Links
  <2>1. CASE l.broker = "closed" BY <1>1, <2>1 DEF AgentCloses
  <2>2. CASE l.broker # "closed"
    <3>1. AgentCloses(l, up) = [agent |-> "closed", broker |-> l.broker, up |-> up, down |-> <<>>]
      BY <2>2 DEF AgentCloses, Links
    <3>2. l.broker \in {"closed", "hello", "serving"} /\ <<>> \in Seq(Deliveries)
      BY DEF Links
    <3> QED BY <3>1, <3>2 DEF Links
  <2> QED BY <2>1, <2>2
<1>4. ASSUME NEW l \in Links, NEW down \in Seq(Deliveries) PROVE BrokerCloses(l, down) \in Links
  <2>1. CASE l.agent = "closed" BY <1>1, <2>1 DEF BrokerCloses
  <2>2. CASE l.agent # "closed"
    <3>1. BrokerCloses(l, down) =
             [agent |-> l.agent, broker |-> "closed", up |-> <<>>, down |-> down]
      BY <2>2 DEF BrokerCloses, Links
    <3>2. l.agent \in {"closed", "open"} /\ <<>> \in Seq(Frames)
      BY DEF Links
    <3> QED BY <3>1, <3>2 DEF Links
  <2> QED BY <2>1, <2>2
<1> QED BY <1>1, <1>2, <1>3, <1>4

\* Purging keeps exactly the entries that have not expired.
LEMMA PurgedType ==
    ASSUME NEW c \in [Slots -> Entries], NEW t \in Nat
    PROVE  /\ Purged(c, t) \in [Slots -> Entries]
           /\ \A i \in Slots : Purged(c, t)[i] = IF c[i].expires <= t THEN Vacant ELSE c[i]
           /\ \A i \in Slots : Purged(c, t)[i] = Vacant <=> c[i].expires <= t
BY DEF Purged, Entries, Vacant

\* check_and_mark purges; when it returns Ok it also fills one slot that was vacant.
LEMMA CheckAndMarkType ==
    ASSUME NEW c \in [Slots -> Entries], NEW t \in Nat, NEW s \in Nat
    PROVE  /\ CheckAndMark(c, s, t) \in [Slots -> Entries]
           /\ ~MayMark(c, s, t) => CheckAndMark(c, s, t) = Purged(c, t)
           /\ MayMark(c, s, t) =>
                /\ \A i \in Slots : c[i].expires > t => c[i].session # s
                /\ \E k \in Slots :
                     /\ c[k].expires <= t
                     /\ \A i \in Slots :
                          CheckAndMark(c, s, t)[i] =
                             IF i = k THEN [session |-> s, expires |-> t + Ttl]
                             ELSE Purged(c, t)[i]
<1> DEFINE live == Purged(c, t)
           k == FirstVacant(live)
<1>1. /\ live \in [Slots -> Entries]
      /\ \A i \in Slots : live[i] = IF c[i].expires <= t THEN Vacant ELSE c[i]
      /\ \A i \in Slots : live[i] = Vacant <=> c[i].expires <= t
  BY PurgedType
<1>2. CASE ~MayMark(c, s, t)
  BY <1>1, <1>2 DEF CheckAndMark
<1>3. CASE MayMark(c, s, t)
  <2>1. ~Holds(live, s) /\ VacantSlots(live) # {}
    BY <1>3 DEF MayMark
  <2>2. \A i \in Slots : c[i].expires > t => c[i].session # s
    <3> SUFFICES ASSUME NEW i \in Slots, c[i].expires > t, c[i].session = s PROVE FALSE
      OBVIOUS
    <3>1. c[i].expires \in Nat BY DEF Entries
    <3>2. live[i] # Vacant /\ live[i] = c[i] BY <1>1, <3>1
    <3> QED BY <2>1, <3>2 DEF Holds
  <2>3. k \in VacantSlots(live)
    <3>1. VacantSlots(live) \subseteq Nat BY DEF VacantSlots, Slots
    <3>2. \E i \in VacantSlots(live) : \A j \in VacantSlots(live) : i <= j
      <4> DEFINE less == OpToRel(<, Nat)
      <4>1. \A i, j \in Nat : i < j => <<i, j>> \in less BY DEF OpToRel
      <4>2. IsWellFoundedOn(less, Nat) BY NatLessThanWellFounded
      <4> HIDE DEF less
      <4>3. PICK i \in VacantSlots(live) : \A j \in VacantSlots(live) : ~(<<j, i>> \in less)
        BY <2>1, <3>1, <4>2, WFMin
      <4>4. ASSUME NEW j \in VacantSlots(live) PROVE i <= j
        <5>1. i \in Nat /\ j \in Nat BY <3>1
        <5>2. ~(<<j, i>> \in less) BY <4>3
        <5>3. ~(j < i) BY <4>1, <5>1, <5>2
        <5> QED BY <5>1, <5>3
      <4> QED BY <4>4
    <3> QED BY <3>2 DEF FirstVacant
  <2>4. k \in Slots /\ c[k].expires <= t
    BY <1>1, <2>3 DEF VacantSlots
  <2> HIDE DEF live, k
  <2>5. CheckAndMark(c, s, t) = [live EXCEPT ![k] = [session |-> s, expires |-> t + Ttl]]
    BY <1>3 DEF CheckAndMark, live, k
  <2>6. [session |-> s, expires |-> t + Ttl] \in Entries
    BY CacheAssumption DEF Entries
  <2>7. CheckAndMark(c, s, t) \in [Slots -> Entries]
    BY <1>1, <2>4, <2>5, <2>6
  <2>8. \A i \in Slots : CheckAndMark(c, s, t)[i] =
                             IF i = k THEN [session |-> s, expires |-> t + Ttl] ELSE live[i]
    BY <1>1, <2>4, <2>5
  <2> QED BY <1>3, <2>2, <2>4, <2>7, <2>8 DEF live
<1> QED BY <1>2, <1>3

-----------------------------------------------------------------------------
(***************************************************************************)
(* Types.                                                                  *)
(***************************************************************************)
\* Replacing the record of one connection, or one of its fields, keeps the type.
LEMMA LinkUpdates ==
    ASSUME LinkOK, NEW c \in Connections
    PROVE  /\ link[c] \in Links /\ link[c].up \in Seq(Frames) /\ link[c].down \in Seq(Deliveries)
           /\ \A l \in Links : [link EXCEPT ![c] = l] \in [Connections -> Links]
           /\ \A up \in Seq(Frames) : /\ [link[c] EXCEPT !.up = up] \in Links
                                     /\ [link EXCEPT ![c].up = up] \in [Connections -> Links]
           /\ \A down \in Seq(Deliveries) : [link EXCEPT ![c].down = down] \in [Connections -> Links]
           /\ \A up \in Seq(Frames) :
                 [link EXCEPT ![c].broker = "serving", ![c].up = up] \in [Connections -> Links]
<1>1. /\ link \in [Connections -> Links] /\ link[c] \in Links
      /\ link[c].up \in Seq(Frames) /\ link[c].down \in Seq(Deliveries)
  BY DEF LinkOK, Links
<1>2. \A l \in Links : [link EXCEPT ![c] = l] \in [Connections -> Links]
  BY <1>1
<1>3. ASSUME NEW up \in Seq(Frames) PROVE [link[c] EXCEPT !.up = up] \in Links
  BY <1>1 DEF Links
<1>4. ASSUME NEW down \in Seq(Deliveries) PROVE [link[c] EXCEPT !.down = down] \in Links
  BY <1>1 DEF Links
<1>5. ASSUME NEW up \in Seq(Frames)
      PROVE  [link[c] EXCEPT !.broker = "serving", !.up = up] \in Links
  BY <1>1 DEF Links
<1>6. ASSUME NEW up \in Seq(Frames) PROVE [link EXCEPT ![c].up = up] \in [Connections -> Links]
  BY <1>1, <1>2, <1>3
<1>7. ASSUME NEW down \in Seq(Deliveries)
      PROVE  [link EXCEPT ![c].down = down] \in [Connections -> Links]
  BY <1>1, <1>2, <1>4
<1>8. ASSUME NEW up \in Seq(Frames)
      PROVE  [link EXCEPT ![c].broker = "serving", ![c].up = up] \in [Connections -> Links]
  BY <1>1, <1>2, <1>5
<1> QED BY <1>1, <1>2, <1>3, <1>6, <1>7, <1>8

\* The two sequences of a link, when a frame is taken from or added to them.
LEMMA LinkSequences ==
    ASSUME LinkOK, NEW c \in Connections
    PROVE  /\ link[c].up # <<>> =>
                 Head(link[c].up) \in Frames /\ Tail(link[c].up) \in Seq(Frames)
           /\ link[c].down # <<>> =>
                 Head(link[c].down) \in Deliveries /\ Tail(link[c].down) \in Seq(Deliveries)
           /\ \A r \in Frames : Append(link[c].up, r) \in Seq(Frames)
           /\ \A d \in Deliveries : Append(link[c].down, d) \in Seq(Deliveries)
<1>1. link[c].up \in Seq(Frames) /\ link[c].down \in Seq(Deliveries)
  BY LinkUpdates
<1> DEFINE up == link[c].up
           down == link[c].down
<1> HIDE DEF up, down
<1>2. up \in Seq(Frames) /\ down \in Seq(Deliveries) BY <1>1 DEF up, down
<1>3. up # <<>> => Head(up) \in Frames /\ Tail(up) \in Seq(Frames) BY <1>2
<1>4. down # <<>> => Head(down) \in Deliveries /\ Tail(down) \in Seq(Deliveries) BY <1>2
<1>5. \A r \in Frames : Append(up, r) \in Seq(Frames) BY <1>2
<1>6. \A d \in Deliveries : Append(down, d) \in Seq(Deliveries) BY <1>2
<1> QED BY <1>3, <1>4, <1>5, <1>6 DEF up, down

\* An end that closes leaves a link of the right type, whatever prefix it leaves.
LEMMA ClosingType ==
    ASSUME LinkOK, NEW c \in Connections
    PROVE  /\ \A up \in Prefixes(link[c].up) :
                 [link EXCEPT ![c] = AgentCloses(link[c], up)] \in [Connections -> Links]
           /\ \A down \in Seq(Deliveries) :
                 [link EXCEPT ![c] = BrokerCloses(link[c], down)] \in [Connections -> Links]
<1>1. ASSUME NEW up \in Prefixes(link[c].up)
      PROVE  [link EXCEPT ![c] = AgentCloses(link[c], up)] \in [Connections -> Links]
  <2>1. up \in Seq(Frames) BY LinkUpdates, PrefixType
  <2>2. AgentCloses(link[c], up) \in Links BY <2>1, LinkUpdates, LinkTypes
  <2> QED BY <2>2, LinkUpdates
<1>2. ASSUME NEW down \in Seq(Deliveries)
      PROVE  [link EXCEPT ![c] = BrokerCloses(link[c], down)] \in [Connections -> Links]
  <2>1. BrokerCloses(link[c], down) \in Links BY LinkUpdates, LinkTypes
  <2> QED BY <2>1, LinkUpdates
<1> QED BY <1>1, <1>2

\* What goes back to the offline queue fits it.
LEMMA RequeuedType ==
    ASSUME NEW frames \in Seq(Deliveries), NEW queue \in Seq(Deliveries)
    PROVE  /\ Requeued(frames, queue) \in Seq(Deliveries)
           /\ Len(Requeued(frames, queue)) <= OfflineDepth
<1> DEFINE all == frames \o queue
           n == IF Len(all) > OfflineDepth THEN OfflineDepth ELSE Len(all)
<1>1. all \in Seq(Deliveries) OBVIOUS
<1>2. Requeued(frames, queue) = SubSeq(all, 1, n) BY DEF Requeued
<1> HIDE DEF all
<1>3. n \in 0..Len(all) /\ n <= OfflineDepth BY <1>1, DepthAssumption
<1> HIDE DEF n
<1>4. SubSeq(all, 1, n) \in Seq(Deliveries) /\ Len(SubSeq(all, 1, n)) = n BY <1>1, <1>3
<1> QED BY <1>2, <1>3, <1>4

\* The end of a connection task, with any deliveries left in flight.
LEMMA LeavesType ==
    ASSUME LinkOK, BrokerOK, NEW c \in Connections, NEW down \in Seq(Deliveries), Leaves(c, down)
    PROVE  LinkOK' /\ BrokerOK'
<1>1. LinkOK' BY ClosingType DEF Leaves, LinkOK
<1>2. UNCHANGED <<routing, unlocked, subscription, delivered>> BY DEF Leaves
<1>3. CASE registered = c
  <2>1. /\ registered' = NoConnection /\ held' = <<>> /\ offline' = Requeued(held, offline)
    BY <1>3 DEF Leaves
  <2>2. offline' \in Seq(Deliveries) /\ Len(offline') <= OfflineDepth
    BY <2>1, RequeuedType DEF BrokerOK
  <2>3. held' \in Seq(Deliveries) BY <2>1
  <2> QED BY <1>1, <1>2, <2>1, <2>2, <2>3 DEF BrokerOK
<1>4. CASE registered # c
  <2>1. UNCHANGED <<registered, held, offline>> BY <1>4 DEF Leaves
  <2> QED BY <1>1, <1>2, <2>1 DEF BrokerOK
<1> QED BY <1>3, <1>4

\* The initial state has its type.
LEMMA TypeInit ==
    ASSUME Init PROVE TypeOK
<1>1. AgentOK
  <2>1. Request("environment", 1) \in Frames /\ Request("subscribe", 2) \in Frames
    BY DEF Request, Frames
  <2>2. <<Request("environment", 1), Request("subscribe", 2)>> \in Seq(Frames)
    BY <2>1
  <2>3. outbox \in Seq(Frames) /\ built \in Nat
    BY <2>2 DEF Init
  <2> QED BY <2>3 DEF Init, AgentOK
<1>2. CacheOK
  <2>1. Vacant \in Entries BY DEF Vacant, Entries
  <2> QED BY <2>1 DEF Init, CacheOK
<1>3. LinkOK
  BY LinkTypes DEF Init, LinkOK
<1>4. BrokerOK
  <2>1. held \in Seq(Deliveries) /\ offline \in Seq(Deliveries) /\ Len(offline) <= OfflineDepth
    BY DepthAssumption DEF Init
  <2>2. /\ registered = NoConnection /\ routing = NoDelivery /\ unlocked = FALSE
        /\ subscription = 0 /\ delivered = 0
    BY DEF Init
  <2>3. delivered \in 0..MaxDeliveries BY <2>2, BoundAssumption
  <2> QED BY <2>1, <2>2, <2>3 DEF BrokerOK
<1>5. HistoryOK
  <2>1. failures \in Nat /\ taken \in Seq(Nat) BY DEF Init
  <2>2. applied \subseteq Frames /\ handed \in Nat /\ contended \in BOOLEAN BY DEF Init
  <2> QED BY <2>1, <2>2 DEF HistoryOK
<1> QED BY <1>1, <1>2, <1>3, <1>4, <1>5 DEF TypeOK

\* Every step keeps the type.
LEMMA TypeNext ==
    ASSUME TypeOK, [Next]_vars PROVE TypeOK'
<1> USE DEF TypeOK
<1>0. CASE UNCHANGED vars
  BY <1>0 DEF vars, agentVars, brokerVars, history, AgentOK, CacheOK, LinkOK, BrokerOK, HistoryOK
<1>1. ASSUME PublishLine PROVE TypeOK'
  <2>1. AgentOK'
    <3>1. /\ Request("environment", built + 1) \in Frames
          /\ Request("publish", built + 2) \in Frames
      BY DEF Request, Frames, AgentOK
    <3>2. <<Request("environment", built + 1), Request("publish", built + 2)>> \in Seq(Frames)
      BY <3>1
    <3>3. outbox' \in Seq(Frames) /\ built' \in Nat
      BY <1>1, <3>2 DEF PublishLine, AgentOK
    <3> QED BY <1>1, <3>3 DEF PublishLine, AgentOK
  <2>2. CacheOK' BY <1>1 DEF PublishLine, CacheOK, agentVars, brokerVars, history
  <2>3. LinkOK' BY <1>1 DEF PublishLine, LinkOK, agentVars, brokerVars, history
  <2>4. BrokerOK' BY <1>1 DEF PublishLine, BrokerOK, agentVars, brokerVars, history
  <2>5. HistoryOK' BY <1>1 DEF PublishLine, HistoryOK, agentVars, brokerVars, history
  <2> QED BY <2>1, <2>2, <2>3, <2>4, <2>5
<1>2. ASSUME PublishWhileWaiting PROVE TypeOK'
  <2>1. AgentOK'
    <3>1. Request("publish", built + 1) \in Frames
      BY DEF Request, Frames, AgentOK
    <3>2. <<Request("publish", built + 1)>> \in Seq(Frames) BY <3>1
    <3>3. <<Request("publish", built + 1)>> # <<>> OBVIOUS
    <3> QED BY <1>2, <3>2, <3>3 DEF PublishWhileWaiting, AgentOK
  <2>2. CacheOK' BY <1>2 DEF PublishWhileWaiting, CacheOK, agentVars, brokerVars, history
  <2>3. LinkOK' BY <1>2 DEF PublishWhileWaiting, LinkOK, agentVars, brokerVars, history
  <2>4. BrokerOK' BY <1>2 DEF PublishWhileWaiting, BrokerOK, agentVars, brokerVars, history
  <2>5. HistoryOK' BY <1>2 DEF PublishWhileWaiting, HistoryOK, agentVars, brokerVars, history
  <2> QED BY <2>1, <2>2, <2>3, <2>4, <2>5
<1>3. ASSUME NEW c \in Connections, Open(c) PROVE TypeOK'
  <2>1. AgentOK' BY <1>3 DEF Open, AgentOK, agentVars, brokerVars, history
  <2>2. CacheOK' BY <1>3 DEF Open, CacheOK, agentVars, brokerVars, history
  <2>3. LinkOK' BY <1>3, LinkTypes, LinkUpdates DEF Open, LinkOK
  <2>4. BrokerOK' BY <1>3 DEF Open, BrokerOK, agentVars, brokerVars, history
  <2>5. HistoryOK' BY <1>3 DEF Open, HistoryOK, agentVars, brokerVars, history
  <2> QED BY <2>1, <2>2, <2>3, <2>4, <2>5
<1>4. ASSUME HelloFails PROVE TypeOK'
  <2>0. opening \in Connections BY <1>4 DEF HelloFails, AgentOK
  <2>1. AgentOK' BY <1>4 DEF HelloFails, AgentOK, agentVars, brokerVars, history
  <2>2. CacheOK' BY <1>4 DEF HelloFails, CacheOK, agentVars, brokerVars, history
  <2>3. LinkOK' BY <1>4, <2>0, ClosingType DEF HelloFails, LinkOK
  <2>4. BrokerOK' BY <1>4 DEF HelloFails, BrokerOK, agentVars, brokerVars, history
  <2>5. HistoryOK' BY <1>4 DEF HelloFails, Failure, HistoryOK, history
  <2> QED BY <2>1, <2>2, <2>3, <2>4, <2>5
<1>5. ASSUME Adopt PROVE TypeOK'
  <2>1. AgentOK' BY <1>5 DEF Adopt, AgentOK, agentVars, brokerVars, history
  <2>2. CacheOK' BY <1>5 DEF Adopt, CacheOK, agentVars, brokerVars, history
  <2>3. LinkOK'
    <3>1. CASE transport = NoConnection BY <1>5, <3>1 DEF Adopt, LinkOK
    <3>2. CASE transport # NoConnection
      <4>1. transport \in Connections BY <3>2 DEF AgentOK
      <4> QED BY <1>5, <3>2, <4>1, ClosingType DEF Adopt, LinkOK
    <3> QED BY <3>1, <3>2
  <2>4. BrokerOK' BY <1>5 DEF Adopt, BrokerOK, agentVars, brokerVars, history
  <2>5. HistoryOK' BY <1>5 DEF Adopt, HistoryOK, agentVars, brokerVars, history
  <2> QED BY <2>1, <2>2, <2>3, <2>4, <2>5
<1>6. ASSUME SendOk PROVE TypeOK'
  <2>1. AgentOK' BY <1>6 DEF SendOk, AgentOK, agentVars, brokerVars, history
  <2>2. CacheOK' BY <1>6 DEF SendOk, CacheOK, agentVars, brokerVars, history
  <2>3. LinkOK'
    <3> DEFINE sent == IF BrokerOpen(transport)
                       THEN [link[transport] EXCEPT !.up = Append(@, Head(outbox))]
                       ELSE link[transport]
               leaves == role = "publisher" /\ Tail(outbox) = <<>>
    <3>1. transport \in Connections /\ outbox \in Seq(Frames) /\ outbox # <<>>
      BY <1>6 DEF SendOk, AgentOK
    <3>2. Head(outbox) \in Frames BY <3>1
    <3>3. Append(link[transport].up, Head(outbox)) \in Seq(Frames) BY <3>1, <3>2, LinkSequences
    <3>4. sent \in Links BY <3>1, <3>3, LinkUpdates
    <3>5. sent.up \in Seq(Frames) BY <3>4 DEF Links
    <3>6. PICK up \in (IF leaves THEN Prefixes(sent.up) ELSE {sent.up}) :
             link' = [link EXCEPT ![transport] = IF leaves THEN AgentCloses(sent, up) ELSE sent]
      BY <1>6 DEF SendOk
    <3> HIDE DEF sent, leaves
    <3>7. up \in Seq(Frames) BY <3>5, <3>6, PrefixType
    <3>8. (IF leaves THEN AgentCloses(sent, up) ELSE sent) \in Links
      BY <3>4, <3>7, LinkTypes
    <3> QED BY <3>1, <3>6, <3>8, LinkUpdates DEF LinkOK
  <2>4. BrokerOK' BY <1>6 DEF SendOk, BrokerOK, agentVars, brokerVars, history
  <2>5. HistoryOK' BY <1>6 DEF SendOk, HistoryOK, agentVars, brokerVars, history
  <2> QED BY <2>1, <2>2, <2>3, <2>4, <2>5
<1>7. ASSUME SendFails PROVE TypeOK'
  <2>1. AgentOK' BY <1>7 DEF SendFails, AgentOK, agentVars, brokerVars, history
  <2>2. CacheOK' BY <1>7 DEF SendFails, CacheOK, agentVars, brokerVars, history
  <2>3. LinkOK'
    <3>1. CASE UNCHANGED link BY <3>1 DEF LinkOK
    <3>2. CASE link' = [link EXCEPT ![transport].up = Append(link[transport].up, Head(outbox))]
      <4>1. transport \in Connections /\ outbox \in Seq(Frames) /\ outbox # <<>>
        BY <1>7 DEF SendFails, AgentOK
      <4>2. Head(outbox) \in Frames BY <4>1
      <4>3. Append(link[transport].up, Head(outbox)) \in Seq(Frames) BY <4>1, <4>2, LinkSequences
      <4> QED BY <3>2, <4>1, <4>3, LinkUpdates DEF LinkOK
    <3> QED BY <1>7, <3>1, <3>2 DEF SendFails
  <2>4. BrokerOK' BY <1>7 DEF SendFails, BrokerOK, agentVars, brokerVars, history
  <2>5. HistoryOK' BY <1>7 DEF SendFails, Failure, history, HistoryOK
  <2> QED BY <2>1, <2>2, <2>3, <2>4, <2>5
<1>8. ASSUME ReceiveFails PROVE TypeOK'
  <2>1. AgentOK' BY <1>8 DEF ReceiveFails, AgentOK, agentVars, brokerVars, history
  <2>2. CacheOK' BY <1>8 DEF ReceiveFails, CacheOK, agentVars, brokerVars, history
  <2>3. LinkOK' BY <1>8 DEF ReceiveFails, LinkOK, agentVars, brokerVars, history
  <2>4. BrokerOK' BY <1>8 DEF ReceiveFails, BrokerOK, agentVars, brokerVars, history
  <2>5. HistoryOK' BY <1>8 DEF ReceiveFails, Failure, history, HistoryOK
  <2> QED BY <2>1, <2>2, <2>3, <2>4, <2>5
<1>20. ASSUME ReceiveEnds PROVE TypeOK'
  <2>1. AgentOK' BY <1>20 DEF ReceiveEnds, AgentOK, agentVars, brokerVars, history
  <2>2. CacheOK' BY <1>20 DEF ReceiveEnds, CacheOK, agentVars, brokerVars, history
  <2>3. LinkOK' BY <1>20 DEF ReceiveEnds, LinkOK, agentVars, brokerVars, history
  <2>4. BrokerOK' BY <1>20 DEF ReceiveEnds, BrokerOK, agentVars, brokerVars, history
  <2>5. HistoryOK' BY <1>20 DEF ReceiveEnds, HistoryOK, agentVars, brokerVars, history
  <2> QED BY <2>1, <2>2, <2>3, <2>4, <2>5
<1>9. ASSUME ReceiveOther PROVE TypeOK'
  <2>0. transport \in Connections /\ link[transport].down # <<>>
    BY <1>9 DEF ReceiveOther, Arrives, AgentOK
  <2>00. Incoming \in Deliveries /\ Tail(link[transport].down) \in Seq(Deliveries)
    BY <2>0, LinkSequences DEF Incoming
  <2>1. AgentOK' BY <1>9, <2>0 DEF ReceiveOther, Arrives, AgentOK
  <2>2. CacheOK' BY <1>9 DEF ReceiveOther, CacheOK, agentVars, brokerVars, history
  <2>3. LinkOK'
    <3>1. link' = [link EXCEPT ![transport].down = Tail(link[transport].down)]
      BY <1>9 DEF ReceiveOther, Arrives
    <3> QED BY <2>0, <2>00, <3>1, LinkUpdates DEF LinkOK
  <2>4. BrokerOK' BY <1>9 DEF ReceiveOther, BrokerOK, agentVars, brokerVars, history
  <2>5. HistoryOK' BY <1>9 DEF ReceiveOther, HistoryOK, agentVars, brokerVars, history
  <2> QED BY <2>1, <2>2, <2>3, <2>4, <2>5
<1>10. ASSUME ReceiveRefused PROVE TypeOK'
  <2>0. transport \in Connections /\ link[transport].down # <<>>
    BY <1>10 DEF ReceiveRefused, Arrives, AgentOK
  <2>00. Incoming \in Deliveries /\ Tail(link[transport].down) \in Seq(Deliveries)
    BY <2>0, LinkSequences DEF Incoming
  <2>1. AgentOK' BY <1>10, <2>0 DEF ReceiveRefused, Arrives, AgentOK
  <2>2. CacheOK'
    <3>1. Incoming.session \in 1..MaxDeliveries /\ Incoming.session \in Nat
      BY <2>00, BoundAssumption DEF Deliveries
    <3>2. cache' \in [Slots -> Entries]
      BY <1>10, <3>1, CheckAndMarkType DEF ReceiveRefused, CacheOK
    <3> QED BY <1>10, <3>2 DEF ReceiveRefused, CacheOK, history
  <2>3. LinkOK'
    <3>1. link' = [link EXCEPT ![transport].down = Tail(link[transport].down)]
      BY <1>10 DEF ReceiveRefused, Arrives
    <3> QED BY <2>0, <2>00, <3>1, LinkUpdates DEF LinkOK
  <2>4. BrokerOK' BY <1>10 DEF ReceiveRefused, BrokerOK, agentVars, brokerVars, history
  <2>5. HistoryOK' BY <1>10 DEF ReceiveRefused, HistoryOK, agentVars, brokerVars, history
  <2> QED BY <2>1, <2>2, <2>3, <2>4, <2>5
<1>21. ASSUME Marks, UNCHANGED <<now, brokerVars, failures, taken, applied, contended>>,
              handed' \in Nat
       PROVE  CacheOK' /\ LinkOK' /\ BrokerOK' /\ HistoryOK'
  <2>1. transport \in Connections /\ link[transport].down # <<>>
    BY <1>21 DEF Marks, Arrives, AgentOK
  <2>2. Incoming \in Deliveries /\ Tail(link[transport].down) \in Seq(Deliveries)
    BY <2>1, LinkSequences DEF Incoming
  <2>3. CacheOK'
    <3>1. Incoming.session \in 1..MaxDeliveries /\ Incoming.session \in Nat
      BY <2>2, BoundAssumption DEF Deliveries
    <3>2. cache' \in [Slots -> Entries] BY <1>21, <3>1, CheckAndMarkType DEF Marks, CacheOK
    <3>3. passed' \in Seq(1..MaxDeliveries) BY <1>21, <3>1 DEF Marks, CacheOK
    <3> QED BY <1>21, <3>2, <3>3 DEF CacheOK
  <2>4. LinkOK'
    <3>1. link' = [link EXCEPT ![transport].down = Tail(link[transport].down)]
      BY <1>21 DEF Marks, Arrives
    <3> QED BY <2>1, <2>2, <3>1, LinkUpdates DEF LinkOK
  <2>5. BrokerOK' BY <1>21 DEF BrokerOK, brokerVars
  <2>6. HistoryOK' BY <1>21 DEF HistoryOK
  <2> QED BY <2>3, <2>4, <2>5, <2>6
<1>22. ASSUME ReceiveUnusable PROVE TypeOK'
  <2>1. phase = "waiting" /\ transport # NoConnection
    BY <1>22 DEF ReceiveUnusable, Marks, Arrives, AgentOK
  <2>2. AgentOK' BY <1>22, <2>1 DEF ReceiveUnusable, AgentOK
  <2> QED BY <1>21, <1>22, <2>2 DEF ReceiveUnusable, HistoryOK
<1>11. ASSUME Receive PROVE TypeOK'
  <2>0. phase = "waiting" /\ transport \in Connections
    BY <1>11 DEF Receive, Marks, Arrives, AgentOK
  <2>1. AgentOK'
    <3>1. Request("subscribe", built + 1) \in Frames
      BY DEF Request, Frames, AgentOK
    <3>2. <<Request("subscribe", built + 1)>> \in Seq(Frames) BY <3>1
    <3>3. <<Request("subscribe", built + 1)>> # <<>> OBVIOUS
    <3>4. CASE role = "one-shot"
      <4>1. /\ built' = built + 1 /\ outbox' = <<Request("subscribe", built + 1)>>
            /\ phase' = "sending" /\ UNCHANGED <<role, transport, opening>>
        BY <1>11, <3>4 DEF Receive
      <4> QED BY <2>0, <3>2, <3>3, <4>1, ConnectionAssumption DEF AgentOK
    <3>5. CASE role # "one-shot" BY <1>11, <2>0, <3>5 DEF Receive, AgentOK
    <3> QED BY <3>4, <3>5
  <2>2. handed' \in Nat BY <1>11 DEF Receive, HistoryOK
  <2> QED BY <1>11, <1>21, <2>1, <2>2 DEF Receive
<1>12. ASSUME NEW c \in Connections, BrokerHello(c) PROVE TypeOK'
  <2>0. /\ Tail(link[c].up) \in Seq(Frames)
        /\ <<>> \in Seq(Deliveries)
    BY <1>12, LinkSequences DEF BrokerHello
  <2>00. LinkOK' /\ BrokerOK'
    <3>1. CASE registered = NoConnection
      <4>1. /\ link' = [link EXCEPT ![c].broker = "serving", ![c].up = Tail(link[c].up)]
            /\ registered' = c /\ held' = offline /\ offline' = <<>>
            /\ UNCHANGED <<routing, unlocked, subscription, delivered>>
        BY <1>12, <3>1 DEF BrokerHello, Registers
      <4>2. [link EXCEPT ![c].broker = "serving", ![c].up = Tail(link[c].up)]
               \in [Connections -> Links]
        BY <2>0, LinkUpdates
      <4>3. offline' \in Seq(Deliveries) /\ Len(offline') <= OfflineDepth
        BY <4>1, DepthAssumption
      <4> QED BY <4>1, <4>2, <4>3 DEF LinkOK, BrokerOK
    <3>2. CASE registered # NoConnection
      BY <1>12, <2>0, <3>2, LeavesType DEF BrokerHello
    <3> QED BY <3>1, <3>2
  <2>1. AgentOK' BY <1>12 DEF BrokerHello, AgentOK, agentVars, brokerVars, history
  <2>2. CacheOK' BY <1>12 DEF BrokerHello, CacheOK, agentVars, brokerVars, history
  <2>3. LinkOK' BY <2>00
  <2>4. BrokerOK' BY <2>00
  <2>5. HistoryOK' BY <1>12 DEF BrokerHello, HistoryOK, agentVars, brokerVars, history
  <2> QED BY <2>1, <2>2, <2>3, <2>4, <2>5
<1>13. ASSUME NEW c \in Connections, BrokerReads(c) PROVE TypeOK'
  <2>0. /\ Tail(link[c].up) \in Seq(Frames)
        /\ Head(link[c].up) \in Frames
    BY <1>13, LinkSequences DEF BrokerReads
  <2>00. Head(link[c].up).session \in Nat BY <2>0 DEF Frames
  <2>1. AgentOK' BY <1>13 DEF BrokerReads, AgentOK, agentVars, brokerVars, history
  <2>2. CacheOK' BY <1>13 DEF BrokerReads, CacheOK, agentVars, brokerVars, history
  <2>3. LinkOK' BY <1>13, <2>0, LinkUpdates DEF BrokerReads, LinkOK
  <2>4. BrokerOK' BY <1>13, <2>00 DEF BrokerReads, BrokerOK
  <2>5. HistoryOK'
    <3>1. taken' \in Seq(Nat) BY <1>13, <2>00 DEF BrokerReads, HistoryOK
    <3>2. applied' \subseteq Frames BY <1>13, <2>0 DEF BrokerReads, HistoryOK
    <3> QED BY <1>13, <3>1, <3>2 DEF BrokerReads, HistoryOK
  <2> QED BY <2>1, <2>2, <2>3, <2>4, <2>5
<1>14. ASSUME NEW c \in Connections, BrokerRefuses(c) PROVE TypeOK'
  <2>0. PICK down \in Prefixes(link[c].down) : Leaves(c, down)
    BY <1>14 DEF BrokerRefuses
  <2>00. down \in Seq(Deliveries) BY LinkUpdates, PrefixType
  <2>1. AgentOK' BY <1>14 DEF BrokerRefuses, AgentOK, agentVars, brokerVars, history
  <2>2. CacheOK' BY <1>14 DEF BrokerRefuses, CacheOK, agentVars, brokerVars, history
  <2>3. LinkOK' BY <2>0, <2>00, LeavesType
  <2>4. BrokerOK' BY <2>0, <2>00, LeavesType
  <2>5. HistoryOK' BY <1>14 DEF BrokerRefuses, Failure, HistoryOK, history
  <2> QED BY <2>1, <2>2, <2>3, <2>4, <2>5
<1>15. ASSUME NEW c \in Connections, BrokerWrites(c) PROVE TypeOK'
  <2>0. Head(held) \in Deliveries /\ Append(link[c].down, Head(held)) \in Seq(Deliveries)
    <3>1. Head(held) \in Deliveries BY <1>15 DEF BrokerWrites, BrokerOK
    <3> QED BY <3>1, LinkSequences
  <2>1. AgentOK' BY <1>15 DEF BrokerWrites, AgentOK, agentVars, brokerVars, history
  <2>2. CacheOK' BY <1>15 DEF BrokerWrites, CacheOK, agentVars, brokerVars, history
  <2>3. LinkOK' BY <1>15, <2>0, LinkUpdates DEF BrokerWrites, LinkOK
  <2>4. BrokerOK' BY <1>15 DEF BrokerWrites, BrokerOK, agentVars, brokerVars, history
  <2>5. HistoryOK' BY <1>15 DEF BrokerWrites, HistoryOK, agentVars, brokerVars, history
  <2> QED BY <2>1, <2>2, <2>3, <2>4, <2>5
<1>16. ASSUME NEW c \in Connections, BrokerWriteFails(c) PROVE TypeOK'
  <2>0. PICK down \in Prefixes(link[c].down) \cup {Append(link[c].down, Head(held))} :
           Leaves(c, down)
    BY <1>16 DEF BrokerWriteFails
  <2>00. down \in Seq(Deliveries)
    <3>1. Append(link[c].down, Head(held)) \in Seq(Deliveries)
      <4>1. Head(held) \in Deliveries BY <1>16 DEF BrokerWriteFails, BrokerOK
      <4> QED BY <4>1, LinkSequences
    <3>2. \A d \in Prefixes(link[c].down) : d \in Seq(Deliveries)
      BY LinkUpdates, PrefixType
    <3> QED BY <3>1, <3>2
  <2>1. AgentOK' BY <1>16 DEF BrokerWriteFails, AgentOK, agentVars, brokerVars, history
  <2>2. CacheOK' BY <1>16 DEF BrokerWriteFails, CacheOK, agentVars, brokerVars, history
  <2>3. LinkOK' BY <2>0, <2>00, LeavesType
  <2>4. BrokerOK' BY <2>0, <2>00, LeavesType
  <2>5. HistoryOK' BY <1>16 DEF BrokerWriteFails, Failure, HistoryOK, history
  <2> QED BY <2>1, <2>2, <2>3, <2>4, <2>5
<1>17. ASSUME NEW c \in Connections, BrokerReadFails(c) PROVE TypeOK'
  <2>0. PICK down \in Prefixes(link[c].down) : Leaves(c, down)
    BY <1>17 DEF BrokerReadFails
  <2>00. down \in Seq(Deliveries) BY LinkUpdates, PrefixType
  <2>1. AgentOK' BY <1>17 DEF BrokerReadFails, AgentOK, agentVars, brokerVars, history
  <2>2. CacheOK' BY <1>17 DEF BrokerReadFails, CacheOK, agentVars, brokerVars, history
  <2>3. LinkOK' BY <2>0, <2>00, LeavesType
  <2>4. BrokerOK' BY <2>0, <2>00, LeavesType
  <2>5. HistoryOK' BY <1>17 DEF BrokerReadFails, Failure, HistoryOK, history
  <2> QED BY <2>1, <2>2, <2>3, <2>4, <2>5
<1>23. ASSUME NEW c \in Connections, BrokerEof(c) PROVE TypeOK'
  <2>0. PICK down \in Prefixes(link[c].down) : Leaves(c, down)
    BY <1>23 DEF BrokerEof
  <2>00. down \in Seq(Deliveries) BY LinkUpdates, PrefixType
  <2>1. AgentOK' BY <1>23 DEF BrokerEof, AgentOK, agentVars, brokerVars, history
  <2>2. CacheOK' BY <1>23 DEF BrokerEof, CacheOK, agentVars, brokerVars, history
  <2>3. LinkOK' BY <2>0, <2>00, LeavesType
  <2>4. BrokerOK' BY <2>0, <2>00, LeavesType
  <2>5. HistoryOK' BY <1>23 DEF BrokerEof, HistoryOK, history
  <2> QED BY <2>1, <2>2, <2>3, <2>4, <2>5
<1>18. ASSUME CaDelivers PROVE TypeOK'
  <2>1. AgentOK' BY <1>18 DEF CaDelivers, AgentOK, agentVars
  <2>2. CacheOK' BY <1>18 DEF CaDelivers, CacheOK, agentVars, history
  <2>3. LinkOK' BY <1>18 DEF CaDelivers, LinkOK
  <2>4. BrokerOK'
    <3>1. ASSUME NEW kind \in {"usable", "other-handler", "unusable"}, Presents(kind),
                 UNCHANGED <<registered, held, offline, unlocked>>, subscription' \in Nat
          PROVE  BrokerOK'
      <4>1. delivered' \in 1..MaxDeliveries
        <5>1. role \in Programs BY RoleAssumption DEF AgentOK
        <5>2. Quota[role] \in 0..MaxDeliveries BY <5>1, BoundAssumption
        <5> QED BY <3>1, <5>2, BoundAssumption DEF Presents, BrokerOK
      <4>2. Delivery(kind, delivered') \in Deliveries BY <4>1 DEF Delivery, Deliveries
      <4>3. routing' \in Deliveries /\ ~unlocked BY <3>1, <4>2 DEF Presents, BrokerOK
      <4> QED BY <3>1, <4>1, <4>3 DEF BrokerOK
    <3>2. subscription' \in Nat BY <1>18 DEF CaDelivers, BrokerOK
    <3> QED BY <1>18, <3>1, <3>2 DEF CaDelivers
  <2>5. HistoryOK' BY <1>18 DEF CaDelivers, HistoryOK, history
  <2> QED BY <2>1, <2>2, <2>3, <2>4, <2>5
<1>24. ASSUME CaDrops PROVE TypeOK'
  <2>1. AgentOK' BY <1>24 DEF CaDrops, AgentOK, agentVars
  <2>2. CacheOK' BY <1>24 DEF CaDrops, CacheOK, agentVars, history
  <2>3. LinkOK' BY <1>24 DEF CaDrops, LinkOK
  <2>4. BrokerOK'
    BY <1>24 DEF CaDrops, BrokerOK
  <2>5. HistoryOK' BY <1>24 DEF CaDrops, HistoryOK, history
  <2> QED BY <2>1, <2>2, <2>3, <2>4, <2>5
<1>25. ASSUME RouteOnline PROVE TypeOK'
  <2>1. AgentOK' BY <1>25 DEF RouteOnline, AgentOK, agentVars
  <2>2. CacheOK' BY <1>25 DEF RouteOnline, CacheOK, agentVars, history
  <2>3. LinkOK' BY <1>25 DEF RouteOnline, LinkOK
  <2>4. BrokerOK'
    <3>1. routing \in Deliveries BY <1>25 DEF RouteOnline, BrokerOK
    <3>2. held' \in Seq(Deliveries) BY <1>25, <3>1 DEF RouteOnline, BrokerOK
    <3> QED BY <1>25, <3>2 DEF RouteOnline, BrokerOK
  <2>5. HistoryOK' BY <1>25 DEF RouteOnline, HistoryOK, history
  <2> QED BY <2>1, <2>2, <2>3, <2>4, <2>5
<1>26. ASSUME RouteOffline PROVE TypeOK'
  <2>1. AgentOK' BY <1>26 DEF RouteOffline, AgentOK, agentVars
  <2>2. CacheOK' BY <1>26 DEF RouteOffline, CacheOK, agentVars, history
  <2>3. LinkOK' BY <1>26 DEF RouteOffline, LinkOK
  <2>4. BrokerOK'
    BY <1>26 DEF RouteOffline, BrokerOK
  <2>5. HistoryOK' BY <1>26 DEF RouteOffline, HistoryOK, history
  <2> QED BY <2>1, <2>2, <2>3, <2>4, <2>5
<1>27. ASSUME Enqueue PROVE TypeOK'
  <2>1. AgentOK' BY <1>27 DEF Enqueue, AgentOK, agentVars
  <2>2. CacheOK' BY <1>27 DEF Enqueue, CacheOK, agentVars, history
  <2>3. LinkOK' BY <1>27 DEF Enqueue, LinkOK
  <2>4. BrokerOK'
    <3>1. routing \in Deliveries BY <1>27 DEF Enqueue, BrokerOK
    <3>2. CASE Len(offline) < OfflineDepth
      <4>1. offline' = Append(offline, routing) /\ routing' = NoDelivery
        BY <1>27, <3>2 DEF Enqueue
      <4>2. offline' \in Seq(Deliveries) /\ Len(offline') = Len(offline) + 1
        BY <3>1, <4>1 DEF BrokerOK
      <4>3. Len(offline') <= OfflineDepth
        <5>1. Len(offline) \in Nat BY DEF BrokerOK
        <5> QED BY <3>2, <4>2, <5>1, DepthAssumption
      <4> QED BY <1>27, <4>1, <4>2, <4>3 DEF Enqueue, BrokerOK
    <3>3. CASE ~(Len(offline) < OfflineDepth)
      BY <1>27, <3>3 DEF Enqueue, BrokerOK
    <3> QED BY <3>2, <3>3
  <2>5. HistoryOK' BY <1>27 DEF Enqueue, HistoryOK, history
  <2> QED BY <2>1, <2>2, <2>3, <2>4, <2>5
<1>19. ASSUME Tick PROVE TypeOK'
  <2>1. AgentOK' BY <1>19 DEF Tick, AgentOK, agentVars, brokerVars, history
  <2>2. CacheOK' BY <1>19 DEF Tick, CacheOK, agentVars, brokerVars, history
  <2>3. LinkOK' BY <1>19 DEF Tick, LinkOK, agentVars, brokerVars, history
  <2>4. BrokerOK' BY <1>19 DEF Tick, BrokerOK, agentVars, brokerVars, history
  <2>5. HistoryOK' BY <1>19 DEF Tick, HistoryOK, agentVars, brokerVars, history
  <2> QED BY <2>1, <2>2, <2>3, <2>4, <2>5
<1> QED
  BY <1>0, <1>1, <1>2, <1>3, <1>4, <1>5, <1>6, <1>7, <1>8, <1>9, <1>10, <1>11, <1>12, <1>13,
     <1>14, <1>15, <1>16, <1>17, <1>18, <1>19, <1>20, <1>22, <1>23, <1>24, <1>25, <1>26, <1>27
     DEF Next, AgentStep, AgentFails, BrokerStep, BrokerFails, LinkStep

\* TypeOK for every run of the Agent: while it sends or waits it has a connection, and
\* every delivery in flight is one that the CA generated.
THEOREM TypeCorrect == Spec => []TypeOK
<1>1. Init => TypeOK BY TypeInit
<1>2. TypeOK /\ [Next]_vars => TypeOK' BY TypeNext
<1> QED BY <1>1, <1>2, PTL DEF Spec

-----------------------------------------------------------------------------
(***************************************************************************)
(* The cache implements the trait.                                         *)
(***************************************************************************)
Caches == [Slots -> Entries]

Protects(c, t, i, s) == c[i].session = s /\ c[i].expires > t

\* Two entries that both protect have different sessions.
Unique(c, t) ==
    \A i, j \in Slots : c[i].expires > t /\ Protects(c, t, j, c[i].session) => i = j

\* Until, as a function of the cache and the time.
End(c, t, s) ==
    IF \E i \in Slots : Protects(c, t, i, s)
    THEN c[CHOOSE i \in Slots : Protects(c, t, i, s)].expires ELSE 0

\* In a cache without double entries the choice in End is no choice.
LEMMA EndOfEntry ==
    ASSUME NEW c, NEW t, NEW s, Unique(c, t)
    PROVE  /\ \A i \in Slots : Protects(c, t, i, s) => End(c, t, s) = c[i].expires
           /\ (\A i \in Slots : ~Protects(c, t, i, s)) => End(c, t, s) = 0
<1>1. ASSUME NEW i \in Slots, Protects(c, t, i, s) PROVE End(c, t, s) = c[i].expires
  <2> DEFINE k == CHOOSE j \in Slots : Protects(c, t, j, s)
  <2>1. k \in Slots /\ Protects(c, t, k, s) BY <1>1
  <2>2. k = i BY <1>1, <2>1 DEF Unique, Protects
  <2> QED BY <1>1, <2>2 DEF End
<1>2. (\A i \in Slots : ~Protects(c, t, i, s)) => End(c, t, s) = 0
  BY DEF End
<1> QED BY <1>1, <1>2

\* Purging takes away no protection.
LEMMA PurgingKeeps ==
    ASSUME NEW c \in Caches, NEW t \in Nat, Unique(c, t)
    PROVE  /\ Unique(Purged(c, t), t)
           /\ \A s : End(Purged(c, t), t, s) = End(c, t, s)
<1> DEFINE d == Purged(c, t)
<1>1. \A i \in Slots : c[i].expires \in Nat BY DEF Caches, Entries
<1>2. \A i \in Slots : d[i] = IF c[i].expires <= t THEN Vacant ELSE c[i]
  BY PurgedType DEF Caches
<1> HIDE DEF d
<1>3. Vacant.expires = 0 BY DEF Vacant
<1>4. \A i \in Slots : \A s : Protects(d, t, i, s) <=> Protects(c, t, i, s)
  BY <1>1, <1>2, <1>3 DEF Protects
<1>5. \A i \in Slots : \A s : Protects(d, t, i, s) => d[i] = c[i]
  BY <1>1, <1>2, <1>3 DEF Protects
<1>6. \A i \in Slots : d[i].expires > t => d[i] = c[i]
  BY <1>1, <1>2, <1>3
<1>7. Unique(d, t)
  BY <1>4, <1>6 DEF Unique
<1>8. ASSUME NEW s PROVE End(d, t, s) = End(c, t, s)
  <2>1. CASE \E i \in Slots : Protects(c, t, i, s)
    <3>1. PICK i \in Slots : Protects(c, t, i, s) BY <2>1
    <3>2. Protects(d, t, i, s) /\ d[i] = c[i] BY <1>4, <1>5, <3>1
    <3> QED BY <1>7, <3>1, <3>2, EndOfEntry
  <2>2. CASE ~\E i \in Slots : Protects(c, t, i, s)
    BY <1>4, <1>7, <2>2, EndOfEntry
  <2> QED BY <2>1, <2>2
<1> QED BY <1>7, <1>8 DEF d

\* A successful check_and_mark protects its session, and changes no other protection.
LEMMA MarkingProtects ==
    ASSUME NEW c \in Caches, NEW t \in Nat, NEW s \in Nat, Unique(c, t), MayMark(c, s, t)
    PROVE  /\ Unique(CheckAndMark(c, s, t), t)
           /\ End(c, t, s) = 0
           /\ End(CheckAndMark(c, s, t), t, s) = IF t + Ttl > t THEN t + Ttl ELSE 0
           /\ \A r : r # s => End(CheckAndMark(c, s, t), t, r) = End(c, t, r)
<1> DEFINE p == Purged(c, t)
           d == CheckAndMark(c, s, t)
           new == [session |-> s, expires |-> t + Ttl]
<1>1. \A i \in Slots : c[i].expires > t => c[i].session # s
  BY CheckAndMarkType DEF Caches
<1>2. PICK k \in Slots : /\ c[k].expires <= t
                         /\ \A i \in Slots : d[i] = IF i = k THEN new ELSE p[i]
  BY CheckAndMarkType DEF Caches
<1>3. /\ \A i \in Slots : p[i] = IF c[i].expires <= t THEN Vacant ELSE c[i]
      /\ \A i \in Slots : c[i].expires \in Nat
  BY PurgedType DEF Caches, Entries
<1>4. Vacant.expires = 0 /\ new.session = s /\ new.expires = t + Ttl BY DEF Vacant
<1> HIDE DEF p, d, new
<1>5. \A i \in Slots : \A r : i = k \/ (Protects(d, t, i, r) <=> Protects(c, t, i, r))
  BY <1>2, <1>3, <1>4 DEF Protects
<1>6. \A i \in Slots : \A r : Protects(d, t, i, r) => i = k \/ d[i] = c[i]
  BY <1>2, <1>3, <1>4 DEF Protects
<1>7. \A r : ~Protects(c, t, k, r) BY <1>2, <1>3 DEF Protects
<1>8. \A r : Protects(d, t, k, r) <=> r = s /\ t + Ttl > t
  BY <1>2, <1>4 DEF Protects
<1>9. \A i \in Slots : ~Protects(c, t, i, s) BY <1>1 DEF Protects
<1>10. Unique(d, t)
  <2> SUFFICES ASSUME NEW i \in Slots, NEW j \in Slots,
                      d[i].expires > t, Protects(d, t, j, d[i].session)
               PROVE  i = j
    BY DEF Unique
  <2>1. Protects(d, t, i, d[i].session) BY DEF Protects
  <2>2. CASE i = k
    BY <1>5, <1>8, <1>9, <2>1, <2>2
  <2>3. CASE i # k
    <3>1. d[i] = c[i] /\ Protects(c, t, i, d[i].session) BY <1>6, <1>5, <2>1, <2>3
    <3>2. j # k BY <1>8, <1>9, <3>1
    <3>3. Protects(c, t, j, d[i].session) BY <1>5, <3>2
    <3> QED BY <3>1, <3>3 DEF Unique, Protects
  <2> QED BY <2>2, <2>3
<1>11. End(c, t, s) = 0 BY <1>9, EndOfEntry
<1>12. End(d, t, s) = IF t + Ttl > t THEN t + Ttl ELSE 0
  <2>1. CASE t + Ttl > t
    <3>1. Protects(d, t, k, s) /\ d[k].expires = t + Ttl BY <1>2, <1>4, <1>8, <2>1
    <3> QED BY <1>10, <2>1, <3>1, EndOfEntry
  <2>2. CASE ~(t + Ttl > t)
    <3>1. \A i \in Slots : ~Protects(d, t, i, s) BY <1>5, <1>8, <1>9, <2>2
    <3> QED BY <1>10, <2>2, <3>1, EndOfEntry
  <2> QED BY <2>1, <2>2
<1>13. ASSUME NEW r, r # s PROVE End(d, t, r) = End(c, t, r)
  <2>1. CASE \E i \in Slots : Protects(c, t, i, r)
    <3>1. PICK i \in Slots : Protects(c, t, i, r) BY <2>1
    <3>2. i # k BY <1>7, <3>1
    <3>3. Protects(d, t, i, r) /\ d[i] = c[i] BY <1>6, <1>5, <3>1, <3>2
    <3> QED BY <1>10, <3>1, <3>3, EndOfEntry
  <2>2. CASE ~\E i \in Slots : Protects(c, t, i, r)
    <3>1. \A i \in Slots : ~Protects(d, t, i, r) BY <1>5, <1>8, <1>13, <2>2
    <3> QED BY <1>10, <2>2, <3>1, EndOfEntry
  <2> QED BY <2>1, <2>2
<1> QED BY <1>10, <1>11, <1>12, <1>13 DEF d

\* As time passes protections end, each at its own time.
LEMMA TimeEnds ==
    ASSUME NEW c \in Caches, NEW t \in Nat, NEW u \in Nat, u > t, Unique(c, t)
    PROVE  /\ Unique(c, u)
           /\ \A s : End(c, u, s) = IF End(c, t, s) > u THEN End(c, t, s) ELSE 0
<1>1. \A i \in Slots : c[i].expires \in Nat BY DEF Caches, Entries
<1>2. \A i \in Slots : \A s : Protects(c, u, i, s) <=> Protects(c, t, i, s) /\ c[i].expires > u
  BY <1>1 DEF Protects
<1>3. Unique(c, u)
  BY <1>1, <1>2 DEF Unique, Protects
<1>4. ASSUME NEW s PROVE End(c, u, s) = IF End(c, t, s) > u THEN End(c, t, s) ELSE 0
  <2>1. CASE \E i \in Slots : Protects(c, t, i, s)
    <3>1. PICK i \in Slots : Protects(c, t, i, s) BY <2>1
    <3>2. End(c, t, s) = c[i].expires BY <3>1, EndOfEntry
    <3>3. CASE c[i].expires > u
      <4>1. Protects(c, u, i, s) BY <1>2, <3>1, <3>3
      <4>2. End(c, u, s) = c[i].expires BY <1>3, <4>1, EndOfEntry
      <4> QED BY <3>2, <3>3, <4>2
    <3>4. CASE ~(c[i].expires > u)
      <4>1. \A j \in Slots : Protects(c, t, j, s) => j = i BY <3>1 DEF Unique, Protects
      <4>2. \A j \in Slots : ~Protects(c, u, j, s) BY <1>2, <3>4, <4>1
      <4>3. End(c, u, s) = 0 BY <1>3, <4>2, EndOfEntry
      <4> QED BY <3>2, <3>4, <4>3
    <3> QED BY <3>3, <3>4
  <2>2. CASE ~\E i \in Slots : Protects(c, t, i, s)
    <3>1. End(c, t, s) = 0 /\ End(c, u, s) = 0 BY <1>2, <1>3, <2>2, EndOfEntry
    <3> QED BY <3>1
  <2> QED BY <2>1, <2>2
<1> QED BY <1>3, <1>4

\* Every step but three leaves cache, clock and application alone; those three are a tick, a
\* delivery that the cache refuses, and one that it lets through.
LEMMA CacheSteps ==
    ASSUME TypeOK, [Next]_vars
    PROVE  \/ UNCHANGED <<cache, now, passed>>
           \/ Tick
           \/ \E s \in 1..MaxDeliveries :
                /\ cache' = CheckAndMark(cache, s, now) /\ UNCHANGED now
                /\ \/ ~MayMark(cache, s, now) /\ UNCHANGED passed
                   \/ MayMark(cache, s, now) /\ passed' = Append(passed, s)
<1>1. ASSUME phase = "waiting", link[transport].down # <<>> PROVE Incoming.session \in 1..MaxDeliveries
  <2>1. transport \in Connections BY <1>1 DEF TypeOK, AgentOK
  <2>2. Incoming \in Deliveries BY <1>1, <2>1, LinkSequences DEF TypeOK, Incoming
  <2> QED BY <2>2 DEF Deliveries
<1>2. CASE ReceiveRefused
  BY <1>1, <1>2 DEF ReceiveRefused, Arrives, history
<1>3. CASE Receive \/ ReceiveUnusable
  BY <1>1, <1>3 DEF Receive, ReceiveUnusable, Marks, Arrives
<1>4. CASE UNCHANGED vars
  BY <1>4 DEF vars, agentVars, history
<1>5. CASE PublishLine \/ PublishWhileWaiting \/ AgentFails \/ Adopt \/ SendOk \/ ReceiveOther
           \/ ReceiveEnds
  BY <1>5 DEF PublishLine, PublishWhileWaiting, AgentFails, HelloFails, SendFails, ReceiveFails,
              Adopt, SendOk, ReceiveOther, ReceiveEnds, history
<1>6. CASE \E c \in Connections : Open(c)
  BY <1>6 DEF Open, history
<1>7. CASE \E c \in Connections : BrokerStep(c) \/ BrokerFails(c) \/ BrokerEof(c)
  BY <1>7 DEF BrokerStep, BrokerFails, BrokerReadFails, BrokerEof, BrokerHello, BrokerReads,
              BrokerWrites,
              BrokerRefuses, BrokerWriteFails, agentVars, history
<1>8. CASE CaDelivers \/ CaDrops \/ LinkStep
  BY <1>8 DEF CaDelivers, CaDrops, LinkStep, RouteOnline, RouteOffline, Enqueue, agentVars, history
<1> QED BY <1>2, <1>3, <1>4, <1>5, <1>6, <1>7, <1>8 DEF Next, AgentStep

\* The invariant of the refinement: check_and_mark never leaves two unexpired entries for a
\* session, so that when the one expires no other goes on protecting it.
CacheInv == TypeOK /\ Unique(cache, now)

\* The array is empty at first.
LEMMA CacheInit ==
    ASSUME Init PROVE CacheInv
<1>1. TypeOK BY TypeInit
<1>2. \A i \in Slots : cache[i].expires = 0 /\ now = 1 BY DEF Init, Vacant
<1> QED BY <1>1, <1>2 DEF CacheInv, Unique

\* Every step keeps the invariant.
LEMMA CacheNext ==
    ASSUME CacheInv, [Next]_vars PROVE CacheInv'
<1>1. TypeOK' BY TypeNext DEF CacheInv
<1>2. cache \in Caches /\ now \in Nat BY DEF CacheInv, TypeOK, CacheOK, Caches
<1>3. CASE UNCHANGED <<cache, now, passed>>
  BY <1>1, <1>3 DEF CacheInv, Unique, Protects
<1>4. CASE Tick
  <2>1. now' \in Nat /\ now' > now /\ cache' = cache BY <1>2, <1>4 DEF Tick, agentVars
  <2>2. Unique(cache, now') BY <1>2, <2>1, TimeEnds DEF CacheInv
  <2> QED BY <1>1, <2>1, <2>2 DEF CacheInv
<1>5. ASSUME NEW s \in 1..MaxDeliveries, cache' = CheckAndMark(cache, s, now), now' = now
      PROVE  CacheInv'
  <2>1. s \in Nat OBVIOUS
  <2>2. CASE MayMark(cache, s, now)
    <3>1. Unique(CheckAndMark(cache, s, now), now)
      BY <1>2, <2>1, <2>2, MarkingProtects DEF CacheInv
    <3> QED BY <1>1, <1>5, <3>1 DEF CacheInv
  <2>3. CASE ~MayMark(cache, s, now)
    <3>1. cache' = Purged(cache, now) BY <1>2, <1>5, <2>1, <2>3, CheckAndMarkType DEF Caches
    <3>2. Unique(Purged(cache, now), now) BY <1>2, PurgingKeeps DEF CacheInv
    <3> QED BY <1>1, <1>5, <3>1, <3>2 DEF CacheInv
  <2> QED BY <2>2, <2>3
<1> QED BY <1>3, <1>4, <1>5, CacheSteps DEF CacheInv

\* The refinement mapping, written with End.
LEMMA UntilIsEnd ==
    /\ Until = [s \in 1..MaxDeliveries |-> End(cache, now, s)]
    /\ Until' = [s \in 1..MaxDeliveries |-> End(cache', now', s)]
BY DEF Until, End, Protects

\* Every step of the Agent is a step of the trait, or leaves what it promises alone.
LEMMA ProtectorSteps ==
    ASSUME CacheInv, [Next]_vars PROVE [Protector!Next]_(Protector!vars)
<1>1. cache \in Caches /\ now \in Nat /\ Unique(cache, now)
  BY DEF CacheInv, TypeOK, CacheOK, Caches
<1>2. CASE UNCHANGED <<cache, now, passed>>
  <2>1. Until' = Until BY <1>2, UntilIsEnd
  <2> QED BY <1>2, <2>1 DEF Protector!vars
<1>3. CASE Tick
  <2>1. now' \in Nat /\ now' > now /\ cache' = cache /\ passed' = passed
    BY <1>1, <1>3 DEF Tick, agentVars, history
  <2>2. \A s : End(cache, now', s) = IF End(cache, now, s) > now' THEN End(cache, now, s) ELSE 0
    BY <1>1, <2>1, TimeEnds
  <2>3. Until' = [s \in 1..MaxDeliveries |-> Protector!Live(Until[s], now')]
    BY <2>1, <2>2, UntilIsEnd DEF Protector!Live
  <2> QED BY <2>1, <2>3 DEF Protector!Next, Protector!Advance
<1>4. ASSUME NEW s \in 1..MaxDeliveries, cache' = CheckAndMark(cache, s, now), now' = now,
             ~MayMark(cache, s, now), passed' = passed
      PROVE  UNCHANGED Protector!vars
  <2>0. s \in Nat OBVIOUS
  <2>1. cache' = Purged(cache, now) BY <1>1, <1>4, <2>0, CheckAndMarkType DEF Caches
  <2>2. \A r : End(cache', now', r) = End(cache, now, r) BY <1>1, <1>4, <2>1, PurgingKeeps
  <2>3. Until' = Until BY <2>2, UntilIsEnd
  <2> QED BY <1>4, <2>3 DEF Protector!vars
<1>5. ASSUME NEW s \in 1..MaxDeliveries, cache' = CheckAndMark(cache, s, now), now' = now,
             MayMark(cache, s, now), passed' = Append(passed, s)
      PROVE  Protector!CheckAndMark(s)
  <2>1. /\ End(cache, now, s) = 0
        /\ End(cache', now', s) = Protector!Live(now + Ttl, now)
        /\ \A r : r # s => End(cache', now', r) = End(cache, now, r)
    BY <1>1, <1>5, MarkingProtects DEF Protector!Live
  <2>2. Until[s] = 0 BY <2>1, UntilIsEnd
  <2>3. Until' = [Until EXCEPT ![s] = Protector!Live(now + Ttl, now)] BY <2>1, UntilIsEnd
  <2> QED BY <1>5, <2>2, <2>3 DEF Protector!CheckAndMark
<1> QED BY <1>2, <1>3, <1>4, <1>5, CacheSteps DEF CacheInv, Protector!Next

\* ImplementsReplayProtector for every capacity and time to live: the fixed array of
\* agent-core keeps what the trait ReplayProtector promises.
THEOREM CacheImplementsProtector == Spec => ImplementsReplayProtector
<1>1. Init => Protector!Init
  <2> SUFFICES ASSUME Init PROVE Protector!Init OBVIOUS
  <2>1. \A i \in Slots : cache[i].expires = 0 /\ now = 1 BY DEF Init, Vacant
  <2>2. Until = [s \in 1..MaxDeliveries |-> 0] BY <2>1 DEF Until
  <2> QED BY <2>2 DEF Init, Protector!Init
<1>2. Init => CacheInv BY CacheInit
<1>3. CacheInv /\ [Next]_vars => CacheInv' BY CacheNext
<1>4. CacheInv /\ [Next]_vars => [Protector!Next]_(Protector!vars) BY ProtectorSteps
<1> QED BY <1>1, <1>2, <1>3, <1>4, PTL DEF Spec, ImplementsReplayProtector, Protector!Spec

-----------------------------------------------------------------------------
(***************************************************************************)
(* Requests and deliveries in flight.                                      *)
(***************************************************************************)
\* A sequence without some of its first and some of its last elements.
Part(u, v) == \E k \in Nat : Len(v) + k <= Len(u) /\ \A i \in 1..Len(v) : v[i] = u[i + k]

\* Whatever an end reads or drops, what is left is a part of what was in flight.
LEMMA Parts ==
    ASSUME NEW S, NEW u \in Seq(S)
    PROVE  /\ Part(u, u) /\ Part(u, <<>>)
           /\ u # <<>> => Part(u, Tail(u))
           /\ \A v \in Prefixes(u) : Part(u, v)
<1>1. Part(u, u)
  <2>1. Len(u) + 0 <= Len(u) /\ \A i \in 1..Len(u) : u[i] = u[i + 0] OBVIOUS
  <2> QED BY <2>1 DEF Part
<1>2. Part(u, <<>>)
  <2>1. Len(<<>>) + 0 <= Len(u) /\ \A i \in 1..Len(<<>>) : FALSE OBVIOUS
  <2> QED BY <2>1 DEF Part
<1>3. ASSUME u # <<>> PROVE Part(u, Tail(u))
  <2>1. Len(Tail(u)) + 1 <= Len(u) BY <1>3
  <2>2. \A i \in 1..Len(Tail(u)) : Tail(u)[i] = u[i + 1] BY <1>3
  <2> QED BY <2>1, <2>2 DEF Part
<1>4. ASSUME NEW v \in Prefixes(u) PROVE Part(u, v)
  <2>1. PICK n \in 0..Len(u) : v = SubSeq(u, 1, n) BY DEF Prefixes
  <2>2. Len(v) = n /\ \A i \in 1..n : v[i] = u[i] BY <2>1
  <2>3. Len(v) + 0 <= Len(u) /\ \A i \in 1..Len(v) : v[i] = u[i + 0] BY <2>2
  <2> QED BY <2>3 DEF Part
<1> QED BY <1>1, <1>2, <1>3, <1>4

\* The elements of a part, in their order.
LEMMA PartElements ==
    ASSUME NEW S, NEW u \in Seq(S), NEW v \in Seq(S), Part(u, v)
    PROVE  /\ \A i \in DOMAIN v : \E m \in DOMAIN u : m >= i /\ v[i] = u[m]
           /\ \A i, j \in DOMAIN v : i < j =>
                 \E m, n \in DOMAIN u : m < n /\ v[i] = u[m] /\ v[j] = u[n]
<1>1. PICK k \in Nat : Len(v) + k <= Len(u) /\ \A i \in 1..Len(v) : v[i] = u[i + k] BY DEF Part
<1>2. DOMAIN v = 1..Len(v) /\ DOMAIN u = 1..Len(u) /\ Len(v) \in Nat /\ Len(u) \in Nat OBVIOUS
<1>3. \A i \in DOMAIN v : i + k \in DOMAIN u /\ i + k >= i /\ v[i] = u[i + k] BY <1>1, <1>2
<1>4. \A i, j \in DOMAIN v : i < j => i + k < j + k BY <1>2
<1> QED BY <1>3, <1>4

\* Appending one element, and taking a part of the result.
LEMMA AppendElements ==
    ASSUME NEW S, NEW u \in Seq(S), NEW r \in S, NEW v \in Seq(S), Part(Append(u, r), v)
    PROVE  /\ \A i \in DOMAIN v : v[i] = r \/ \E m \in DOMAIN u : m >= i /\ v[i] = u[m]
           /\ \A i, j \in DOMAIN v : i < j =>
                 /\ \E m \in DOMAIN u : v[i] = u[m]
                 /\ v[j] = r \/ \E m, n \in DOMAIN u : m < n /\ v[i] = u[m] /\ v[j] = u[n]
<1> DEFINE w == Append(u, r)
<1>1. w \in Seq(S) /\ Len(w) = Len(u) + 1 /\ \A i \in 1..Len(u) : w[i] = u[i] /\ w[Len(u) + 1] = r
  OBVIOUS
<1>2. w[Len(u) + 1] = r OBVIOUS
<1>0. Part(w, v) OBVIOUS
<1> HIDE DEF w
<1>3. /\ DOMAIN v = 1..Len(v) /\ DOMAIN u = 1..Len(u) /\ DOMAIN w = 1..Len(w)
      /\ Len(u) \in Nat /\ Len(v) \in Nat
  BY <1>1
<1>4. \A m \in DOMAIN w : IF m = Len(u) + 1 THEN w[m] = r ELSE m \in DOMAIN u /\ w[m] = u[m]
  BY <1>1, <1>2, <1>3
<1>5. PICK k \in Nat : \A i \in DOMAIN v : i + k \in DOMAIN w /\ i + k >= i /\ v[i] = w[i + k]
  <2>1. PICK k \in Nat : Len(v) + k <= Len(w) /\ \A i \in 1..Len(v) : v[i] = w[i + k]
    BY <1>0 DEF Part
  <2>2. \A i \in 1..Len(v) : i + k \in 1..Len(w) /\ i + k >= i /\ v[i] = w[i + k]
    BY <1>1, <1>3, <2>1
  <2> QED BY <1>3, <2>2
<1>6. ASSUME NEW i \in DOMAIN v PROVE v[i] = r \/ \E m \in DOMAIN u : m >= i /\ v[i] = u[m]
  BY <1>4, <1>5
<1>7. ASSUME NEW i \in DOMAIN v, NEW j \in DOMAIN v, i < j
      PROVE  /\ \E m \in DOMAIN u : v[i] = u[m]
             /\ v[j] = r \/ \E m, n \in DOMAIN u : m < n /\ v[i] = u[m] /\ v[j] = u[n]
  <2> DEFINE m == i + k
             n == j + k
  <2>1. m \in DOMAIN w /\ n \in DOMAIN w /\ m < n /\ v[i] = w[m] /\ v[j] = w[n]
    BY <1>3, <1>5, <1>7
  <2> HIDE DEF m, n
  <2>2. m # Len(u) + 1 BY <1>1, <1>3, <2>1
  <2>3. m \in DOMAIN u /\ w[m] = u[m] BY <1>4, <2>1, <2>2
  <2>4. CASE n = Len(u) + 1 BY <1>4, <2>1, <2>3, <2>4
  <2>5. CASE n # Len(u) + 1 BY <1>4, <2>1, <2>3, <2>5
  <2> QED BY <2>4, <2>5
<1> QED BY <1>6, <1>7

\* The values of the fields of a link that an end closed.
LEMMA CloseFields ==
    ASSUME NEW l \in Links
    PROVE  /\ \A up : LET m == AgentCloses(l, up) IN
                 /\ m.agent = "closed" /\ m.broker = l.broker /\ m.down = <<>>
                 /\ m.up = IF l.broker = "closed" THEN <<>> ELSE up
           /\ \A down : LET m == BrokerCloses(l, down) IN
                 /\ m.broker = "closed" /\ m.agent = l.agent /\ m.up = <<>>
                 /\ m.down = IF l.agent = "closed" THEN <<>> ELSE down
BY DEF AgentCloses, BrokerCloses, Links, Closed

\* A link between its two ends: a closed end has nothing to read; what brokerd reads first is
\* the hello, and there is only one.
Shaped(l) ==
    /\ l.broker = "closed" => l.up = <<>>
    /\ l.agent = "closed" => l.down = <<>>
    /\ l.broker = "hello" /\ l.agent = "open" => l.up # <<>>
    /\ l.broker = "hello" /\ l.up # <<>> => l.up[1] = Hello
    /\ \A i \in DOMAIN l.up : l.up[i] = Hello => i = 1 /\ l.broker = "hello"

\* The shapes that the two ends give a link.
LEMMA Shapes ==
    /\ Shaped(Closed) /\ Shaped(Accepted)
    /\ \A l \in Links : Shaped(l) =>
          /\ \A up \in Prefixes(l.up) : Shaped(AgentCloses(l, up))
          /\ \A down \in Seq(Deliveries) : Shaped(BrokerCloses(l, down))
<1>1. Shaped(Closed) BY DEF Shaped, Closed
<1>2. Shaped(Accepted)
  <2>1. Accepted.up = <<Hello>> /\ Accepted.broker = "hello" /\ Accepted.agent = "open"
    BY DEF Accepted
  <2>2. <<Hello>> # <<>> /\ <<Hello>>[1] = Hello /\ DOMAIN <<Hello>> = {1} OBVIOUS
  <2> QED BY <2>1, <2>2 DEF Shaped
<1>3. ASSUME NEW l \in Links, Shaped(l), NEW up \in Prefixes(l.up)
      PROVE  Shaped(AgentCloses(l, up))
  <2> DEFINE m == AgentCloses(l, up)
  <2>1. /\ m.agent = "closed" /\ m.broker = l.broker /\ m.down = <<>>
        /\ m.up = IF l.broker = "closed" THEN <<>> ELSE up
    BY CloseFields
  <2>2. l.up \in Seq(Frames) BY DEF Links
  <2>3. PICK n \in 0..Len(l.up) : up = SubSeq(l.up, 1, n) BY DEF Prefixes
  <2>4. DOMAIN up = 1..n /\ \A i \in 1..n : up[i] = l.up[i] /\ i \in DOMAIN l.up BY <2>2, <2>3
  <2>5. up # <<>> => 1 \in 1..n /\ l.up # <<>>
    BY <2>2, <2>3
  <2> HIDE DEF m
  <2>6. l.broker = "closed" => Shaped(m) BY <2>1 DEF Shaped
  <2>7. ASSUME l.broker # "closed" PROVE Shaped(m)
    <3>1. m.up = up BY <2>1, <2>7
    <3>2. m.broker = "hello" /\ m.up # <<>> => m.up[1] = Hello
      BY <1>3, <2>1, <2>4, <2>5, <3>1 DEF Shaped
    <3>3. \A i \in DOMAIN m.up : m.up[i] = Hello => i = 1 /\ m.broker = "hello"
      BY <1>3, <2>1, <2>4, <3>1 DEF Shaped
    <3> QED BY <2>1, <2>7, <3>2, <3>3 DEF Shaped
  <2> QED BY <2>6, <2>7 DEF m
<1>4. ASSUME NEW l \in Links, Shaped(l), NEW down \in Seq(Deliveries)
      PROVE  Shaped(BrokerCloses(l, down))
  <2> DEFINE m == BrokerCloses(l, down)
  <2>1. /\ m.broker = "closed" /\ m.agent = l.agent /\ m.up = <<>>
        /\ m.down = IF l.agent = "closed" THEN <<>> ELSE down
    BY CloseFields
  <2> HIDE DEF m
  <2>2. Shaped(m) BY <2>1 DEF Shaped
  <2> QED BY <2>2 DEF m
<1> QED BY <1>1, <1>2, <1>3, <1>4

\* A frame read or written on an open connection keeps its shape.
LEMMA ShapeKept ==
    ASSUME NEW l \in Links, NEW m \in Links, Shaped(l)
    PROVE  /\ \A r \in Frames :
                 /\ r # Hello /\ l.broker # "closed" /\ l.agent = "open"
                 /\ m.agent = l.agent /\ m.broker = l.broker /\ m.down = l.down
                 /\ m.up = Append(l.up, r)
                 => Shaped(m)
           /\ /\ l.up # <<>> /\ l.broker # "closed" /\ m.broker = "serving" /\ m.agent = l.agent
              /\ m.up = Tail(l.up) /\ m.down = l.down
              => Shaped(m)
           /\ l.agent = "open" /\ m.agent = l.agent /\ m.broker = l.broker /\ m.up = l.up => Shaped(m)
<1>1. l.up \in Seq(Frames) BY DEF Links
<1>2. ASSUME NEW r \in Frames, r # Hello, l.broker # "closed", l.agent = "open",
             m.agent = l.agent, m.broker = l.broker, m.down = l.down, m.up = Append(l.up, r)
      PROVE  Shaped(m)
  <2> DEFINE u == l.up
  <2> HIDE DEF u
  <2>0. u \in Seq(Frames) BY <1>1 DEF u
  <2>1. DOMAIN Append(u, r) = 1..(Len(u) + 1) /\ DOMAIN u = 1..Len(u) /\ Len(u) \in Nat BY <2>0
  <2>2. \A i \in 1..Len(u) : Append(u, r)[i] = u[i] BY <2>0
  <2>3. Append(u, r)[Len(u) + 1] = r /\ Append(u, r) # <<>> BY <2>0
  <2>4. u # <<>> => 1 \in 1..Len(u) BY <2>0
  <2>5. m.up = Append(u, r) BY <1>2 DEF u
  <2>6. \A i \in DOMAIN m.up : m.up[i] = Hello => i \in DOMAIN u /\ u[i] = Hello
    BY <1>2, <2>1, <2>2, <2>3, <2>5
  <2>7. \A i \in DOMAIN m.up : m.up[i] = Hello => i = 1 /\ m.broker = "hello"
    BY <1>2, <2>6 DEF Shaped, u
  <2>8. m.broker = "hello" => m.up[1] = Hello
    BY <1>2, <2>2, <2>4, <2>5 DEF Shaped, u
  <2> QED BY <1>2, <2>3, <2>5, <2>7, <2>8 DEF Shaped
<1>3. ASSUME l.up # <<>>, l.broker # "closed", m.broker = "serving", m.agent = l.agent,
             m.up = Tail(l.up), m.down = l.down
      PROVE  Shaped(m)
  <2> DEFINE u == l.up
  <2> HIDE DEF u
  <2>0. u \in Seq(Frames) /\ u # <<>> BY <1>1, <1>3 DEF u
  <2>1. \A i \in DOMAIN Tail(u) : Tail(u)[i] = u[i + 1] /\ i + 1 \in DOMAIN u /\ i + 1 # 1 BY <2>0
  <2>2. m.up = Tail(u) BY <1>3 DEF u
  <2>3. \A i \in DOMAIN u : u[i] = Hello => i = 1 BY DEF Shaped, u
  <2>4. \A i \in DOMAIN m.up : m.up[i] # Hello BY <2>1, <2>2, <2>3
  <2> QED BY <1>3, <2>4 DEF Shaped
<1>4. ASSUME l.agent = "open", m.agent = l.agent, m.broker = l.broker, m.up = l.up PROVE Shaped(m)
  BY <1>4 DEF Shaped
<1> QED BY <1>2, <1>3, <1>4

-----------------------------------------------------------------------------
(***************************************************************************)
(* The two ends of each connection.                                        *)
(***************************************************************************)
\* The two ends of each connection, and where the Agent and the router stand.
Ends(c) ==
    /\ Shaped(link[c])
    /\ link[c].agent = "open" => c = transport \/ c = opening
    /\ link[c].broker = "serving" <=> registered = c

\* The phase agrees with the ends: the transport is open, a connection that opens is another one,
\* and the program waits only when it has sent everything.
EndsInv ==
    /\ transport # NoConnection => link[transport].agent = "open"
    /\ opening # NoConnection =>
           link[opening].agent = "open" /\ opening # transport /\ phase = "connecting"
    /\ phase = "waiting" => outbox = <<>>
    /\ \A c \in Connections : Ends(c)

\* What the Agent has still to send is no hello.
NoHello == \A i \in DOMAIN outbox : outbox[i] # Hello

\* A step that replaces the record of one connection.
Replaces(c, l) == link'[c] = l /\ \A d \in Connections : d # c => link'[d] = link[d]

\* The step that replaces the record of one connection replaces no other.
LEMMA Replacing ==
    ASSUME LinkOK, NEW c \in Connections, NEW l, link' = [link EXCEPT ![c] = l]
    PROVE  Replaces(c, l)
BY DEF LinkOK, Replaces

\* What a step must keep for the other connections, and show of the one that it replaces.
LEMMA EndsOfOne ==
    ASSUME EndsInv, NEW c \in Connections, NEW l, Replaces(c, l), Shaped(l),
           l.agent = "open" => c = transport' \/ c = opening',
           l.broker = "serving" <=> registered' = c,
           \A d \in Connections : d # c /\ (d = transport \/ d = opening) =>
               d = transport' \/ d = opening',
           \A d \in Connections : d # c => (registered' = d <=> registered = d)
    PROVE  \A d \in Connections : Ends(d)'
<1> SUFFICES ASSUME NEW d \in Connections PROVE Ends(d)' OBVIOUS
<1>1. CASE d = c
  BY <1>1 DEF Ends, Replaces
<1>2. CASE d # c
  <2>1. Ends(d) /\ link'[d] = link[d] BY <1>2 DEF EndsInv, Replaces
  <2>2. Shaped(link'[d]) BY <2>1 DEF Ends
  <2>3. link'[d].agent = "open" => d = transport' \/ d = opening' BY <1>2, <2>1 DEF Ends
  <2>4. link'[d].broker = "serving" <=> registered' = d BY <1>2, <2>1 DEF Ends
  <2> QED BY <2>2, <2>3, <2>4 DEF Ends
<1> QED BY <1>1, <1>2

\* A step that leaves the connections, the transport and the registration alone.
LEMMA EndsUnchanged ==
    ASSUME EndsInv, UNCHANGED <<link, transport, opening, registered>>,
           opening # NoConnection => phase' = "connecting",
           phase' = "waiting" => outbox' = <<>>
    PROVE  EndsInv'
<1>1. \A c \in Connections : Ends(c)' BY DEF EndsInv, Ends
<1> QED BY <1>1 DEF EndsInv

\* A connection opens: only its own ends change.
LEMMA OpenEnds ==
    ASSUME TypeOK, EndsInv, NEW c \in Connections, Open(c) PROVE EndsInv'
<1>1. /\ phase' = phase /\ outbox' = outbox /\ transport' = transport /\ registered' = registered
      /\ opening = NoConnection /\ opening' = c /\ phase = "connecting" /\ link[c] = Closed
  BY DEF Open, brokerVars
<1>2. Replaces(c, Accepted) BY Replacing DEF Open, TypeOK
<1>3. /\ Accepted.agent = "open" /\ Accepted.broker = "hello"
      /\ Closed.agent = "closed" /\ Closed.broker = "closed"
  BY DEF Accepted, Closed
<1>4. registered # c BY <1>1, <1>3 DEF EndsInv, Ends
<1>5. transport # c BY <1>1, <1>3, ConnectionAssumption DEF EndsInv
<1>7. \A d \in Connections : Ends(d)'
  <2>1. \A d \in Connections : d = transport \/ d = opening => d = transport'
    BY <1>1, ConnectionAssumption
  <2>2. Shaped(Accepted) BY Shapes
  <2> QED BY <1>1, <1>2, <1>3, <1>4, <2>1, <2>2, EndsOfOne
<1>8. transport' # NoConnection => link'[transport'].agent = "open"
  BY <1>1, <1>2, <1>5 DEF EndsInv, Replaces, TypeOK, AgentOK
<1>9. link'[opening'].agent = "open" BY <1>1, <1>2, <1>3 DEF Replaces
<1> QED BY <1>1, <1>5, <1>7, <1>8, <1>9 DEF EndsInv

\* The hello fails: the Agent gives up the connection that it opened.
LEMMA HelloFailsEnds ==
    ASSUME TypeOK, EndsInv, HelloFails PROVE EndsInv'
<1>1. /\ opening # NoConnection /\ opening' = NoConnection /\ transport' = transport
      /\ registered' = registered /\ outbox' = outbox
      /\ phase' = IF role \in Library THEN "failed" ELSE phase
  BY DEF HelloFails, brokerVars
<1>2. opening \in Connections /\ opening # transport /\ phase = "connecting"
  BY <1>1 DEF TypeOK, AgentOK, EndsInv
<1>3. PICK up \in Prefixes(link[opening].up) :
          link' = [link EXCEPT ![opening] = AgentCloses(link[opening], up)]
  BY DEF HelloFails
<1> DEFINE l == AgentCloses(link[opening], up)
<1>4. Replaces(opening, l) BY <1>2, <1>3, Replacing DEF TypeOK
<1>5. link[opening] \in Links /\ Ends(opening) BY <1>2, LinkUpdates DEF TypeOK, EndsInv
<1>6. Shaped(l) /\ l.agent = "closed" /\ l.broker = link[opening].broker
  BY <1>5, Shapes, CloseFields DEF Ends
<1> HIDE DEF l
<1>7. \A d \in Connections : Ends(d)'
  <2>1. l.broker = "serving" <=> registered' = opening BY <1>1, <1>5, <1>6 DEF Ends
  <2> QED BY <1>1, <1>2, <1>4, <1>6, <2>1, EndsOfOne
<1>8. transport' # NoConnection => link'[transport'].agent = "open"
  BY <1>1, <1>2, <1>4 DEF EndsInv, Replaces, TypeOK, AgentOK
<1> QED BY <1>1, <1>2, <1>7, <1>8 DEF EndsInv

\* The new transport replaces the old one, whose Agent end closes.
LEMMA AdoptEnds ==
    ASSUME TypeOK, EndsInv, Adopt PROVE EndsInv'
<1>1. /\ opening # NoConnection /\ opening' = NoConnection /\ transport' = opening
      /\ registered' = registered /\ outbox' = outbox
      /\ phase' = IF outbox = <<>> THEN "waiting" ELSE "sending"
  BY DEF Adopt, brokerVars
<1>2. /\ opening \in Connections /\ opening # transport /\ phase = "connecting"
      /\ link[opening].agent = "open"
  BY <1>1 DEF TypeOK, AgentOK, EndsInv
<1>3. CASE transport = NoConnection
  <2>1. link' = link BY <1>3 DEF Adopt
  <2>2. \A c \in Connections : Ends(c)'
    BY <1>1, <1>3, <2>1, ConnectionAssumption DEF EndsInv, Ends
  <2> QED BY <1>1, <1>2, <2>1, <2>2 DEF EndsInv
<1>4. CASE transport # NoConnection
  <2>1. transport \in Connections BY <1>4 DEF TypeOK, AgentOK
  <2>2. PICK up \in Prefixes(link[transport].up) :
            link' = [link EXCEPT ![transport] = AgentCloses(link[transport], up)]
    BY <1>4 DEF Adopt
  <2> DEFINE l == AgentCloses(link[transport], up)
  <2>3. Replaces(transport, l) BY <2>1, <2>2, Replacing DEF TypeOK
  <2>4. link[transport] \in Links /\ Ends(transport) BY <2>1, LinkUpdates DEF TypeOK, EndsInv
  <2>5. Shaped(l) /\ l.agent = "closed" /\ l.broker = link[transport].broker
    BY <2>4, Shapes, CloseFields DEF Ends
  <2> HIDE DEF l
  <2>6. \A d \in Connections : Ends(d)'
    <3>1. l.broker = "serving" <=> registered' = transport BY <1>1, <2>4, <2>5 DEF Ends
    <3> QED BY <1>1, <1>2, <2>1, <2>3, <2>5, <3>1, EndsOfOne
  <2>7. link'[opening].agent = "open" BY <1>2, <2>3 DEF Replaces
  <2> QED BY <1>1, <2>6, <2>7 DEF EndsInv
<1> QED BY <1>3, <1>4

\* A failed write leaves the transport in place, and the frame may be in flight.
LEMMA SendFailsEnds ==
    ASSUME TypeOK, EndsInv, NoHello, SendFails PROVE EndsInv'
<1>1. /\ phase = "sending" /\ UNCHANGED <<transport, opening, registered, outbox>>
      /\ phase' # "waiting"
  BY DEF SendFails, brokerVars
<1>2. /\ transport \in Connections /\ outbox \in Seq(Frames) /\ outbox # <<>>
      /\ opening = NoConnection
  BY <1>1 DEF TypeOK, AgentOK, EndsInv
<1>3. CASE link' = link BY <1>1, <1>2, <1>3, EndsUnchanged
<1>4. CASE BrokerOpen(transport) /\
           link' = [link EXCEPT ![transport].up = Append(link[transport].up, Head(outbox))]
  <2> DEFINE r == Head(outbox)
             l == [link[transport] EXCEPT !.up = Append(link[transport].up, r)]
  <2>1. r \in Frames /\ r # Hello BY <1>2 DEF NoHello
  <2>2. link[transport] \in Links /\ l \in Links
    BY <1>2, <2>1, LinkUpdates, LinkSequences DEF TypeOK
  <2>3. /\ l.agent = link[transport].agent /\ l.broker = link[transport].broker
        /\ l.down = link[transport].down /\ l.up = Append(link[transport].up, r)
    BY <2>2 DEF Links
  <2>4. Replaces(transport, l) BY <1>2, <1>4, Replacing DEF TypeOK
  <2>5. Ends(transport) /\ link[transport].agent = "open"
    BY <1>2, ConnectionAssumption DEF EndsInv
  <2> HIDE DEF l, r
  <2>6. Shaped(l) BY <1>4, <2>1, <2>2, <2>3, <2>5, ShapeKept DEF Ends, BrokerOpen
  <2>7. \A d \in Connections : Ends(d)'
    <3>1. l.broker = "serving" <=> registered' = transport BY <1>1, <2>3, <2>5 DEF Ends
    <3> QED BY <1>1, <1>2, <2>4, <2>6, <3>1, EndsOfOne
  <2>8. link'[transport].agent = "open" BY <2>3, <2>4, <2>5 DEF Replaces
  <2> QED BY <1>1, <1>2, <2>7, <2>8 DEF EndsInv
<1> QED BY <1>3, <1>4 DEF SendFails

\* The record that SendOk puts in the place of the transport's.
Sent == IF BrokerOpen(transport)
        THEN [link[transport] EXCEPT !.up = Append(@, Head(outbox))]
        ELSE link[transport]

\* The frame is in flight unless brokerd has closed its end; the last frame of a publisher is
\* followed by the end of the connection.
LEMMA SendOkLink ==
    ASSUME TypeOK, EndsInv, NoHello, SendOk
    PROVE  /\ transport \in Connections /\ outbox # <<>> /\ opening = NoConnection
           /\ Head(outbox) \in Frames /\ Head(outbox) # Hello
           /\ Ends(transport) /\ link[transport].agent = "open" /\ link[transport] \in Links
           /\ Sent \in Links /\ Shaped(Sent)
           /\ Sent.agent = "open" /\ Sent.broker = link[transport].broker
           /\ Sent.down = link[transport].down
           /\ Sent.up = IF BrokerOpen(transport) THEN Append(link[transport].up, Head(outbox))
                        ELSE link[transport].up
           /\ \/ /\ ~(role = "publisher" /\ Tail(outbox) = <<>>)
                 /\ Replaces(transport, Sent) /\ transport' = transport
              \/ /\ role = "publisher" /\ Tail(outbox) = <<>>
                 /\ transport' = NoConnection
                 /\ \E up \in Prefixes(Sent.up) : Replaces(transport, AgentCloses(Sent, up))
<1>1. phase = "sending" BY DEF SendOk
<1>2. /\ transport \in Connections /\ outbox \in Seq(Frames) /\ outbox # <<>>
      /\ opening = NoConnection
  BY <1>1 DEF TypeOK, AgentOK, EndsInv
<1>3. Head(outbox) \in Frames /\ Head(outbox) # Hello BY <1>2 DEF NoHello
<1>4. Ends(transport) /\ link[transport].agent = "open" /\ link[transport] \in Links
  BY <1>2, ConnectionAssumption, LinkUpdates DEF EndsInv, TypeOK
<1>5. /\ Sent \in Links /\ Shaped(Sent)
      /\ Sent.agent = "open" /\ Sent.broker = link[transport].broker
      /\ Sent.down = link[transport].down
      /\ Sent.up = IF BrokerOpen(transport) THEN Append(link[transport].up, Head(outbox))
                   ELSE link[transport].up
  <2>1. CASE BrokerOpen(transport)
    <3> DEFINE r == Head(outbox)
    <3> HIDE DEF r
    <3>1. Sent = [link[transport] EXCEPT !.up = Append(link[transport].up, r)]
      BY <2>1 DEF Sent, r
    <3>2. Sent \in Links BY <1>2, <1>3, <3>1, LinkUpdates, LinkSequences DEF TypeOK, r
    <3>3. /\ Sent.agent = "open" /\ Sent.broker = link[transport].broker
          /\ Sent.down = link[transport].down /\ Sent.up = Append(link[transport].up, r)
      BY <1>4, <3>1 DEF Links
    <3>4. Shaped(Sent)
      BY <1>3, <1>4, <2>1, <3>2, <3>3, ShapeKept DEF Ends, BrokerOpen, r
    <3> QED BY <2>1, <3>2, <3>3, <3>4 DEF r
  <2>2. CASE ~BrokerOpen(transport)
    BY <1>4, <2>2 DEF Sent, Ends
  <2> QED BY <2>1, <2>2
<1>7. \/ /\ ~(role = "publisher" /\ Tail(outbox) = <<>>)
         /\ link' = [link EXCEPT ![transport] = Sent] /\ transport' = transport
      \/ /\ role = "publisher" /\ Tail(outbox) = <<>> /\ transport' = NoConnection
         /\ \E up \in Prefixes(Sent.up) :
                link' = [link EXCEPT ![transport] = AgentCloses(Sent, up)]
  <2> DEFINE leaves == role = "publisher" /\ Tail(outbox) = <<>>
  <2>1. PICK up \in (IF leaves THEN Prefixes(Sent.up) ELSE {Sent.up}) :
           /\ link' = [link EXCEPT ![transport] = IF leaves THEN AgentCloses(Sent, up) ELSE Sent]
           /\ transport' = IF leaves THEN NoConnection ELSE transport
    BY DEF SendOk, Sent
  <2>2. CASE leaves BY <2>1, <2>2
  <2>3. CASE ~leaves BY <2>1, <2>3
  <2> QED BY <2>2, <2>3
<1>8. \/ /\ ~(role = "publisher" /\ Tail(outbox) = <<>>)
         /\ Replaces(transport, Sent) /\ transport' = transport
      \/ /\ role = "publisher" /\ Tail(outbox) = <<>> /\ transport' = NoConnection
         /\ \E up \in Prefixes(Sent.up) : Replaces(transport, AgentCloses(Sent, up))
  BY <1>2, <1>7, Replacing DEF TypeOK
<1> QED BY <1>2, <1>3, <1>4, <1>5, <1>8

\* The Agent sends, and the programs that end with a write close their connection.
LEMMA SendOkEnds ==
    ASSUME TypeOK, EndsInv, NoHello, SendOk PROVE EndsInv'
<1>1. /\ phase' = IF Tail(outbox) # <<>> THEN "sending"
                 ELSE IF role = "publisher" THEN "idle" ELSE "waiting"
      /\ outbox' = Tail(outbox) /\ registered' = registered /\ opening' = opening
  BY DEF SendOk, brokerVars
<1>2. /\ transport \in Connections /\ opening = NoConnection
      /\ Ends(transport) /\ link[transport].agent = "open"
      /\ Sent \in Links /\ Shaped(Sent)
      /\ Sent.agent = "open" /\ Sent.broker = link[transport].broker
  BY SendOkLink
<1>3. CASE Replaces(transport, Sent) /\ transport' = transport
  <2>1. \A d \in Connections : Ends(d)'
    <3>1. Sent.broker = "serving" <=> registered' = transport BY <1>1, <1>2 DEF Ends
    <3> QED BY <1>1, <1>2, <1>3, <3>1, EndsOfOne
  <2>2. link'[transport].agent = "open" BY <1>2, <1>3 DEF Replaces
  <2> QED BY <1>1, <1>2, <1>3, <2>1, <2>2 DEF EndsInv
<1>4. ASSUME NEW up \in Prefixes(Sent.up), Replaces(transport, AgentCloses(Sent, up)),
             transport' = NoConnection
      PROVE  EndsInv'
  <2> DEFINE l == AgentCloses(Sent, up)
  <2>1. Shaped(l) /\ l.agent = "closed" /\ l.broker = link[transport].broker
    BY <1>2, Shapes, CloseFields
  <2>2. Replaces(transport, l) BY <1>4
  <2> HIDE DEF l
  <2>3. \A d \in Connections : Ends(d)'
    <3>1. l.broker = "serving" <=> registered' = transport BY <1>1, <1>2, <2>1 DEF Ends
    <3>2. \A d \in Connections : d # opening BY <1>2, ConnectionAssumption
    <3> QED BY <1>1, <1>2, <2>1, <2>2, <3>1, <3>2, EndsOfOne
  <2> QED BY <1>1, <1>2, <1>4, <2>3 DEF EndsInv
<1> QED BY <1>3, <1>4, SendOkLink

\* A frame is read from the transport.
LEMMA ArrivesLink ==
    ASSUME TypeOK, EndsInv, Arrives
    PROVE  /\ transport \in Connections /\ opening = NoConnection /\ outbox = <<>>
           /\ phase = "waiting"
           /\ Ends(transport) /\ link[transport].agent = "open" /\ link[transport] \in Links
           /\ link[transport].down \in Seq(Deliveries) /\ link[transport].down # <<>>
           /\ \E l \in Links :
                 /\ Replaces(transport, l) /\ Shaped(l)
                 /\ l.agent = "open" /\ l.broker = link[transport].broker
                 /\ l.up = link[transport].up /\ l.down = Tail(link[transport].down)
<1>1. /\ transport \in Connections /\ opening = NoConnection /\ outbox = <<>>
      /\ link[transport].down # <<>> /\ phase = "waiting"
  BY DEF Arrives, TypeOK, AgentOK, EndsInv
<1>2. /\ Ends(transport) /\ link[transport].agent = "open" /\ link[transport] \in Links
      /\ link[transport].down \in Seq(Deliveries)
  BY <1>1, ConnectionAssumption, LinkUpdates DEF EndsInv, TypeOK
<1> DEFINE l == [link[transport] EXCEPT !.down = Tail(link[transport].down)]
<1>3. Tail(link[transport].down) \in Seq(Deliveries) BY <1>1, LinkSequences DEF TypeOK
<1>4. l \in Links BY <1>2, <1>3 DEF Links
<1>5. /\ l.agent = "open" /\ l.broker = link[transport].broker
      /\ l.up = link[transport].up /\ l.down = Tail(link[transport].down)
  BY <1>2 DEF Links
<1>6. Replaces(transport, l) BY <1>1, Replacing DEF Arrives, TypeOK
<1> HIDE DEF l
<1>7. Shaped(l) BY <1>2, <1>4, <1>5, ShapeKept DEF Ends
<1> QED BY <1>1, <1>2, <1>4, <1>5, <1>6, <1>7

\* A delivery is read from the transport.
LEMMA ArrivesEnds ==
    ASSUME TypeOK, EndsInv, Arrives, UNCHANGED <<transport, opening, registered>>,
           phase' = "waiting" => outbox' = <<>>
    PROVE  EndsInv'
<1>1. /\ transport \in Connections /\ opening = NoConnection /\ Ends(transport)
      /\ link[transport].agent = "open"
  BY ArrivesLink
<1>2. PICK l \in Links :
         /\ Replaces(transport, l) /\ Shaped(l)
         /\ l.agent = "open" /\ l.broker = link[transport].broker
  BY ArrivesLink
<1>3. \A d \in Connections : Ends(d)'
  <2>1. l.broker = "serving" <=> registered' = transport BY <1>1, <1>2 DEF Ends
  <2> QED BY <1>1, <1>2, <2>1, EndsOfOne
<1>4. link'[transport].agent = "open" BY <1>2 DEF Replaces
<1> QED BY <1>1, <1>3, <1>4 DEF EndsInv

\* A step of a connection task leaves the Agent and its ends of the connections alone.
LEMMA TaskEnds ==
    ASSUME TypeOK, EndsInv, UNCHANGED agentVars, NEW c \in Connections, NEW l, Replaces(c, l),
           Shaped(l), l.agent = link[c].agent, l.broker = "serving" <=> registered' = c,
           \A d \in Connections : d # c => (registered' = d <=> registered = d)
    PROVE  EndsInv'
<1>1. /\ transport' = transport /\ opening' = opening /\ phase' = phase /\ outbox' = outbox
  BY DEF agentVars
<1>2. \A d \in Connections : link'[d].agent = link[d].agent BY DEF Replaces
<1>3. \A d \in Connections : Ends(d)'
  <2>1. l.agent = "open" => c = transport' \/ c = opening' BY <1>1 DEF EndsInv, Ends
  <2> QED BY <1>1, <2>1, EndsOfOne
<1>4. transport' # NoConnection => link'[transport'].agent = "open"
  BY <1>1, <1>2 DEF EndsInv, TypeOK, AgentOK
<1>5. opening' # NoConnection => link'[opening'].agent = "open"
  BY <1>1, <1>2 DEF EndsInv, TypeOK, AgentOK
<1> QED BY <1>1, <1>3, <1>4, <1>5 DEF EndsInv

\* The end of a connection task.
LEMMA LeavesLink ==
    ASSUME TypeOK, EndsInv, NEW c \in Connections, NEW down \in Seq(Deliveries), Leaves(c, down)
    PROVE  \E l \in Links :
             /\ Replaces(c, l) /\ Shaped(l)
             /\ l.broker = "closed" /\ l.agent = link[c].agent /\ l.up = <<>>
             /\ l.down = IF link[c].agent = "closed" THEN <<>> ELSE down
<1> DEFINE l == BrokerCloses(link[c], down)
<1>1. link[c] \in Links /\ Ends(c) BY LinkUpdates DEF TypeOK, EndsInv
<1>2. l \in Links BY <1>1, LinkTypes
<1>3. Shaped(l) BY <1>1, Shapes DEF Ends
<1>4. /\ l.broker = "closed" /\ l.agent = link[c].agent /\ l.up = <<>>
      /\ l.down = IF link[c].agent = "closed" THEN <<>> ELSE down
  BY <1>1, CloseFields
<1>5. Replaces(c, l) BY Replacing DEF Leaves, TypeOK
<1> QED BY <1>2, <1>3, <1>4, <1>5

\* A connection task ends, and leaves the router's table if it is in it.
LEMMA LeavesEnds ==
    ASSUME TypeOK, EndsInv, UNCHANGED agentVars,
           NEW c \in Connections, NEW down \in Seq(Deliveries), Leaves(c, down)
    PROVE  EndsInv'
<1>1. PICK l \in Links : /\ Replaces(c, l) /\ Shaped(l)
                         /\ l.broker = "closed" /\ l.agent = link[c].agent
  BY LeavesLink
<1>2. registered' = IF registered = c THEN NoConnection ELSE registered BY DEF Leaves
<1>3. registered' # c /\ \A d \in Connections : d # c => (registered' = d <=> registered = d)
  BY <1>2, ConnectionAssumption
<1> QED BY <1>1, <1>3, TaskEnds

\* What brokerd leaves in flight when its write or read failed.
LEMMA LeftType ==
    ASSUME TypeOK, NEW c \in Connections
    PROVE  /\ <<>> \in Seq(Deliveries)
           /\ \A down \in Prefixes(link[c].down) : down \in Seq(Deliveries)
           /\ held # <<>> => Append(link[c].down, Head(held)) \in Seq(Deliveries)
<1>1. link[c].down \in Seq(Deliveries) BY LinkUpdates DEF TypeOK
<1>2. \A down \in Prefixes(link[c].down) : down \in Seq(Deliveries) BY <1>1, PrefixType
<1>3. held # <<>> => Head(held) \in Deliveries BY DEF TypeOK, BrokerOK
<1>4. held # <<>> => Append(link[c].down, Head(held)) \in Seq(Deliveries)
  BY <1>3, LinkSequences DEF TypeOK
<1> QED BY <1>2, <1>4

\* The hello is read and the Agent registered.
LEMMA RegisteredLink ==
    ASSUME TypeOK, EndsInv, NEW c \in Connections, BrokerHello(c), registered = NoConnection
    PROVE  /\ registered' = c
           /\ contended' = (contended \/ \E d \in Connections \ {c} : Unregistered(d))
           /\ link[c].broker = "hello" /\ link[c].up # <<>> /\ link[c].up[1] = Hello
           /\ \E l \in Links :
                /\ Replaces(c, l) /\ Shaped(l)
                /\ l.agent = link[c].agent /\ l.broker = "serving"
                /\ l.up = Tail(link[c].up) /\ l.down = link[c].down
<1>1. /\ registered' = c /\ link[c].broker = "hello" /\ link[c].up # <<>>
      /\ contended' = (contended \/ \E d \in Connections \ {c} : Unregistered(d))
      /\ link' = [link EXCEPT ![c].broker = "serving", ![c].up = Tail(link[c].up)]
  BY DEF BrokerHello, Registers
<1> DEFINE l == [link[c] EXCEPT !.broker = "serving", !.up = Tail(link[c].up)]
<1>2. link[c] \in Links /\ Ends(c) BY LinkUpdates DEF TypeOK, EndsInv
<1>3. Tail(link[c].up) \in Seq(Frames) BY <1>1, LinkSequences DEF TypeOK
<1>4. l \in Links BY <1>2, <1>3 DEF Links
<1>5. /\ l.agent = link[c].agent /\ l.broker = "serving"
      /\ l.up = Tail(link[c].up) /\ l.down = link[c].down
  BY <1>2 DEF Links
<1>6. link' = [link EXCEPT ![c] = l] BY <1>1 DEF TypeOK, LinkOK
<1>7. Replaces(c, l) BY <1>6, Replacing DEF TypeOK
<1> HIDE DEF l
<1>8. Shaped(l) BY <1>1, <1>2, <1>4, <1>5, ShapeKept DEF Ends
<1>9. link[c].up[1] = Hello BY <1>1, <1>2 DEF Ends, Shaped
<1> QED BY <1>1, <1>4, <1>5, <1>7, <1>8, <1>9

\* A request is read.
LEMMA ReadsLink ==
    ASSUME TypeOK, EndsInv, NEW c \in Connections, BrokerReads(c)
    PROVE  /\ link[c].broker = "serving" /\ registered = c /\ link[c].up # <<>>
           /\ Head(link[c].up) # Hello /\ Head(link[c].up) \in Frames
           /\ \E l \in Links :
                /\ Replaces(c, l) /\ Shaped(l)
                /\ l.agent = link[c].agent /\ l.broker = "serving"
                /\ l.up = Tail(link[c].up) /\ l.down = link[c].down
<1>1. /\ link[c].broker = "serving" /\ link[c].up # <<>>
      /\ link' = [link EXCEPT ![c].up = Tail(link[c].up)]
  BY DEF BrokerReads
<1> DEFINE l == [link[c] EXCEPT !.up = Tail(link[c].up)]
<1>2. link[c] \in Links /\ Ends(c) /\ link[c].up \in Seq(Frames)
  BY LinkUpdates DEF TypeOK, EndsInv
<1>3. Tail(link[c].up) \in Seq(Frames) /\ Head(link[c].up) \in Frames
  BY <1>1, LinkSequences DEF TypeOK
<1>4. l \in Links BY <1>2, <1>3 DEF Links
<1>5. /\ l.agent = link[c].agent /\ l.broker = "serving"
      /\ l.up = Tail(link[c].up) /\ l.down = link[c].down
  BY <1>1, <1>2 DEF Links
<1>6. link' = [link EXCEPT ![c] = l] BY <1>1 DEF TypeOK, LinkOK
<1>7. Replaces(c, l) BY <1>6, Replacing DEF TypeOK
<1> HIDE DEF l
<1>8. Shaped(l) BY <1>1, <1>2, <1>4, <1>5, ShapeKept DEF Ends
<1>9. registered = c BY <1>1, <1>2 DEF Ends
<1>10. Head(link[c].up) # Hello
  <2>1. 1 \in DOMAIN link[c].up /\ Head(link[c].up) = link[c].up[1] BY <1>1, <1>2
  <2> QED BY <1>1, <1>2, <2>1 DEF Ends, Shaped
<1> QED BY <1>1, <1>3, <1>4, <1>5, <1>7, <1>8, <1>9, <1>10

\* A delivery is written.
LEMMA WritesLink ==
    ASSUME TypeOK, EndsInv, NEW c \in Connections, BrokerWrites(c)
    PROVE  /\ registered = c /\ held # <<>>
           /\ \/ ~AgentOpen(c) /\ link' = link
              \/ /\ AgentOpen(c)
                 /\ \E l \in Links :
                      /\ Replaces(c, l) /\ Shaped(l)
                      /\ l.agent = link[c].agent /\ l.broker = link[c].broker
                      /\ l.up = link[c].up /\ l.down = Append(link[c].down, Head(held))
<1>1. registered = c /\ held # <<>> BY DEF BrokerWrites
<1>2. CASE ~AgentOpen(c) BY <1>1, <1>2 DEF BrokerWrites
<1>3. CASE AgentOpen(c)
  <2>1. link' = [link EXCEPT ![c].down = Append(link[c].down, Head(held))]
    BY <1>3 DEF BrokerWrites
  <2> DEFINE l == [link[c] EXCEPT !.down = Append(link[c].down, Head(held))]
  <2>2. link[c] \in Links /\ Ends(c) BY LinkUpdates DEF TypeOK, EndsInv
  <2>3. Append(link[c].down, Head(held)) \in Seq(Deliveries) BY <1>1, LeftType
  <2>4. l \in Links BY <2>2, <2>3 DEF Links
  <2>5. /\ l.agent = link[c].agent /\ l.broker = link[c].broker
        /\ l.up = link[c].up /\ l.down = Append(link[c].down, Head(held))
    BY <2>2 DEF Links
  <2>6. link' = [link EXCEPT ![c] = l] BY <2>1 DEF TypeOK, LinkOK
  <2>7. Replaces(c, l) BY <2>6, Replacing DEF TypeOK
  <2>8. link[c].agent = "open" BY <1>3, <2>2 DEF AgentOpen, Links
  <2> HIDE DEF l
  <2>9. Shaped(l) BY <2>2, <2>4, <2>5, <2>8, ShapeKept DEF Ends
  <2> QED BY <1>1, <1>3, <2>4, <2>5, <2>7, <2>9
<1> QED BY <1>2, <1>3

\* Every step keeps the ends as EndsInv has them.
LEMMA EndsNext ==
    ASSUME TypeOK, EndsInv, NoHello, [Next]_vars PROVE EndsInv'
<1>1. CASE PublishLine \/ PublishWhileWaiting
  <2>1. /\ UNCHANGED <<link, transport, opening, registered>> /\ phase # "connecting"
        /\ phase' # "waiting"
    BY <1>1 DEF PublishLine, PublishWhileWaiting, brokerVars
  <2> QED BY <2>1, EndsUnchanged DEF EndsInv
<1>2. CASE ReceiveFails \/ ReceiveEnds
  <2>1. /\ UNCHANGED <<link, transport, opening, registered>> /\ phase = "waiting"
        /\ phase' # "waiting"
    BY <1>2 DEF ReceiveFails, ReceiveEnds, brokerVars
  <2> QED BY <2>1, EndsUnchanged DEF EndsInv
<1>3. CASE CaDelivers \/ CaDrops \/ LinkStep \/ Tick \/ UNCHANGED vars
  <2>1. UNCHANGED <<link, transport, opening, registered, phase, outbox>>
    BY <1>3 DEF CaDelivers, CaDrops, LinkStep, RouteOnline, RouteOffline, Enqueue, Tick,
                vars, agentVars, brokerVars
  <2> QED BY <2>1, EndsUnchanged DEF EndsInv
<1>4. CASE ReceiveOther \/ ReceiveRefused \/ ReceiveUnusable \/ Receive
  <2>1. Arrives /\ UNCHANGED <<transport, opening, registered>>
    BY <1>4 DEF ReceiveOther, ReceiveRefused, ReceiveUnusable, Receive, Marks, brokerVars
  <2>2. outbox = <<>> BY <2>1, ArrivesLink
  <2>3. phase' = "waiting" => outbox' = outbox
    BY <1>4 DEF ReceiveOther, ReceiveRefused, ReceiveUnusable, Receive
  <2> QED BY <2>1, <2>2, <2>3, ArrivesEnds
<1>5. ASSUME NEW c \in Connections, BrokerHello(c) PROVE EndsInv'
  <2>1. UNCHANGED agentVars BY <1>5 DEF BrokerHello
  <2>2. CASE registered = NoConnection
    <3>1. registered' = c BY <1>5, <2>2, RegisteredLink
    <3>2. PICK l \in Links : /\ Replaces(c, l) /\ Shaped(l)
                             /\ l.agent = link[c].agent /\ l.broker = "serving"
      BY <1>5, <2>2, RegisteredLink
    <3>3. \A d \in Connections : d # c => (registered' = d <=> registered = d)
      BY <2>2, <3>1, ConnectionAssumption
    <3> QED BY <2>1, <3>1, <3>2, <3>3, TaskEnds
  <2>3. CASE registered # NoConnection
    <3>1. Leaves(c, <<>>) BY <1>5, <2>3 DEF BrokerHello
    <3> QED BY <2>1, <3>1, LeftType, LeavesEnds
  <2> QED BY <2>2, <2>3
<1>6. ASSUME NEW c \in Connections, BrokerReads(c) PROVE EndsInv'
  <2>1. UNCHANGED agentVars /\ registered' = registered BY <1>6 DEF BrokerReads
  <2>2. registered = c BY <1>6, ReadsLink
  <2>3. PICK l \in Links : /\ Replaces(c, l) /\ Shaped(l)
                           /\ l.agent = link[c].agent /\ l.broker = "serving"
    BY <1>6, ReadsLink
  <2> QED BY <2>1, <2>2, <2>3, TaskEnds
<1>7. ASSUME NEW c \in Connections, BrokerWrites(c) PROVE EndsInv'
  <2>1. UNCHANGED agentVars /\ registered' = registered BY <1>7 DEF BrokerWrites
  <2>2. registered = c /\ link[c].broker = "serving" BY <1>7 DEF BrokerWrites
  <2>3. CASE link' = link
    BY <2>1, <2>3, EndsUnchanged DEF agentVars, EndsInv
  <2>4. ASSUME NEW l \in Links, Replaces(c, l), Shaped(l), l.agent = link[c].agent,
               l.broker = link[c].broker
        PROVE  EndsInv'
    BY <2>1, <2>2, <2>4, TaskEnds
  <2> QED BY <1>7, <2>3, <2>4, WritesLink
<1>8. ASSUME NEW c \in Connections, BrokerRefuses(c) \/ BrokerWriteFails(c)
                                    \/ BrokerReadFails(c) \/ BrokerEof(c)
      PROVE  EndsInv'
  <2>1. UNCHANGED agentVars BY <1>8 DEF BrokerRefuses, BrokerWriteFails, BrokerReadFails, BrokerEof
  <2>2. PICK down \in Seq(Deliveries) : Leaves(c, down)
    BY <1>8, LeftType DEF BrokerRefuses, BrokerWriteFails, BrokerReadFails, BrokerEof
  <2> QED BY <2>1, <2>2, LeavesEnds
<1> QED BY <1>1, <1>2, <1>3, <1>4, <1>5, <1>6, <1>7, <1>8, OpenEnds, HelloFailsEnds, AdoptEnds,
           SendOkEnds, SendFailsEnds
        DEF Next, AgentStep, AgentFails, BrokerStep, BrokerFails

-----------------------------------------------------------------------------
(***************************************************************************)
(* What a step does to the requests in flight.                             *)
(***************************************************************************)
\* What a step does to the frames that are in flight to brokerd: some are read or dropped, a
\* connection is opened, or the Agent writes the first request it has to send.
LEMMA UpSteps ==
    ASSUME TypeOK, EndsInv, NoHello, [Next]_vars, NEW c \in Connections
    PROVE  \/ Part(link[c].up, link'[c].up)
           \/ link'[c].up = <<Hello>>
           \/ /\ phase = "sending" /\ (SendOk \/ SendFails) /\ c = transport
              /\ Part(Append(link[c].up, Head(outbox)), link'[c].up)
<1> DEFINE Goal == \/ Part(link[c].up, link'[c].up)
                   \/ link'[c].up = <<Hello>>
                   \/ /\ phase = "sending" /\ (SendOk \/ SendFails) /\ c = transport
                      /\ Part(Append(link[c].up, Head(outbox)), link'[c].up)
<1> SUFFICES Goal OBVIOUS
<1>0. link[c] \in Links /\ link[c].up \in Seq(Frames) BY LinkUpdates DEF TypeOK
<1>1. /\ Part(link[c].up, link[c].up) /\ Part(link[c].up, <<>>)
      /\ link[c].up # <<>> => Part(link[c].up, Tail(link[c].up))
      /\ \A v \in Prefixes(link[c].up) : Part(link[c].up, v)
  BY <1>0, Parts
<1>2. link'[c] = link[c] => Goal BY <1>1
<1>3. ASSUME NEW d \in Connections, NEW l, Replaces(d, l),
             \/ l.up = link[d].up
             \/ l.up = <<>>
             \/ link[d].up # <<>> /\ l.up = Tail(link[d].up)
             \/ l.up \in Prefixes(link[d].up)
      PROVE  Goal
  <2>1. CASE c = d
    <3>1. link'[c].up = l.up BY <1>3, <2>1 DEF Replaces
    <3> QED BY <1>1, <1>3, <2>1, <3>1
  <2>2. CASE c # d BY <1>2, <1>3, <2>2 DEF Replaces
  <2> QED BY <2>1, <2>2
<1>4. ASSUME NEW d \in Connections, NEW up \in Prefixes(link[d].up),
             link' = [link EXCEPT ![d] = AgentCloses(link[d], up)]
      PROVE  Goal
  <2> DEFINE l == AgentCloses(link[d], up)
  <2>1. Replaces(d, l) BY <1>4, Replacing DEF TypeOK
  <2>0. link[d] \in Links BY LinkUpdates DEF TypeOK
  <2>2. l.up = <<>> \/ l.up = up BY <2>0, CloseFields
  <2> HIDE DEF l
  <2> QED BY <1>3, <2>1, <2>2
<1>5. ASSUME NEW d \in Connections, NEW down \in Seq(Deliveries), Leaves(d, down) PROVE Goal
  <2>1. PICK l \in Links : Replaces(d, l) /\ l.up = <<>> BY <1>5, LeavesLink
  <2> QED BY <1>3, <2>1
<1> HIDE DEF Goal
<1>6. ASSUME NEW d \in Connections, Open(d) PROVE Goal
  <2>1. Replaces(d, Accepted) BY <1>6, Replacing DEF TypeOK, Open
  <2>2. Accepted.up = <<Hello>> BY DEF Accepted
  <2>3. c = d \/ link'[c] = link[c] BY <2>1 DEF Replaces
  <2> QED BY <1>2, <2>1, <2>2, <2>3 DEF Replaces, Goal
<1>7. CASE HelloFails
  <2>1. opening \in Connections BY <1>7 DEF HelloFails, TypeOK, AgentOK
  <2> QED BY <1>4, <1>7, <2>1 DEF HelloFails
<1>8. CASE Adopt
  <2>1. CASE transport = NoConnection BY <1>2, <1>8, <2>1 DEF Adopt
  <2>2. CASE transport # NoConnection
    <3>1. transport \in Connections BY <2>2 DEF TypeOK, AgentOK
    <3> QED BY <1>4, <1>8, <2>2, <3>1 DEF Adopt
  <2> QED BY <2>1, <2>2
<1>9. ASSUME phase = "sending", SendOk \/ SendFails, transport \in Connections,
             Head(outbox) \in Frames, NEW l, Replaces(transport, l),
             l.up = <<>> \/ l.up \in Prefixes(link[transport].up) \/
             l.up \in Prefixes(Append(link[transport].up, Head(outbox))) \/
             l.up = Append(link[transport].up, Head(outbox))
      PROVE  Goal
  <2>1. CASE c # transport BY <1>2, <1>9, <2>1 DEF Replaces
  <2>2. CASE c = transport
    <3>0. link'[c].up = l.up BY <1>9, <2>2 DEF Replaces
    <3>1. CASE l.up = <<>> \/ l.up \in Prefixes(link[transport].up)
      BY <1>1, <2>2, <3>0, <3>1 DEF Goal
    <3>2. CASE l.up \in Prefixes(Append(link[transport].up, Head(outbox))) \/
               l.up = Append(link[transport].up, Head(outbox))
      <4> DEFINE w == Append(link[transport].up, Head(outbox))
      <4>1. w \in Seq(Frames) BY <1>9, LinkSequences DEF TypeOK
      <4> HIDE DEF w
      <4>2. Part(w, w) /\ \A v \in Prefixes(w) : Part(w, v) BY <4>1, Parts
      <4>3. Part(w, l.up) BY <3>2, <4>2 DEF w
      <4> QED BY <1>9, <2>2, <3>0, <4>3 DEF Goal, w
    <3> QED BY <1>9, <3>1, <3>2
  <2> QED BY <2>1, <2>2
<1>10. CASE SendOk
  <2>1. phase = "sending" BY <1>10 DEF SendOk
  <2>2. /\ transport \in Connections /\ Head(outbox) \in Frames /\ Sent \in Links
        /\ link[transport].up \in Seq(Frames)
        /\ Sent.up = IF BrokerOpen(transport) THEN Append(link[transport].up, Head(outbox))
                     ELSE link[transport].up
    BY <1>10, SendOkLink, LinkUpdates DEF TypeOK
  <2>3. CASE Replaces(transport, Sent)
    <3>1. CASE BrokerOpen(transport) BY <1>9, <1>10, <2>1, <2>2, <2>3, <3>1
    <3>2. CASE ~BrokerOpen(transport) BY <1>3, <2>2, <2>3, <3>2
    <3> QED BY <3>1, <3>2
  <2>4. ASSUME NEW up \in Prefixes(Sent.up), Replaces(transport, AgentCloses(Sent, up)) PROVE Goal
    <3> DEFINE l == AgentCloses(Sent, up)
    <3>1. l.up = <<>> \/ l.up = up BY <2>2, CloseFields
    <3>2. Replaces(transport, l) BY <2>4
    <3> HIDE DEF l
    <3> QED BY <1>9, <1>10, <2>1, <2>2, <2>4, <3>1, <3>2
  <2> QED BY <1>10, <2>3, <2>4, SendOkLink
<1>11. CASE SendFails
  <2>1. phase = "sending" BY <1>11 DEF SendFails
  <2>2. transport \in Connections /\ outbox \in Seq(Frames) /\ outbox # <<>>
    BY <2>1 DEF TypeOK, AgentOK
  <2>3. CASE link' = link BY <1>2, <2>3
  <2>4. CASE link' = [link EXCEPT ![transport].up = Append(link[transport].up, Head(outbox))]
    <3> DEFINE l == [link[transport] EXCEPT !.up = Append(link[transport].up, Head(outbox))]
    <3>1. Replaces(transport, l) BY <2>2, <2>4, Replacing DEF TypeOK
    <3>2. l.up = Append(link[transport].up, Head(outbox)) BY <2>2, LinkUpdates DEF TypeOK, Links
    <3>3. Head(outbox) \in Frames BY <2>2
    <3> HIDE DEF l
    <3> QED BY <1>9, <1>11, <2>1, <2>2, <3>1, <3>2, <3>3
  <2> QED BY <1>11, <2>3, <2>4 DEF SendFails
<1>12. CASE ReceiveOther \/ ReceiveRefused \/ ReceiveUnusable \/ Receive
  <2>1. Arrives BY <1>12 DEF ReceiveOther, ReceiveRefused, ReceiveUnusable, Receive, Marks
  <2>2. transport \in Connections BY <2>1, ArrivesLink
  <2>3. PICK l \in Links : Replaces(transport, l) /\ l.up = link[transport].up
    BY <2>1, ArrivesLink
  <2> QED BY <1>3, <2>2, <2>3
<1>13. ASSUME NEW d \in Connections, BrokerHello(d) PROVE Goal
  <2>1. CASE registered = NoConnection
    <3>1. link[d].up # <<>> BY <1>13, <2>1, RegisteredLink
    <3>2. PICK l \in Links : Replaces(d, l) /\ l.up = Tail(link[d].up)
      BY <1>13, <2>1, RegisteredLink
    <3> QED BY <1>3, <3>1, <3>2
  <2>2. CASE registered # NoConnection
    <3>1. Leaves(d, <<>>) BY <1>13, <2>2 DEF BrokerHello
    <3> QED BY <1>5, <3>1, LeftType
  <2> QED BY <2>1, <2>2
<1>14. ASSUME NEW d \in Connections, BrokerReads(d) PROVE Goal
  <2>1. link[d].up # <<>> BY <1>14, ReadsLink
  <2>2. PICK l \in Links : Replaces(d, l) /\ l.up = Tail(link[d].up) BY <1>14, ReadsLink
  <2> QED BY <1>3, <2>1, <2>2
<1>15. ASSUME NEW d \in Connections, BrokerWrites(d) PROVE Goal
  <2>1. link' = link => Goal BY <1>2
  <2>2. ASSUME NEW l \in Links, Replaces(d, l), l.up = link[d].up PROVE Goal BY <1>3, <2>2
  <2> QED BY <1>15, <2>1, <2>2, WritesLink
<1>16. ASSUME NEW d \in Connections, BrokerRefuses(d) \/ BrokerWriteFails(d)
                                     \/ BrokerReadFails(d) \/ BrokerEof(d)
       PROVE  Goal
  <2>1. PICK down \in Seq(Deliveries) : Leaves(d, down)
    BY <1>16, LeftType DEF BrokerRefuses, BrokerWriteFails, BrokerReadFails, BrokerEof
  <2> QED BY <1>5, <2>1
<1>17. CASE PublishLine \/ PublishWhileWaiting \/ ReceiveFails \/ ReceiveEnds \/ CaDelivers
           \/ CaDrops \/ LinkStep \/ Tick \/ UNCHANGED vars
  <2>1. link' = link
    BY <1>17 DEF PublishLine, PublishWhileWaiting, ReceiveFails, ReceiveEnds, CaDelivers, CaDrops,
                 LinkStep, RouteOnline, RouteOffline, Enqueue, Tick, vars
  <2> QED BY <1>2, <2>1
<1> QED
  BY <1>6, <1>7, <1>8, <1>10, <1>11, <1>12, <1>13, <1>14, <1>15, <1>16, <1>17
     DEF Next, AgentStep, AgentFails, BrokerStep, BrokerFails

-----------------------------------------------------------------------------
(***************************************************************************)
(* The requests that the program builds: OneSubscriptionPerWait.           *)
(***************************************************************************)
\* A frame is one of the first n requests that the program builds: only a responder, which
\* subscribes again after each delivery, builds more than one subscription.
IsBuilt(f, n) ==
    /\ f.session \in 1..n
    /\ f.kind = "subscribe" => f.session \in (IF role = "one-shot" THEN 2..n ELSE {2})

\* Requests are sent, in flight and applied only if the program built them, and a responder
\* builds one for each delivery that it is given.
RequestsInv ==
    /\ role = "one-shot" => built = 2 + handed
    /\ \A i \in DOMAIN outbox : IsBuilt(outbox[i], built)
    /\ \A c \in Connections : \A i \in DOMAIN link[c].up :
           link[c].up[i] = Hello \/ IsBuilt(link[c].up[i], built)
    /\ \A r \in applied : IsBuilt(r, built)

\* What a step does to the requests that the Agent has still to send.
LEMMA BuiltSteps ==
    ASSUME TypeOK, [Next]_vars
    PROVE  /\ role' = role
           /\ \/ UNCHANGED <<built, outbox>>
              \/ phase = "sending" /\ outbox # <<>> /\ built' = built /\ outbox' = Tail(outbox)
              \/ /\ role = "publisher" /\ built' = built + 2
                 /\ outbox' = <<Request("environment", built + 1), Request("publish", built + 2)>>
              \/ /\ role = "coordinator" /\ built' = built + 1
                 /\ outbox' = <<Request("publish", built + 1)>>
              \/ /\ role = "one-shot" /\ built' = built + 1 /\ Receive
                 /\ outbox' = <<Request("subscribe", built + 1)>>
           /\ role = "one-shot" => handed' = handed + (built' - built)
<1>0. built \in Nat /\ handed \in Nat BY DEF TypeOK, AgentOK, HistoryOK
<1>1. CASE PublishLine
  BY <1>0, <1>1 DEF PublishLine, history
<1>2. CASE PublishWhileWaiting
  BY <1>0, <1>2 DEF PublishWhileWaiting, history
<1>3. CASE SendOk
  <2>1. /\ phase = "sending" /\ outbox' = Tail(outbox) /\ built' = built /\ role' = role
        /\ handed' = handed
    BY <1>3 DEF SendOk, history
  <2>2. outbox # <<>> BY <2>1 DEF TypeOK, AgentOK
  <2> QED BY <1>0, <2>1, <2>2
<1>4. CASE Receive
  <2>1. role' = role /\ handed' = handed + 1 BY <1>4 DEF Receive
  <2>4. CASE role = "one-shot"
    <3>1. built' = built + 1 /\ outbox' = <<Request("subscribe", built + 1)>>
      BY <1>4, <2>4 DEF Receive
    <3> QED BY <1>0, <1>4, <2>1, <2>4, <3>1
  <2>5. CASE role # "one-shot"
    <3>1. UNCHANGED <<built, outbox>> BY <1>4, <2>5 DEF Receive
    <3> QED BY <2>1, <2>5, <3>1
  <2> QED BY <2>4, <2>5
<1>5. UNCHANGED <<role, built, outbox, handed>> => 
      /\ role' = role /\ UNCHANGED <<built, outbox>>
      /\ role = "one-shot" => handed' = handed + (built' - built)
  BY <1>0
<1>6. CASE HelloFails \/ SendFails \/ ReceiveFails \/ ReceiveEnds \/ Adopt \/ ReceiveOther
           \/ ReceiveRefused \/ ReceiveUnusable
  <2>1. UNCHANGED <<role, built, outbox, handed>>
    BY <1>6 DEF HelloFails, SendFails, ReceiveFails, ReceiveEnds, Adopt, ReceiveOther,
                ReceiveRefused, ReceiveUnusable, history
  <2> QED BY <1>5, <2>1
<1>7. CASE \E c \in Connections : Open(c) \/ BrokerStep(c) \/ BrokerFails(c) \/ BrokerEof(c)
  <2>1. UNCHANGED <<role, built, outbox, handed>>
    BY <1>7 DEF Open, BrokerStep, BrokerFails, BrokerReadFails, BrokerEof, BrokerHello, BrokerReads,
              BrokerWrites,
                BrokerRefuses, BrokerWriteFails, agentVars, history
  <2> QED BY <1>5, <2>1
<1>8. CASE CaDelivers \/ CaDrops \/ LinkStep \/ Tick \/ UNCHANGED vars
  <2>1. UNCHANGED <<role, built, outbox, handed>>
    BY <1>8 DEF CaDelivers, CaDrops, LinkStep, RouteOnline, RouteOffline, Enqueue, Tick,
              vars, agentVars, history
  <2> QED BY <1>5, <2>1
<1> QED BY <1>1, <1>2, <1>3, <1>4, <1>6, <1>7, <1>8 DEF Next, AgentStep, AgentFails

\* Only brokerd reads requests: the first one in flight on the connection it reads.
LEMMA TakenSteps ==
    ASSUME TypeOK, EndsInv, [Next]_vars
    PROVE  \/ UNCHANGED <<taken, applied>>
           \/ \E c \in Connections : BrokerReads(c)
<1>1. CASE PublishLine \/ PublishWhileWaiting \/ AgentFails \/ Adopt \/ SendOk \/ ReceiveOther
        \/ ReceiveRefused \/ ReceiveUnusable \/ Receive \/ ReceiveEnds
  BY <1>1 DEF PublishLine, PublishWhileWaiting, AgentFails, HelloFails, SendFails, ReceiveFails,
              Adopt, SendOk, ReceiveOther, ReceiveRefused, ReceiveUnusable, Receive, Marks,
              ReceiveEnds, history
<1>2. CASE \E c \in Connections : Open(c) \/ BrokerStep(c) \/ BrokerFails(c) \/ BrokerEof(c)
  BY <1>2 DEF Open, BrokerStep, BrokerFails, BrokerReadFails, BrokerEof, BrokerHello, BrokerWrites,
              BrokerRefuses, BrokerWriteFails, history
<1>3. CASE CaDelivers \/ CaDrops \/ LinkStep \/ Tick \/ UNCHANGED vars
  BY <1>3 DEF CaDelivers, CaDrops, LinkStep, RouteOnline, RouteOffline, Enqueue, Tick,
              vars, history
<1> QED BY <1>1, <1>2, <1>3 DEF Next, AgentStep

\* A request that the program built is no hello, and stays one that it built.
LEMMA BuiltFrames ==
    ASSUME NEW n \in Nat, NEW m \in Nat, n <= m
    PROVE  \A f : IsBuilt(f, n) => IsBuilt(f, m) /\ f # Hello
BY DEF IsBuilt, Hello

\* Every step keeps it.
LEMMA RequestsNext ==
    ASSUME TypeOK, EndsInv, RequestsInv, [Next]_vars PROVE RequestsInv'
<1>0. built \in Nat /\ handed \in Nat /\ outbox \in Seq(Frames)
  BY DEF TypeOK, AgentOK, HistoryOK
<1>1. NoHello
  <2>1. \A f : IsBuilt(f, built) => f # Hello BY <1>0, BuiltFrames
  <2> QED BY <2>1 DEF NoHello, RequestsInv
<1>2. role' = role /\ built' \in Nat /\ built <= built' BY <1>0, BuiltSteps
<1>3. \A f : IsBuilt(f, built) => IsBuilt(f, built')
  BY <1>0, <1>2, BuiltFrames
<1>4. \A f, n : IsBuilt(f, n)' <=> IsBuilt(f, n') BY <1>2 DEF IsBuilt
<1>5. role = "one-shot" => built' = 2 + handed'
  <2>1. role = "one-shot" => handed' = handed + (built' - built) BY BuiltSteps
  <2>2. role = "one-shot" => built = 2 + handed BY DEF RequestsInv
  <2>3. CASE role = "one-shot"
    <3> DEFINE b == built'
    <3>1. handed' = handed + (b - built) /\ built = 2 + handed BY <2>1, <2>2, <2>3
    <3>2. b \in Nat BY <1>2
    <3> HIDE DEF b
    <3>3. b = 2 + handed' BY <1>0, <3>1, <3>2
    <3> QED BY <3>3 DEF b
  <2> QED BY <2>3
<1>7. \A i \in DOMAIN outbox' : IsBuilt(outbox'[i], built')
  <2>1. CASE UNCHANGED <<built, outbox>> BY <1>3, <2>1 DEF RequestsInv
  <2>2. CASE outbox # <<>> /\ built' = built /\ outbox' = Tail(outbox)
    <3>1. \A i \in DOMAIN outbox' : i + 1 \in DOMAIN outbox /\ outbox'[i] = outbox[i + 1]
      BY <1>0, <2>2
    <3> QED BY <1>3, <3>1 DEF RequestsInv
  <2>3. CASE /\ role = "publisher" /\ built' = built + 2
             /\ outbox' = <<Request("environment", built + 1), Request("publish", built + 2)>>
    BY <1>0, <2>3 DEF IsBuilt, Request
  <2>4. CASE /\ role = "coordinator" /\ built' = built + 1
             /\ outbox' = <<Request("publish", built + 1)>>
    BY <1>0, <2>4 DEF IsBuilt, Request
  <2>5. CASE /\ role = "one-shot" /\ built' = built + 1
             /\ outbox' = <<Request("subscribe", built + 1)>>
    <3>1. built + 1 \in 2..(built + 1) BY <1>0, <2>5 DEF RequestsInv
    <3> QED BY <1>0, <2>5, <3>1 DEF IsBuilt, Request
  <2> QED BY <2>1, <2>2, <2>3, <2>4, <2>5, BuiltSteps
<1>8. ASSUME NEW c \in Connections, NEW i \in DOMAIN link'[c].up
      PROVE  link'[c].up[i] = Hello \/ IsBuilt(link'[c].up[i], built')
  <2> DEFINE u == link[c].up
             v == link'[c].up
  <2>1. u \in Seq(Frames) /\ v \in Seq(Frames)
    <3>1. LinkOK' BY TypeNext DEF TypeOK
    <3> QED BY <3>1, LinkUpdates DEF TypeOK, LinkOK, Links
  <2>2. \A m \in DOMAIN u : u[m] = Hello \/ IsBuilt(u[m], built') BY <1>3 DEF RequestsInv
  <2>3. i \in DOMAIN v BY <1>8
  <2>4. /\ phase = "sending" => outbox # <<>>
        /\ outbox # <<>> => Head(outbox) \in Frames /\ IsBuilt(Head(outbox), built')
    <3>1. outbox # <<>> => 1 \in DOMAIN outbox /\ Head(outbox) = outbox[1] /\ outbox[1] \in Frames
      BY <1>0
    <3> QED BY <1>3, <3>1 DEF RequestsInv, TypeOK, AgentOK
  <2>5. \/ Part(u, v) \/ v = <<Hello>>
        \/ phase = "sending" /\ Part(Append(u, Head(outbox)), v)
    BY <1>1, UpSteps
  <2> HIDE DEF u, v
  <2>6. CASE Part(u, v) BY <2>1, <2>2, <2>3, <2>6, PartElements DEF v
  <2>7. CASE v = <<Hello>> BY <2>3, <2>7 DEF v
  <2>8. CASE phase = "sending" /\ Part(Append(u, Head(outbox)), v)
    <3> DEFINE r == Head(outbox)
    <3>1. r \in Frames /\ IsBuilt(r, built') /\ Part(Append(u, r), v) BY <2>4, <2>8
    <3> HIDE DEF r
    <3>2. v[i] = r \/ \E m \in DOMAIN u : m >= i /\ v[i] = u[m]
      BY <2>1, <2>3, <3>1, AppendElements
    <3> QED BY <2>2, <3>1, <3>2 DEF v
  <2> QED BY <2>5, <2>6, <2>7, <2>8
<1>9. \A r \in applied' : IsBuilt(r, built')
  <2>1. CASE UNCHANGED <<taken, applied>> BY <1>3, <2>1 DEF RequestsInv
  <2>2. ASSUME NEW c \in Connections, BrokerReads(c) PROVE \A r \in applied' : IsBuilt(r, built')
    <3>1. /\ link[c].up # <<>> /\ Head(link[c].up) # Hello /\ link[c].up \in Seq(Frames)
      BY <2>2, ReadsLink, LinkUpdates DEF TypeOK
    <3>2. applied' = applied \cup {Head(link[c].up)} BY <2>2 DEF BrokerReads
    <3>3. 1 \in DOMAIN link[c].up /\ Head(link[c].up) = link[c].up[1] BY <3>1
    <3> QED BY <1>3, <3>1, <3>2, <3>3 DEF RequestsInv
  <2> QED BY <2>1, <2>2, TakenSteps
<1> QED BY <1>2, <1>4, <1>5, <1>7, <1>8, <1>9 DEF RequestsInv

\* At the start a subscriber has two requests to send.
LEMMA RequestsInit ==
    ASSUME Init PROVE EndsInv /\ RequestsInv
<1>1. EndsInv
  <2>1. \A c \in Connections : link[c] = Closed /\ registered = NoConnection BY DEF Init
  <2>2. Shaped(Closed) BY Shapes
  <2>3. Closed.agent = "closed" /\ Closed.broker = "closed" BY DEF Closed
  <2>4. \A c \in Connections : Ends(c) BY <2>1, <2>2, <2>3, ConnectionAssumption DEF Ends
  <2>5. /\ transport = NoConnection /\ opening = NoConnection
        /\ phase = IF role = "publisher" THEN "idle" ELSE "connecting"
    BY DEF Init
  <2> QED BY <2>4, <2>5 DEF EndsInv
<1>2. CASE role = "publisher"
  <2>1. outbox = <<>> /\ built = Len(outbox) /\ applied = {} BY <1>2 DEF Init
  <2>2. \A c \in Connections : link[c].up = <<>> BY DEF Init, Closed
  <2>3. RequestsInv BY <1>2, <2>1, <2>2 DEF RequestsInv
  <2> QED BY <1>1, <2>3
<1>3. CASE role # "publisher"
  <2>1. /\ outbox = <<Request("environment", 1), Request("subscribe", 2)>> /\ built = Len(outbox)
        /\ applied = {} /\ handed = 0
    BY <1>3 DEF Init
  <2>2. built = 2 /\ built = 2 + handed BY <2>1
  <2>3. \A c \in Connections : link[c].up = <<>> BY DEF Init, Closed
  <2>4. \A i \in DOMAIN outbox : IsBuilt(outbox[i], built)
    BY <2>1, <2>2 DEF IsBuilt, Request
  <2>5. RequestsInv BY <2>1, <2>2, <2>3, <2>4 DEF RequestsInv
  <2> QED BY <1>1, <2>5
<1> QED BY <1>2, <1>3

\* The requests of a program and the connections they are sent over.
ClientInv == TypeOK /\ EndsInv /\ RequestsInv

\* Requests are no hello.
LEMMA ClientNoHello ==
    ASSUME ClientInv PROVE NoHello
<1>1. \A f : IsBuilt(f, built) => f # Hello BY BuiltFrames DEF ClientInv, TypeOK, AgentOK
<1> QED BY <1>1 DEF NoHello, ClientInv, RequestsInv

\* The invariant that the later sections rest on holds in every run.
LEMMA ClientInvariant == Spec => []ClientInv
<1>1. Init => ClientInv BY TypeInit, RequestsInit DEF ClientInv
<1>2. ClientInv /\ [Next]_vars => ClientInv'
  <2> SUFFICES ASSUME ClientInv, [Next]_vars PROVE ClientInv' OBVIOUS
  <2>1. NoHello BY ClientNoHello
  <2> QED BY <2>1, TypeNext, EndsNext, RequestsNext DEF ClientInv
<1> QED BY <1>1, <1>2, PTL DEF Spec

\* OneSubscriptionPerWait for every program, any connections and any failures: neither a
\* reconnection nor a resent frame makes the CA hold a second subscription for one wait.
THEOREM SubscribesOncePerWait == Spec => []OneSubscriptionPerWait
<1>1. ClientInv => OneSubscriptionPerWait
  <2> SUFFICES ASSUME ClientInv PROVE OneSubscriptionPerWait OBVIOUS
  <2> DEFINE S == {r \in applied : r.kind = "subscribe"}
             n == 2 + handed
             T == {Request("subscribe", i) : i \in 2..n}
             f == [i \in 2..n |-> Request("subscribe", i)]
  <2>1. built \in Nat /\ handed \in Nat /\ applied \subseteq Frames
    BY DEF ClientInv, TypeOK, AgentOK, HistoryOK
  <2>2. \A r \in S : r.session \in 2..n
    BY <2>1 DEF ClientInv, RequestsInv, IsBuilt
  <2>3. \A r \in S : r = Request("subscribe", r.session) BY <2>1 DEF Frames, Request
  <2>4. S \in SUBSET T BY <2>2, <2>3
  <2>5. IsFiniteSet(2..n) /\ Cardinality(2..n) = 1 + handed
    BY <2>1, FS_Interval
  <2>6. f \in Surjection(2..n, T) BY DEF Surjection
  <2> HIDE DEF S, T, f, n
  <2>7. IsFiniteSet(T) /\ Cardinality(T) <= 1 + handed BY <2>5, <2>6, FS_Surjection
  <2>8. IsFiniteSet(S) /\ Cardinality(S) <= Cardinality(T) BY <2>4, <2>7, FS_Subset
  <2>9. Cardinality(S) \in Nat /\ Cardinality(T) \in Nat BY <2>7, <2>8, FS_CardinalityType
  <2>10. Cardinality(S) <= 1 + handed BY <2>1, <2>7, <2>8, <2>9
  <2> QED BY <2>10 DEF OneSubscriptionPerWait, S
<1> QED BY <1>1, ClientInvariant, PTL

-----------------------------------------------------------------------------
(***************************************************************************)
(* The order in which the Agent sends.                                     *)
(***************************************************************************)
\* The Agent sends sessions in ascending order, and what is in flight or read was sent before
\* what it has still to send.
SentInv ==
    /\ \A i, j \in DOMAIN outbox : i < j => outbox[i].session < outbox[j].session
    /\ \A n \in DOMAIN taken : taken[n] <= built
    /\ \A c \in Connections : \A i, j \in DOMAIN link[c].up :
           i < j => link[c].up[i].session <= link[c].up[j].session
    /\ outbox # <<>> =>
           /\ \A n \in DOMAIN taken : taken[n] <= Head(outbox).session
           /\ \A c \in Connections : \A i \in DOMAIN link[c].up :
                  link[c].up[i].session <= Head(outbox).session

\* Where the frames in flight, and the requests read, come from.
LEMMA FrameSteps ==
    ASSUME ClientInv, [Next]_vars
    PROVE  /\ \A c \in Connections : link[c].up \in Seq(Frames) /\ link'[c].up \in Seq(Frames)
           /\ \A c \in Connections : \A i \in DOMAIN link'[c].up :
                 \/ link'[c].up[i] = Hello
                 \/ /\ SendOk \/ SendFails
                    /\ c = transport /\ outbox # <<>> /\ link'[c].up[i] = Head(outbox)
                 \/ \E m \in DOMAIN link[c].up : link'[c].up[i] = link[c].up[m]
           /\ \A c \in Connections : \A i, j \in DOMAIN link'[c].up : i < j =>
                 /\ \E m \in DOMAIN link[c].up : link'[c].up[i] = link[c].up[m]
                 /\ \/ outbox # <<>> /\ link'[c].up[j] = Head(outbox)
                    \/ \E m, n \in DOMAIN link[c].up :
                          m < n /\ link'[c].up[i] = link[c].up[m] /\ link'[c].up[j] = link[c].up[n]
<1> SUFFICES ASSUME NEW c \in Connections
             PROVE  /\ link[c].up \in Seq(Frames) /\ link'[c].up \in Seq(Frames)
                    /\ \A i \in DOMAIN link'[c].up :
                          \/ link'[c].up[i] = Hello
                          \/ /\ SendOk \/ SendFails
                             /\ c = transport /\ outbox # <<>> /\ link'[c].up[i] = Head(outbox)
                          \/ \E m \in DOMAIN link[c].up : link'[c].up[i] = link[c].up[m]
                    /\ \A i, j \in DOMAIN link'[c].up : i < j =>
                          /\ \E m \in DOMAIN link[c].up : link'[c].up[i] = link[c].up[m]
                          /\ \/ outbox # <<>> /\ link'[c].up[j] = Head(outbox)
                             \/ \E m, n \in DOMAIN link[c].up :
                                   /\ m < n /\ link'[c].up[i] = link[c].up[m]
                                   /\ link'[c].up[j] = link[c].up[n]
  OBVIOUS
<1> DEFINE u == link[c].up
           v == link'[c].up
           r == Head(outbox)
<1>1. u \in Seq(Frames) /\ v \in Seq(Frames)
  <2>1. LinkOK' BY TypeNext DEF ClientInv, TypeOK
  <2> QED BY <2>1, LinkUpdates DEF ClientInv, TypeOK, LinkOK, Links
<1>2. \/ Part(u, v) \/ v = <<Hello>>
      \/ phase = "sending" /\ (SendOk \/ SendFails) /\ c = transport /\ Part(Append(u, r), v)
  BY ClientNoHello, UpSteps DEF ClientInv
<1>3. phase = "sending" => outbox # <<>> /\ r \in Frames
  BY DEF ClientInv, TypeOK, AgentOK
<1> HIDE DEF u, v, r
<1>4. CASE Part(u, v)
  <2>1. \A i \in DOMAIN v : \E m \in DOMAIN u : v[i] = u[m] BY <1>1, <1>4, PartElements
  <2>2. \A i, j \in DOMAIN v : i < j =>
            \E m, n \in DOMAIN u : m < n /\ v[i] = u[m] /\ v[j] = u[n]
    BY <1>1, <1>4, PartElements
  <2> QED BY <1>1, <2>1, <2>2, Zenon DEF u, v
<1>5. CASE v = <<Hello>>
  <2>1. \A i \in DOMAIN v : v[i] = Hello /\ i = 1 BY <1>5
  <2>2. \A i, j \in DOMAIN v : ~(i < j) BY <2>1
  <2> QED BY <1>1, <2>1, <2>2, Zenon DEF u, v
<1>6. CASE phase = "sending" /\ (SendOk \/ SendFails) /\ c = transport /\ Part(Append(u, r), v)
  <2>1. outbox # <<>> /\ r \in Frames BY <1>3, <1>6
  <2>2. \A i \in DOMAIN v : v[i] = r \/ \E m \in DOMAIN u : v[i] = u[m]
    BY <1>1, <1>6, <2>1, AppendElements
  <2>3. \A i, j \in DOMAIN v : i < j =>
            /\ \E m \in DOMAIN u : v[i] = u[m]
            /\ v[j] = r \/ \E m, n \in DOMAIN u : m < n /\ v[i] = u[m] /\ v[j] = u[n]
    BY <1>1, <1>6, <2>1, AppendElements
  <2>4. \A i \in DOMAIN v :
           \/ /\ SendOk \/ SendFails
              /\ c = transport /\ outbox # <<>> /\ v[i] = r
           \/ \E m \in DOMAIN u : v[i] = u[m]
    BY <1>6, <2>1, <2>2
  <2>5. \A i, j \in DOMAIN v : i < j =>
            /\ \E m \in DOMAIN u : v[i] = u[m]
            /\ \/ outbox # <<>> /\ v[j] = r
               \/ \E m, n \in DOMAIN u : m < n /\ v[i] = u[m] /\ v[j] = u[n]
    BY <2>1, <2>3
  <2>6. link[c].up \in Seq(Frames) /\ link'[c].up \in Seq(Frames) BY <1>1 DEF u, v
  <2> QED BY <2>4, <2>5, <2>6 DEF u, v, r
<1> QED BY <1>2, <1>4, <1>5, <1>6

\* A request that is read was in flight.
LEMMA ReadSteps ==
    ASSUME ClientInv, NEW c \in Connections, BrokerReads(c)
    PROVE  LET s == Head(link[c].up).session IN
           /\ s \in Nat /\ taken' = Append(taken, s)
           /\ 1 \in DOMAIN link[c].up /\ link[c].up[1] = Head(link[c].up)
           /\ IsBuilt(link[c].up[1], built)
<1>1. /\ link[c].up # <<>> /\ link[c].up \in Seq(Frames) /\ Head(link[c].up) # Hello
      /\ Head(link[c].up) \in Frames
  BY ReadsLink, LinkUpdates DEF ClientInv, TypeOK
<1>2. 1 \in DOMAIN link[c].up /\ link[c].up[1] = Head(link[c].up) BY <1>1
<1>3. IsBuilt(link[c].up[1], built) BY <1>1, <1>2 DEF ClientInv, RequestsInv
<1>4. Head(link[c].up).session \in Nat BY <1>1 DEF Frames
<1>5. taken' = Append(taken, Head(link[c].up).session) BY DEF BrokerReads
<1> QED BY <1>2, <1>3, <1>4, <1>5

\* What the Agent sends next is no less than what it has sent.
LEMMA SentNext ==
    ASSUME ClientInv, SentInv, [Next]_vars PROVE SentInv'
<1>0. /\ built \in Nat /\ outbox \in Seq(Frames) /\ taken \in Seq(Nat)
      /\ \A f \in Frames : f.session \in Nat
      /\ Hello.session = 0
  BY DEF ClientInv, TypeOK, AgentOK, HistoryOK, Frames, Hello
<1>1. TypeOK' /\ RequestsInv' BY TypeNext, RequestsNext DEF ClientInv
<1>2. built' \in Nat /\ built <= built' BY <1>0, BuiltSteps DEF ClientInv
<1>3. \A c \in Connections : \A i \in DOMAIN link'[c].up : link'[c].up[i] \in Frames
  BY FrameSteps
<1>4. \A n \in DOMAIN taken' : \/ \E k \in DOMAIN taken : taken'[n] = taken[k]
                               \/ \E c \in Connections : \E m \in DOMAIN link[c].up :
                                     /\ taken'[n] = link[c].up[m].session
                                     /\ IsBuilt(link[c].up[m], built)
  <2>1. CASE taken' = taken BY <2>1
  <2>2. ASSUME NEW c \in Connections, BrokerReads(c), NEW n \in DOMAIN taken'
        PROVE  \/ \E k \in DOMAIN taken : taken'[n] = taken[k]
               \/ /\ taken'[n] = link[c].up[1].session /\ 1 \in DOMAIN link[c].up
                  /\ IsBuilt(link[c].up[1], built)
    <3> DEFINE s == Head(link[c].up).session
    <3>1. /\ s \in Nat /\ taken' = Append(taken, s) /\ 1 \in DOMAIN link[c].up
          /\ s = link[c].up[1].session /\ IsBuilt(link[c].up[1], built)
      BY <2>2, ReadSteps
    <3> HIDE DEF s
    <3>2. (n \in DOMAIN taken /\ taken'[n] = taken[n]) \/ taken'[n] = s BY <1>0, <2>2, <3>1
    <3> QED BY <3>1, <3>2
  <2> QED BY <2>1, <2>2, TakenSteps DEF ClientInv
<1>5. \A n \in DOMAIN taken' : taken'[n] \in Nat /\ taken'[n] <= built'
  <2>1. \A n \in DOMAIN taken' : taken'[n] \in Nat BY <1>1 DEF TypeOK, HistoryOK
  <2>2. \A n \in DOMAIN taken' : taken'[n] <= built
    BY <1>0, <1>4 DEF SentInv, IsBuilt
  <2> QED BY <1>0, <1>2, <2>1, <2>2
<1>6. ASSUME outbox # <<>>
      PROVE  /\ \A n \in DOMAIN taken' : taken'[n] <= Head(outbox).session
             /\ \A c \in Connections : \A i \in DOMAIN link'[c].up :
                    link'[c].up[i].session <= Head(outbox).session
  <2> DEFINE s == Head(outbox).session
  <2>1. s \in Nat BY <1>0, <1>6
  <2>2. \A n \in DOMAIN taken : taken[n] <= s BY <1>6 DEF SentInv
  <2>3. \A c \in Connections : \A i \in DOMAIN link[c].up : link[c].up[i].session <= s
    BY <1>6 DEF SentInv
  <2>4. \A n \in DOMAIN taken' : taken'[n] <= s BY <1>4, <2>2, <2>3
  <2>5. \A c \in Connections : \A i \in DOMAIN link'[c].up :
           \/ link'[c].up[i] = Hello \/ link'[c].up[i] = Head(outbox)
           \/ \E m \in DOMAIN link[c].up : link'[c].up[i] = link[c].up[m]
    BY FrameSteps
  <2>6. Hello.session <= s /\ Head(outbox).session <= s BY <1>0, <2>1
  <2> HIDE DEF s
  <2>7. \A c \in Connections : \A i \in DOMAIN link'[c].up : link'[c].up[i].session <= s
    BY <2>3, <2>5, <2>6
  <2> QED BY <2>4, <2>7 DEF s
<1>7. \A c \in Connections : \A i \in DOMAIN link'[c].up : link'[c].up[i].session <= built'
  <2>1. \A c \in Connections : \A i \in DOMAIN link'[c].up :
            link'[c].up[i] = Hello \/ link'[c].up[i].session \in 1..built'
    BY <1>1 DEF RequestsInv, IsBuilt
  <2> QED BY <1>0, <1>2, <2>1
<1>8. \A c \in Connections : \A i, j \in DOMAIN link'[c].up :
         i < j => link'[c].up[i].session <= link'[c].up[j].session
  <2> SUFFICES ASSUME NEW c \in Connections, NEW i \in DOMAIN link'[c].up,
                      NEW j \in DOMAIN link'[c].up, i < j
               PROVE  link'[c].up[i].session <= link'[c].up[j].session
    OBVIOUS
  <2>1. PICK m \in DOMAIN link[c].up : link'[c].up[i] = link[c].up[m] BY FrameSteps
  <2>2. CASE outbox # <<>> /\ link'[c].up[j] = Head(outbox) BY <2>1, <2>2 DEF SentInv
  <2>3. CASE \E k, n \in DOMAIN link[c].up :
                k < n /\ link'[c].up[i] = link[c].up[k] /\ link'[c].up[j] = link[c].up[n]
    BY <2>3 DEF SentInv
  <2> QED BY <2>2, <2>3, FrameSteps
<1>9. /\ \A i, j \in DOMAIN outbox' : i < j => outbox'[i].session < outbox'[j].session
      /\ outbox' # <<>> =>
           /\ \A n \in DOMAIN taken' : taken'[n] <= Head(outbox').session
           /\ \A c \in Connections : \A i \in DOMAIN link'[c].up :
                  link'[c].up[i].session <= Head(outbox').session
  <2>1. CASE outbox' = outbox BY <1>6, <2>1 DEF SentInv
  <2>2. CASE outbox # <<>> /\ outbox' = Tail(outbox)
    <3>1. \A i \in DOMAIN outbox' : i + 1 \in DOMAIN outbox /\ outbox'[i] = outbox[i + 1]
      BY <1>0, <2>2
    <3>2. \A i, j \in DOMAIN outbox' : i < j => i + 1 < j + 1 BY <1>0, <2>2
    <3>3. \A i, j \in DOMAIN outbox' : i < j => outbox'[i].session < outbox'[j].session
      BY <3>1, <3>2 DEF SentInv
    <3>4. outbox' # <<>> => /\ 1 \in DOMAIN outbox /\ 2 \in DOMAIN outbox
                            /\ Head(outbox) = outbox[1] /\ Head(outbox') = outbox[2]
      BY <1>0, <2>2
    <3>5. outbox' # <<>> => /\ Head(outbox).session < Head(outbox').session
                            /\ Head(outbox).session \in Nat /\ Head(outbox').session \in Nat
      BY <1>0, <3>4 DEF SentInv
    <3> DEFINE s == Head(outbox).session
               t == Head(outbox').session
    <3>6. /\ \A n \in DOMAIN taken' : taken'[n] <= s
          /\ \A c \in Connections : \A i \in DOMAIN link'[c].up : link'[c].up[i].session <= s
      BY <1>6, <2>2
    <3> HIDE DEF s, t
    <3>7. ASSUME outbox' # <<>>
          PROVE  /\ \A n \in DOMAIN taken' : taken'[n] <= t
                 /\ \A c \in Connections : \A i \in DOMAIN link'[c].up : link'[c].up[i].session <= t
      <4>1. s < t /\ s \in Nat /\ t \in Nat BY <3>5, <3>7 DEF s, t
      <4>2. \A n \in DOMAIN taken' : taken'[n] <= t BY <1>5, <3>6, <4>1
      <4>3. \A c \in Connections : \A i \in DOMAIN link'[c].up : link'[c].up[i].session \in Nat
        BY <1>0, <1>3
      <4>4. \A c \in Connections : \A i \in DOMAIN link'[c].up : link'[c].up[i].session <= t
        BY <3>6, <4>1, <4>3
      <4> QED BY <4>2, <4>4
    <3> QED BY <3>3, <3>7 DEF t
  <2>3. ASSUME outbox' # <<>>, Head(outbox').session = built + 1,
               \A i, j \in DOMAIN outbox' : i < j => outbox'[i].session < outbox'[j].session
        PROVE  /\ \A n \in DOMAIN taken' : taken'[n] <= Head(outbox').session
               /\ \A c \in Connections : \A i \in DOMAIN link'[c].up :
                      link'[c].up[i].session <= Head(outbox').session
    <3>1. \A n \in DOMAIN taken' : taken'[n] <= built BY <1>0, <1>4 DEF SentInv, IsBuilt
    <3>2. \A c \in Connections : \A i \in DOMAIN link'[c].up : link'[c].up[i].session <= built
      <4>1. \A c \in Connections : \A i \in DOMAIN link'[c].up :
               \/ link'[c].up[i] = Hello
               \/ outbox # <<>> /\ link'[c].up[i] = Head(outbox)
               \/ \E m \in DOMAIN link[c].up : link'[c].up[i] = link[c].up[m]
        BY FrameSteps
      <4>2. outbox # <<>> => Head(outbox).session <= built
        <5>1. outbox # <<>> => 1 \in DOMAIN outbox /\ Head(outbox) = outbox[1] BY <1>0
        <5> QED BY <1>0, <5>1 DEF ClientInv, RequestsInv, IsBuilt
      <4>3. \A c \in Connections : \A m \in DOMAIN link[c].up : link[c].up[m].session <= built
        <5>1. \A c \in Connections : \A m \in DOMAIN link[c].up :
                 link[c].up[m] = Hello \/ link[c].up[m].session \in 1..built
          BY DEF ClientInv, RequestsInv, IsBuilt
        <5> QED BY <1>0, <5>1
      <4> QED BY <1>0, <4>1, <4>2, <4>3
    <3>3. \A c \in Connections : \A i \in DOMAIN link'[c].up : link'[c].up[i].session \in Nat
      BY <1>0, <1>3
    <3> QED BY <1>0, <1>5, <2>3, <3>1, <3>2, <3>3
  <2>4. CASE outbox' = <<Request("environment", built + 1), Request("publish", built + 2)>>
    <3>1. /\ outbox' # <<>> /\ Head(outbox').session = built + 1
          /\ \A i, j \in DOMAIN outbox' : i < j => outbox'[i].session < outbox'[j].session
      BY <1>0, <2>4 DEF Request
    <3> QED BY <2>3, <3>1
  <2>5. ASSUME NEW kind, outbox' = <<Request(kind, built + 1)>>
        PROVE  /\ outbox' # <<>> /\ Head(outbox').session = built + 1
               /\ \A i, j \in DOMAIN outbox' : i < j => outbox'[i].session < outbox'[j].session
    BY <1>0, <2>5 DEF Request
  <2> QED BY <2>1, <2>2, <2>3, <2>4, <2>5, BuiltSteps DEF ClientInv
<1>10. \A n \in DOMAIN taken' : taken'[n] <= built' BY <1>5
<1> QED BY <1>8, <1>9, <1>10 DEF SentInv

-----------------------------------------------------------------------------
(***************************************************************************)
(* The order in which brokerd reads: OrderUnlessContended.                 *)
(***************************************************************************)
\* A request that is read next is a repetition, or comes after all that were read.
InOrder(read, s) ==
    \/ \E n \in DOMAIN read : read[n] = s
    \/ \A n \in DOMAIN read : read[n] < s

\* Connection d holds a request that was sent when the Agent had given up c, and after all that
\* is in flight on c.
Succeeds(d, c) ==
    \A j \in DOMAIN link[d].up : link[d].up[j] # Hello =>
        /\ link[c].agent = "closed"
        /\ \A i \in DOMAIN link[c].up : link[c].up[i].session <= link[d].up[j].session

\* While no two tasks contend, what was read is in order, what is in flight comes after it, and
\* the connection that is served holds nothing newer than another one.
OrderInv ==
    ~contended =>
        /\ RequestOrder
        /\ \A c \in Connections : \A i \in DOMAIN link[c].up :
               link[c].up[i] # Hello => InOrder(taken, link[c].up[i].session)
        /\ \A c, d \in Connections : registered = c /\ c # d => Succeeds(d, c)

\* Where the ends of the Agent move.
LEMMA PlaceSteps ==
    ASSUME ClientInv, [Next]_vars
    PROVE  \A c \in Connections :
             link[c].agent = "closed" => link'[c].agent = "closed" \/ Open(c)
<1>1. /\ transport' \in {transport, opening, NoConnection}
      /\ opening' \in {opening, NoConnection} \/ \E c \in Connections : Open(c) /\ opening' = c
  <2>1. CASE PublishLine \/ PublishWhileWaiting \/ AgentFails \/ ReceiveOther
          \/ ReceiveRefused \/ ReceiveUnusable \/ Receive \/ ReceiveEnds
    BY <2>1 DEF PublishLine, PublishWhileWaiting, AgentFails, HelloFails, SendFails, ReceiveFails,
                ReceiveOther, ReceiveRefused, ReceiveUnusable, Receive, Marks,
              ReceiveEnds
  <2>2. CASE Adopt BY <2>2 DEF Adopt
  <2>3. CASE SendOk
    <3>1. opening' = opening BY <2>3 DEF SendOk
    <3>2. transport' \in {transport, NoConnection}
      BY <2>3, ClientNoHello, SendOkLink DEF ClientInv
    <3> QED BY <3>1, <3>2
  <2>4. CASE \E c \in Connections : Open(c) BY <2>4 DEF Open
  <2>5. CASE \E c \in Connections : BrokerStep(c) \/ BrokerFails(c) \/ BrokerEof(c)
    BY <2>5 DEF BrokerStep, BrokerFails, BrokerReadFails, BrokerEof, BrokerHello, BrokerReads,
              BrokerWrites,
                BrokerRefuses, BrokerWriteFails, agentVars
  <2>6. CASE CaDelivers \/ CaDrops \/ LinkStep \/ Tick \/ UNCHANGED vars
    BY <2>6 DEF CaDelivers, CaDrops, LinkStep, RouteOnline, RouteOffline, Enqueue, Tick,
              vars, agentVars
  <2> QED BY <2>1, <2>2, <2>3, <2>4, <2>5, <2>6 DEF Next, AgentStep
<1> SUFFICES ASSUME NEW c \in Connections, link[c].agent = "closed", ~Open(c)
             PROVE  link'[c].agent = "closed"
  OBVIOUS
<1>2. EndsInv' /\ LinkOK'
  BY ClientNoHello, EndsNext, TypeNext DEF ClientInv, TypeOK
<1>3. c # transport /\ c # opening BY ConnectionAssumption DEF ClientInv, EndsInv
<1>4. c # NoConnection BY ConnectionAssumption
<1>5. c # transport' BY <1>1, <1>3, <1>4
<1>6. c # opening' BY <1>1, <1>3, <1>4
<1>7. link'[c].agent # "open" BY <1>2, <1>5, <1>6 DEF EndsInv, Ends
<1>8. link'[c].agent \in {"closed", "open"} BY <1>2 DEF LinkOK, Links
<1> QED BY <1>7, <1>8

\* Who is registered.
LEMMA RegisteredSteps ==
    ASSUME ClientInv, [Next]_vars
    PROVE  \/ registered' \in {registered, NoConnection} /\ contended' = contended
           \/ \E c \in Connections : BrokerHello(c) /\ registered = NoConnection
<1>1. CASE PublishLine \/ PublishWhileWaiting \/ AgentFails \/ Adopt \/ SendOk \/ ReceiveOther
        \/ ReceiveRefused \/ ReceiveUnusable \/ Receive \/ ReceiveEnds
  BY <1>1 DEF PublishLine, PublishWhileWaiting, AgentFails, HelloFails, SendFails, ReceiveFails,
              Adopt, SendOk, ReceiveOther, ReceiveRefused, ReceiveUnusable, Receive, Marks,
              ReceiveEnds, brokerVars, history
<1>2. CASE \E c \in Connections : Open(c) \/ BrokerReads(c) \/ BrokerWrites(c)
  BY <1>2 DEF Open, BrokerReads, BrokerWrites, brokerVars, history
<1>3. CASE \E c \in Connections : BrokerHello(c)
  BY <1>3 DEF BrokerHello, Registers, Leaves
<1>4. CASE \E c \in Connections : BrokerFails(c) \/ BrokerEof(c)
  BY <1>4 DEF BrokerFails, BrokerReadFails, BrokerEof, BrokerRefuses, BrokerWriteFails, Leaves,
              history
<1>5. CASE CaDelivers \/ CaDrops \/ LinkStep \/ Tick \/ UNCHANGED vars
  BY <1>5 DEF CaDelivers, CaDrops, LinkStep, RouteOnline, RouteOffline, Enqueue, Tick,
              vars, brokerVars, history
<1> QED BY <1>1, <1>2, <1>3, <1>4, <1>5 DEF Next, AgentStep, BrokerStep

\* Frames that are dropped, and a connection that is opened, disturb no order.
LEMMA ShrinkOrder ==
    ASSUME ClientInv, OrderInv, [Next]_vars, taken' = taken, contended' = contended,
           registered' \in {registered, NoConnection}, ~SendOk, ~SendFails
    PROVE  OrderInv'
<1> SUFFICES ASSUME ~contended
             PROVE  /\ RequestOrder'
                    /\ \A c \in Connections : \A i \in DOMAIN link'[c].up :
                           link'[c].up[i] # Hello => InOrder(taken', link'[c].up[i].session)
                    /\ \A c, d \in Connections : registered' = c /\ c # d => Succeeds(d, c)'
  BY DEF OrderInv
<1>1. \A c \in Connections : \A i \in DOMAIN link'[c].up :
         \/ link'[c].up[i] = Hello
         \/ \E m \in DOMAIN link[c].up : link'[c].up[i] = link[c].up[m]
  BY FrameSteps
<1>2. RequestOrder' BY DEF OrderInv, RequestOrder
<1>4. ASSUME NEW c \in Connections, NEW i \in DOMAIN link'[c].up, link'[c].up[i] # Hello
      PROVE  InOrder(taken', link'[c].up[i].session)
  <2>1. PICK m \in DOMAIN link[c].up : link'[c].up[i] = link[c].up[m] BY <1>1, <1>4
  <2>2. InOrder(taken, link[c].up[m].session) BY <1>4, <2>1 DEF OrderInv
  <2> QED BY <2>1, <2>2
<1>5. ASSUME NEW c \in Connections, NEW d \in Connections, registered' = c, c # d,
             NEW j \in DOMAIN link'[d].up, link'[d].up[j] # Hello
      PROVE  /\ link'[c].agent = "closed"
             /\ \A i \in DOMAIN link'[c].up : link'[c].up[i].session <= link'[d].up[j].session
  <2>1. registered = c BY <1>5, ConnectionAssumption
  <2>2. PICK n \in DOMAIN link[d].up : link'[d].up[j] = link[d].up[n] BY <1>1, <1>5
  <2>3. /\ link[c].agent = "closed"
        /\ \A i \in DOMAIN link[c].up : link[c].up[i].session <= link[d].up[n].session
    BY <1>5, <2>1, <2>2 DEF OrderInv, Succeeds
  <2>4. ~Open(c)
    <3>1. link[c].broker = "serving" BY <2>1 DEF ClientInv, EndsInv, Ends
    <3> QED BY <3>1 DEF Open, Closed
  <2>5. link'[c].agent = "closed" BY <2>3, <2>4, PlaceSteps
  <2>6. link[d].up[n].session \in Nat /\ Hello.session <= link[d].up[n].session
    <3>1. link[d].up[n] \in Frames BY FrameSteps
    <3> QED BY <3>1 DEF Frames, Hello
  <2>7. \A i \in DOMAIN link'[c].up : link'[c].up[i].session <= link[d].up[n].session
    BY <1>1, <2>3, <2>6
  <2> QED BY <2>2, <2>5, <2>7
<1> QED BY <1>2, <1>4, <1>5 DEF Succeeds

\* A request that is sent follows all that were read or are in flight, and its connection is the
\* only one the Agent has.
LEMMA SendOrder ==
    ASSUME ClientInv, SentInv, OrderInv, SendOk \/ SendFails, [Next]_vars PROVE OrderInv'
<1>0. taken' = taken /\ contended' = contended /\ registered' = registered
  BY DEF SendOk, SendFails, brokerVars, history
<1> SUFFICES ASSUME ~contended
             PROVE  /\ RequestOrder'
                    /\ \A c \in Connections : \A i \in DOMAIN link'[c].up :
                           link'[c].up[i] # Hello => InOrder(taken', link'[c].up[i].session)
                    /\ \A c, d \in Connections : registered' = c /\ c # d => Succeeds(d, c)'
  BY <1>0 DEF OrderInv
<1>1. \A c \in Connections : \A i \in DOMAIN link'[c].up :
         \/ link'[c].up[i] = Hello
         \/ c = transport /\ link'[c].up[i] = Head(outbox)
         \/ \E m \in DOMAIN link[c].up : link'[c].up[i] = link[c].up[m]
  BY FrameSteps
<1>2. RequestOrder' BY <1>0 DEF OrderInv, RequestOrder
<1>3. /\ phase = "sending" /\ outbox # <<>> /\ opening = NoConnection
      /\ transport \in Connections /\ link[transport].agent = "open"
      /\ Head(outbox) \in Frames
  BY ConnectionAssumption DEF SendOk, SendFails, ClientInv, TypeOK, AgentOK, EndsInv
<1>4. InOrder(taken, Head(outbox).session)
  <2>1. \A n \in DOMAIN taken : taken[n] <= Head(outbox).session BY <1>3 DEF SentInv
  <2>2. \A n \in DOMAIN taken : taken[n] \in Nat BY DEF ClientInv, TypeOK, HistoryOK
  <2>3. Head(outbox).session \in Nat BY <1>3 DEF Frames
  <2> QED BY <2>1, <2>2, <2>3 DEF InOrder
<1>5. ASSUME NEW c \in Connections, NEW i \in DOMAIN link'[c].up, link'[c].up[i] # Hello
      PROVE  InOrder(taken', link'[c].up[i].session)
  <2>2. CASE link'[c].up[i] = Head(outbox)
    BY <1>0, <1>4, <2>2
  <2>3. CASE \E m \in DOMAIN link[c].up : link'[c].up[i] = link[c].up[m]
    <3>1. PICK m \in DOMAIN link[c].up : link'[c].up[i] = link[c].up[m] BY <2>3
    <3>2. InOrder(taken, link[c].up[m].session) BY <1>5, <3>1 DEF OrderInv
    <3> QED BY <1>0, <3>1, <3>2
  <2> QED BY <1>1, <1>5, <2>2, <2>3
<1>6. ASSUME NEW c \in Connections, NEW d \in Connections, registered' = c, c # d,
             NEW j \in DOMAIN link'[d].up, link'[d].up[j] # Hello
      PROVE  /\ link'[c].agent = "closed"
             /\ \A i \in DOMAIN link'[c].up : link'[c].up[i].session <= link'[d].up[j].session
  <2>1. registered = c BY <1>0, <1>6
  <2>2. CASE c = transport
    <3>1. PICK n \in DOMAIN link[d].up : link'[d].up[j] = link[d].up[n] BY <1>1, <1>6, <2>2
    <3>2. link[c].agent = "closed" BY <1>6, <2>1, <3>1 DEF OrderInv, Succeeds
    <3> QED BY <1>3, <2>2, <3>2
  <2>3. CASE c # transport
    <3>1. link[c].agent # "open"
      BY <1>3, <2>3, ConnectionAssumption DEF ClientInv, EndsInv, Ends
    <3>2. link[c].agent \in {"open", "closed"} BY LinkUpdates DEF ClientInv, TypeOK, Links
    <3>3. ~Open(c) BY <1>3 DEF Open
    <3>4. link'[c].agent = "closed" BY <3>1, <3>2, <3>3, PlaceSteps
    <3>5. \A i \in DOMAIN link'[c].up :
             link'[c].up[i] = Hello \/ \E m \in DOMAIN link[c].up : link'[c].up[i] = link[c].up[m]
      BY <1>1, <2>3
    <3>6. ASSUME NEW s \in Nat, \A i \in DOMAIN link[c].up : link[c].up[i].session <= s
          PROVE  \A i \in DOMAIN link'[c].up : link'[c].up[i].session <= s
      BY <3>5, <3>6 DEF Hello
    <3>7. CASE link'[d].up[j] = Head(outbox)
      <4>1. /\ Head(outbox).session \in Nat
            /\ \A i \in DOMAIN link[c].up : link[c].up[i].session <= Head(outbox).session
        BY <1>3 DEF SentInv, Frames
      <4> QED BY <3>4, <3>6, <3>7, <4>1
    <3>8. ASSUME NEW n \in DOMAIN link[d].up, link'[d].up[j] = link[d].up[n]
          PROVE  \A i \in DOMAIN link'[c].up : link'[c].up[i].session <= link'[d].up[j].session
      <4>1. link[d].up[n].session \in Nat
        <5>1. link[d].up[n] \in Frames BY FrameSteps
        <5> QED BY <5>1 DEF Frames
      <4>2. \A i \in DOMAIN link[c].up : link[c].up[i].session <= link[d].up[n].session
        BY <1>6, <2>1, <3>8 DEF OrderInv, Succeeds
      <4> QED BY <3>6, <3>8, <4>1, <4>2
    <3> QED BY <1>1, <1>6, <3>4, <3>7, <3>8
  <2> QED BY <2>2, <2>3
<1> QED BY <1>2, <1>5, <1>6 DEF Succeeds

\* Once a connection is registered no other one has requests waiting, or the two contended.
LEMMA HelloOrder ==
    ASSUME ClientInv, OrderInv, NEW c \in Connections, BrokerHello(c), registered = NoConnection,
           [Next]_vars
    PROVE  OrderInv'
<1>0. taken' = taken BY DEF BrokerHello
<1>1. /\ registered' = c
      /\ contended' = (contended \/ \E d \in Connections \ {c} : Unregistered(d))
  BY RegisteredLink DEF ClientInv
<1>2. PICK l \in Links : Replaces(c, l) BY RegisteredLink DEF ClientInv
<1> SUFFICES ASSUME ~contended'
             PROVE  /\ RequestOrder'
                    /\ \A d \in Connections : \A i \in DOMAIN link'[d].up :
                           link'[d].up[i] # Hello => InOrder(taken', link'[d].up[i].session)
                    /\ \A d \in Connections : c # d => Succeeds(d, c)'
  BY <1>1 DEF OrderInv
<1>3. ~contended /\ \A d \in Connections : d # c => ~Unregistered(d) BY <1>1
<1>4. RequestOrder' BY <1>0, <1>3 DEF OrderInv, RequestOrder
<1>5. ASSUME NEW d \in Connections, NEW i \in DOMAIN link'[d].up, link'[d].up[i] # Hello
      PROVE  InOrder(taken', link'[d].up[i].session)
  <2>1. ~SendOk /\ ~SendFails
    BY DEF BrokerHello, agentVars, SendOk, SendFails
  <2>2. PICK m \in DOMAIN link[d].up : link'[d].up[i] = link[d].up[m] BY <1>5, <2>1, FrameSteps
  <2>3. InOrder(taken, link[d].up[m].session) BY <1>3, <1>5, <2>2 DEF OrderInv
  <2> QED BY <1>0, <2>2, <2>3
<1>6. ASSUME NEW d \in Connections, d # c, NEW j \in DOMAIN link'[d].up
      PROVE  link'[d].up[j] = Hello
  <2>1. link'[d] = link[d] /\ link[d] \in Links /\ link[d].up \in Seq(Frames)
    BY <1>2, <1>6, LinkUpdates DEF Replaces, ClientInv, TypeOK
  <2>2. Ends(d) BY DEF ClientInv, EndsInv
  <2>3. link[d].broker # "serving" BY <2>2, ConnectionAssumption DEF Ends
  <2>4. CASE link[d].broker = "closed"
    <3>1. link[d].up = <<>> BY <2>2, <2>4 DEF Ends, Shaped
    <3> QED BY <1>6, <2>1, <3>1
  <2>5. CASE link[d].broker = "hello"
    <3>1. Len(link[d].up) <= 1 /\ j \in 1..Len(link[d].up)
      BY <1>3, <1>6, <2>1, <2>5 DEF Unregistered
    <3>2. j = 1 /\ link[d].up # <<>> BY <2>1, <3>1
    <3> QED BY <2>1, <2>2, <2>5, <3>2 DEF Ends, Shaped
  <2>6. link[d].broker \in {"closed", "hello", "serving"} BY <2>1 DEF Links
  <2> QED BY <2>3, <2>4, <2>5, <2>6
<1> QED BY <1>4, <1>5, <1>6 DEF Succeeds

\* The request that is read is in order, and those still in flight come after it.
LEMMA ReadOrder ==
    ASSUME ClientInv, SentInv, OrderInv, NEW c \in Connections, BrokerReads(c), [Next]_vars
    PROVE  OrderInv'
<1> DEFINE s == Head(link[c].up).session
           N == Len(taken)
<1>0. contended' = contended /\ registered' = registered BY DEF BrokerReads
<1>1. /\ s \in Nat /\ taken' = Append(taken, s)
      /\ 1 \in DOMAIN link[c].up /\ s = link[c].up[1].session /\ link[c].up[1] # Hello
  BY ReadSteps, ReadsLink DEF ClientInv
<1>2. registered = c BY ReadsLink DEF ClientInv
<1>3. PICK l \in Links : Replaces(c, l) /\ l.up = Tail(link[c].up) /\ l.agent = link[c].agent
  BY ReadsLink DEF ClientInv
<1>4. link[c].up # <<>> /\ link[c].up \in Seq(Frames) /\ taken \in Seq(Nat)
  BY ReadsLink, LinkUpdates DEF ClientInv, TypeOK, HistoryOK
<1> SUFFICES ASSUME ~contended
             PROVE  /\ RequestOrder'
                    /\ \A d \in Connections : \A i \in DOMAIN link'[d].up :
                           link'[d].up[i] # Hello => InOrder(taken', link'[d].up[i].session)
                    /\ \A d \in Connections : c # d => Succeeds(d, c)'
  BY <1>0, <1>2 DEF OrderInv
<1>5. InOrder(taken, s) BY <1>1 DEF OrderInv
<1> HIDE DEF s
<1>6. /\ N \in Nat /\ DOMAIN taken = 1..N /\ DOMAIN taken' = 1..(N + 1)
      /\ \A n \in 1..N : taken'[n] = taken[n] /\ taken[n] \in Nat
      /\ taken'[N + 1] = s
  BY <1>1, <1>4
<1> HIDE DEF N
<1>7. RequestOrder'
  <2> SUFFICES ASSUME NEW j \in DOMAIN taken', NEW i \in 1..(j - 1), taken'[j] < taken'[i]
               PROVE  \E k \in 1..(i - 1) : taken'[k] = taken'[j]
    BY DEF RequestOrder
  <2>1. i \in 1..N /\ taken'[i] = taken[i] /\ \A k \in 1..(i - 1) : taken'[k] = taken[k]
    BY <1>6
  <2>2. RequestOrder BY DEF OrderInv
  <2>3. CASE j \in 1..N
    <3>1. taken'[j] = taken[j] BY <1>6, <2>3
    <3> QED BY <1>6, <2>1, <2>2, <2>3, <3>1 DEF RequestOrder
  <2>4. CASE j = N + 1
    <3>1. taken'[j] = s /\ s < taken[i] BY <1>6, <2>1, <2>4
    <3>2. PICK n \in 1..N : taken[n] = s
      <4>1. taken[i] \in Nat BY <1>6, <2>1
      <4>2. ~(taken[i] < s) BY <1>1, <3>1, <4>1
      <4> QED BY <1>5, <1>6, <2>1, <4>2 DEF InOrder
    <3>3. CASE n < i
      <4>1. n \in 1..(i - 1) BY <3>2, <3>3, <2>1
      <4> QED BY <2>1, <3>1, <3>2, <4>1
    <3>4. CASE n >= i
      <4>1. n # i BY <1>1, <3>1, <3>2
      <4>2. i \in 1..(n - 1) BY <2>1, <3>2, <3>4, <4>1
      <4>3. \E k \in 1..(i - 1) : taken[k] = taken[n]
        BY <1>6, <2>2, <3>1, <3>2, <4>2 DEF RequestOrder
      <4> QED BY <2>1, <3>1, <3>2, <4>3
    <3> QED BY <2>1, <3>2, <3>3, <3>4
  <2> QED BY <1>6, <2>3, <2>4
<1>8. ASSUME NEW t \in Nat, InOrder(taken, t), s <= t PROVE InOrder(taken', t)
  <2>1. CASE \E n \in DOMAIN taken : taken[n] = t
    <3>1. PICK n \in 1..N : taken[n] = t BY <1>6, <2>1
    <3>2. n \in 1..(N + 1) /\ taken'[n] = t BY <1>6, <3>1
    <3> QED BY <1>6, <3>2 DEF InOrder
  <2>2. CASE s = t
    <3>1. N + 1 \in 1..(N + 1) BY <1>6
    <3> QED BY <1>6, <2>2, <3>1 DEF InOrder
  <2>3. CASE s < t /\ \A n \in DOMAIN taken : taken[n] < t
    <3>1. \A n \in 1..(N + 1) : taken'[n] < t BY <1>6, <2>3
    <3> QED BY <1>6, <3>1 DEF InOrder
  <2>4. s = t \/ s < t BY <1>1, <1>8
  <2> QED BY <1>8, <2>1, <2>2, <2>3, <2>4 DEF InOrder
<1>9. ASSUME NEW d \in Connections, NEW i \in DOMAIN link'[d].up, link'[d].up[i] # Hello
      PROVE  InOrder(taken', link'[d].up[i].session)
  <2>1. link'[d].up[i].session \in Nat
    <3>1. link'[d].up[i] \in Frames BY FrameSteps
    <3> QED BY <3>1 DEF Frames
  <2>2. CASE d = c
    <3>1. link'[c].up = Tail(link[c].up) BY <1>3 DEF Replaces
    <3>2. /\ i + 1 \in DOMAIN link[c].up /\ link'[c].up[i] = link[c].up[i + 1] /\ 1 < i + 1
      BY <1>4, <1>9, <2>2, <3>1
    <3>3. InOrder(taken, link[c].up[i + 1].session) BY <1>9, <2>2, <3>2 DEF OrderInv
    <3>4. s <= link[c].up[i + 1].session BY <1>1, <3>2 DEF SentInv
    <3> QED BY <1>8, <2>1, <2>2, <3>2, <3>3, <3>4
  <2>3. CASE d # c
    <3>1. link'[d] = link[d] BY <1>3, <2>3 DEF Replaces
    <3>2. InOrder(taken, link[d].up[i].session) BY <1>9, <3>1 DEF OrderInv
    <3>3. s <= link[d].up[i].session BY <1>1, <1>2, <1>9, <2>3, <3>1 DEF OrderInv, Succeeds
    <3> QED BY <1>8, <2>1, <3>1, <3>2, <3>3
  <2> QED BY <2>2, <2>3
<1>10. ASSUME NEW d \in Connections, c # d, NEW j \in DOMAIN link'[d].up, link'[d].up[j] # Hello
       PROVE  /\ link'[c].agent = "closed"
              /\ \A i \in DOMAIN link'[c].up : link'[c].up[i].session <= link'[d].up[j].session
  <2>1. link'[d] = link[d] /\ link'[c].up = Tail(link[c].up) /\ link'[c].agent = link[c].agent
    BY <1>3, <1>10 DEF Replaces
  <2>2. /\ link[c].agent = "closed"
        /\ \A i \in DOMAIN link[c].up : link[c].up[i].session <= link[d].up[j].session
    BY <1>2, <1>10, <2>1 DEF OrderInv, Succeeds
  <2>3. \A i \in DOMAIN link'[c].up :
           i + 1 \in DOMAIN link[c].up /\ link'[c].up[i] = link[c].up[i + 1]
    BY <1>4, <2>1
  <2> QED BY <2>1, <2>2, <2>3
<1> QED BY <1>7, <1>9, <1>10 DEF Succeeds

\* Every step keeps the order, unless two connections contend.
LEMMA OrderNext ==
    ASSUME ClientInv, SentInv, OrderInv, [Next]_vars PROVE OrderInv'
<1>1. CASE \E c \in Connections : BrokerReads(c) BY <1>1, ReadOrder
<1>2. CASE SendOk \/ SendFails BY <1>2, SendOrder
<1>3. CASE \E c \in Connections : BrokerHello(c) /\ registered = NoConnection
  BY <1>3, HelloOrder
<1>4. CASE /\ ~\E c \in Connections : BrokerReads(c)
           /\ ~SendOk /\ ~SendFails
           /\ ~\E c \in Connections : BrokerHello(c) /\ registered = NoConnection
  <2>1. taken' = taken BY <1>4, TakenSteps DEF ClientInv
  <2>2. registered' \in {registered, NoConnection} /\ contended' = contended
    BY <1>4, RegisteredSteps
  <2> QED BY <1>4, <2>1, <2>2, ShrinkOrder
<1> QED BY <1>1, <1>2, <1>3, <1>4

\* At the start nothing is in flight.
LEMMA OrderInit ==
    ASSUME Init PROVE SentInv /\ OrderInv
<1>1. taken = <<>> /\ \A c \in Connections : link[c].up = <<>> BY DEF Init, Closed
<1>2. outbox = <<>> \/ outbox = <<Request("environment", 1), Request("subscribe", 2)>>
  BY DEF Init
<1>3. \A i, j \in DOMAIN outbox : i < j => outbox[i].session < outbox[j].session
  BY <1>2 DEF Request
<1>4. SentInv BY <1>1, <1>3 DEF SentInv
<1>5. OrderInv BY <1>1 DEF OrderInv, RequestOrder, Succeeds
<1> QED BY <1>4, <1>5

\* OrderUnlessContended for every program, any connections and any failures: a request that is
\* sent again never overtakes one that is unread on the connection it was first sent over.
THEOREM OrderKept == Spec => []OrderUnlessContended
<1>1. Init => SentInv /\ OrderInv BY OrderInit
<1>2. ClientInv /\ SentInv /\ OrderInv /\ [Next]_vars => SentInv' /\ OrderInv'
  BY SentNext, OrderNext
<1>3. OrderInv => OrderUnlessContended BY DEF OrderInv, OrderUnlessContended
<1> QED BY <1>1, <1>2, <1>3, ClientInvariant, PTL DEF Spec

=============================================================================
