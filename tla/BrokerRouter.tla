---------------------------- MODULE BrokerRouter ----------------------------
(***************************************************************************)
(* The router of crates/broker-core with the tasks of apps/brokerd that    *)
(* use it: the Broker--CA link task, which routes CA deliveries, and one   *)
(* task per Agent connection, which registers, writes deliveries to its    *)
(* socket and finally puts back what it could not write.                   *)
(*                                                                         *)
(* The connection table is behind one lock and the offline queues behind   *)
(* another.  An action is one critical section, so route_ca_delivery for   *)
(* an Agent without a connection takes two steps: it releases the table    *)
(* before it appends to the offline queue.                                 *)
(*                                                                         *)
(* A delivery is the number of its generation by the CA; the link task     *)
(* presents the deliveries in that order and presents one again until the  *)
(* router takes it, which is what BrokerCaLink shows of the link.          *)
(***************************************************************************)
EXTENDS Naturals, Sequences, FiniteSets

CONSTANTS
    Agents,         \* Agent identities (the CA's own is refused before any state changes)
    Maximum,        \* max_connections
    OnlineDepth,    \* online_queue_depth: capacity of a connection's channel
    OfflineDepth,   \* offline_queue_depth: capacity of an Agent's offline queue
    MaxDeliveries,  \* bound: deliveries generated by the CA
    MaxConnects,    \* bound: registrations, and so generations
    MaxAborts       \* bound: connection tasks that die without cleaning up

\* register refuses every Agent when Maximum or OnlineDepth is 0.
ASSUME LimitAssumption ==
    /\ Maximum \in Nat \ {0} /\ OnlineDepth \in Nat \ {0} /\ OfflineDepth \in Nat
ASSUME BoundAssumption ==
    MaxDeliveries \in Nat /\ MaxConnects \in Nat /\ MaxAborts \in Nat

VARIABLES
    connections,    \* Agent -> generation of its connection, NoGeneration if it has none
    offline,        \* Agent -> its offline queue
    registrations,  \* generation -> its AgentRegistration and the task that holds it
    link,           \* the link task: "idle", "routing", or "unlocked" before the enqueue
    recipient,      \* delivery -> Agent; the last one is the delivery being routed
    aborts,         \* how much of the bound MaxAborts has been used
    accepted,       \* history: deliveries for which route_ca_delivery returned Ok
    written,        \* history: Agent -> deliveries written to its sockets
    truncated,      \* history: deliveries cut off by prepend
    dropped,        \* history: deliveries lost with an aborted task
    raced           \* history: an enqueue found the Agent connected meanwhile

history == <<accepted, written, truncated, dropped, raced>>
vars    == <<connections, offline, registrations, link, recipient, aborts, history>>

NoGeneration == 0
NoFrame      == 0
Elements(s)  == {s[i] : i \in DOMAIN s}
Connected    == {a \in Agents : connections[a] # NoGeneration}
Generations  == DOMAIN registrations

\* Mutant: the captured queue is left out of the registration.
Registration_WithoutQueue(agent, pending) ==
    [owner |-> agent, task |-> "serving", pending |-> <<>>, channel |-> <<>>, hand |-> NoFrame]

Registration(agent, pending) ==
    [owner |-> agent, task |-> "serving", pending |-> pending, channel |-> <<>>, hand |-> NoFrame]

Serving(g) == g \in Generations /\ registrations[g].task = "serving"

Init ==
    /\ connections = [a \in Agents |-> NoGeneration]
    /\ offline = [a \in Agents |-> <<>>]
    /\ registrations = <<>>
    /\ link = "idle" /\ recipient = <<>> /\ aborts = 0
    /\ accepted = {} /\ written = [a \in Agents |-> <<>>]
    /\ truncated = {} /\ dropped = {} /\ raced = FALSE

(***************************************************************************)
(* Agent connections.                                                      *)
(***************************************************************************)
\* Mutant: the offline queue is copied, not taken.
Register_CopiesQueue(a) ==
    /\ Len(registrations) < MaxConnects
    /\ connections[a] = NoGeneration /\ Cardinality(Connected) < Maximum
    /\ connections' = [connections EXCEPT ![a] = Len(registrations) + 1]
    /\ registrations' = Append(registrations, Registration(a, offline[a]))
    /\ UNCHANGED <<offline, link, recipient, aborts, history>>

\* register: the offline queue is captured while the connection table is locked.
\* A second connection of an Agent, or one too many, is refused without effect.
Register(a) ==
    /\ Len(registrations) < MaxConnects
    /\ connections[a] = NoGeneration /\ Cardinality(Connected) < Maximum
    /\ connections' = [connections EXCEPT ![a] = Len(registrations) + 1]
    /\ registrations' = Append(registrations, Registration(a, offline[a]))
    /\ offline' = [offline EXCEPT ![a] = <<>>]
    /\ UNCHANGED <<link, recipient, aborts, history>>

\* Mutant: live deliveries go before the captured ones.
TakeFrame_ChannelFirst(g) ==
    /\ Serving(g) /\ registrations[g].hand = NoFrame
    /\ LET r == registrations[g] IN
       \/ /\ r.channel # <<>>
          /\ registrations' = [registrations EXCEPT ![g].hand = Head(r.channel),
                                                    ![g].channel = Tail(r.channel)]
       \/ /\ r.channel = <<>> /\ r.pending # <<>>
          /\ registrations' = [registrations EXCEPT ![g].hand = Head(r.pending),
                                                    ![g].pending = Tail(r.pending)]
    /\ UNCHANGED <<connections, offline, link, recipient, aborts, history>>

\* recv_best_effort: what was captured at registration goes first.
TakeFrame(g) ==
    /\ Serving(g) /\ registrations[g].hand = NoFrame
    /\ LET r == registrations[g] IN
       \/ /\ r.pending # <<>>
          /\ registrations' = [registrations EXCEPT ![g].hand = Head(r.pending),
                                                    ![g].pending = Tail(r.pending)]
       \/ /\ r.pending = <<>> /\ r.channel # <<>>
          /\ registrations' = [registrations EXCEPT ![g].hand = Head(r.channel),
                                                    ![g].channel = Tail(r.channel)]
    /\ UNCHANGED <<connections, offline, link, recipient, aborts, history>>

WriteOk(g) ==
    /\ Serving(g) /\ registrations[g].hand # NoFrame
    /\ written' = [written EXCEPT ![registrations[g].owner] = Append(@, registrations[g].hand)]
    /\ registrations' = [registrations EXCEPT ![g].hand = NoFrame]
    /\ UNCHANGED <<connections, offline, link, recipient, aborts,
                   accepted, truncated, dropped, raced>>

\* The loop ends: the write failed or timed out, which leaves the frame in hand as
\* `undelivered`; or nothing is being written and the read failed, timed out, met
\* the end of the stream or returned a request the router refused.
Leave(g) ==
    /\ Serving(g)
    /\ registrations' = [registrations EXCEPT ![g].task = "leaving"]
    /\ UNCHANGED <<connections, offline, link, recipient, aborts, history>>

\* The frames disconnect_and_requeue collects: `first`, then what try_recv returns.
Unsent(g) ==
    LET r == registrations[g]
    IN  (IF r.hand = NoFrame THEN <<>> ELSE <<r.hand>>) \o r.pending \o r.channel

\* Mutant: the requeued frames are not cut to the depth.
Prepended_Unbounded(frames, queue) == frames \o queue

\* prepend: the older frames first, cut to the depth of the queue.
Prepended(frames, queue) ==
    LET all == frames \o queue
    IN  SubSeq(all, 1, IF Len(all) > OfflineDepth THEN OfflineDepth ELSE Len(all))

\* Mutant: frames are put back, and the entry goes, only when something was unsent.
DisconnectAndRequeue_OnlyUnsent(g) ==
    /\ g \in Generations /\ registrations[g].task = "leaving"
    /\ LET a == registrations[g].owner IN
       IF connections[a] = g /\ Unsent(g) # <<>>
       THEN LET all == Unsent(g) \o offline[a]
            IN  /\ connections' = [connections EXCEPT ![a] = NoGeneration]
                /\ offline' = [offline EXCEPT ![a] = Prepended(Unsent(g), offline[a])]
                /\ truncated' = truncated \cup (Elements(all) \ Elements(offline'[a]))
                /\ UNCHANGED dropped
       ELSE UNCHANGED <<connections, offline, truncated, dropped>>
    /\ registrations' = [registrations EXCEPT ![g].task = "ended", ![g].hand = NoFrame,
                                              ![g].pending = <<>>, ![g].channel = <<>>]
    /\ UNCHANGED <<link, recipient, aborts, accepted, written, raced>>

\* disconnect_and_requeue, then the end of the task.
DisconnectAndRequeue(g) ==
    /\ g \in Generations /\ registrations[g].task = "leaving"
    /\ LET a == registrations[g].owner IN
       IF connections[a] = g
       THEN LET all == Unsent(g) \o offline[a]
            IN  /\ connections' = [connections EXCEPT ![a] = NoGeneration]
                /\ offline' = [offline EXCEPT ![a] = Prepended(Unsent(g), offline[a])]
                /\ truncated' = truncated \cup (Elements(all) \ Elements(offline'[a]))
                /\ UNCHANGED dropped
       ELSE /\ dropped' = dropped \cup Elements(Unsent(g))
            /\ UNCHANGED <<connections, offline, truncated>>
    /\ registrations' = [registrations EXCEPT ![g].task = "ended", ![g].hand = NoFrame,
                                              ![g].pending = <<>>, ![g].channel = <<>>]
    /\ UNCHANGED <<link, recipient, aborts, accepted, written, raced>>

\* The task dies (a panic): its registration is dropped and its connection stays
\* in the table with a closed channel.
Abort(g) ==
    /\ g \in Generations /\ registrations[g].task \in {"serving", "leaving"}
    /\ aborts < MaxAborts /\ aborts' = aborts + 1
    /\ dropped' = dropped \cup Elements(Unsent(g))
    /\ registrations' = [registrations EXCEPT ![g].task = "ended", ![g].hand = NoFrame,
                                              ![g].pending = <<>>, ![g].channel = <<>>]
    /\ UNCHANGED <<connections, offline, link, recipient, accepted, written, truncated, raced>>

(***************************************************************************)
(* The link task: route_ca_delivery.                                       *)
(***************************************************************************)
\* The next delivery of the CA arrives.
CaDelivery(a) ==
    /\ link = "idle" /\ Len(recipient) < MaxDeliveries
    /\ link' = "routing" /\ recipient' = Append(recipient, a)
    /\ UNCHANGED <<connections, offline, registrations, aborts, history>>

Current   == Len(recipient)
Addressee == recipient[Current]

\* try_send to a live connection succeeds.  When its channel is full the router
\* answers OnlineQueueFull and changes nothing; the CA will send the delivery again.
RouteOnline ==
    /\ link = "routing" /\ Addressee \in Connected
    /\ LET g == connections[Addressee] IN
       /\ registrations[g].task # "ended"
       /\ Len(registrations[g].channel) < OnlineDepth
       /\ registrations' = [registrations EXCEPT ![g].channel = Append(@, Current)]
    /\ accepted' = accepted \cup {Current}
    /\ link' = "idle"
    /\ UNCHANGED <<connections, offline, recipient, aborts, written, truncated, dropped, raced>>

\* No connection, or one whose channel is closed, which is removed: the table is
\* unlocked and the frame is still to be enqueued.
RouteOffline ==
    /\ link = "routing"
    /\ \/ Addressee \notin Connected /\ UNCHANGED connections
       \/ /\ Addressee \in Connected
          /\ registrations[connections[Addressee]].task = "ended"
          /\ connections' = [connections EXCEPT ![Addressee] = NoGeneration]
    /\ link' = "unlocked"
    /\ UNCHANGED <<offline, registrations, recipient, aborts, history>>

\* enqueue, under the lock of the offline queues only.
Enqueue ==
    /\ link = "unlocked" /\ Len(offline[Addressee]) < OfflineDepth
    /\ offline' = [offline EXCEPT ![Addressee] = Append(@, Current)]
    /\ accepted' = accepted \cup {Current}
    /\ raced' = (raced \/ Addressee \in Connected)
    /\ link' = "idle"
    /\ UNCHANGED <<connections, registrations, recipient, aborts, written, truncated, dropped>>

\* OfflineQueueFull: the CA will send the delivery again.
EnqueueRefused ==
    /\ link = "unlocked" /\ Len(offline[Addressee]) >= OfflineDepth
    /\ link' = "routing"
    /\ UNCHANGED <<connections, offline, registrations, recipient, aborts, history>>

LinkStep == RouteOnline \/ RouteOffline \/ Enqueue \/ EnqueueRefused

TaskStep(g) == TakeFrame(g) \/ WriteOk(g) \/ DisconnectAndRequeue(g)

Next ==
    \/ \E a \in Agents : Register(a) \/ CaDelivery(a)
    \/ \E g \in Generations : TaskStep(g) \/ Leave(g) \/ Abort(g)
    \/ LinkStep

Spec == Init /\ [][Next]_vars

-----------------------------------------------------------------------------
(***************************************************************************)
(* Properties.                                                             *)
(***************************************************************************)
RegistrationType ==
    [owner : Agents, task : {"serving", "leaving", "ended"},
     pending : Seq(Nat), channel : Seq(Nat), hand : Nat]

\* The shape of the state; no queue outgrows its configured depth.
TypeOK ==
    /\ connections \in [Agents -> Nat] /\ offline \in [Agents -> Seq(Nat)]
    /\ registrations \in Seq(RegistrationType)
    /\ link \in {"idle", "routing", "unlocked"} /\ recipient \in Seq(Agents) /\ aborts \in Nat
    /\ accepted \subseteq Nat /\ written \in [Agents -> Seq(Nat)]
    /\ truncated \subseteq Nat /\ dropped \subseteq Nat /\ raced \in BOOLEAN
    /\ \A a \in Agents : Len(offline[a]) <= OfflineDepth
    /\ \A g \in Generations : /\ Len(registrations[g].channel) <= OnlineDepth
                              /\ Len(registrations[g].pending) <= OfflineDepth

Held(a) ==
    Elements(offline[a]) \cup
    UNION {Elements(Unsent(g)) : g \in {h \in Generations : registrations[h].owner = a}}

\* disconnect_and_requeue "returns all unsent delivery frames to the front of its offline FIFO":
\* what the router took is written to its Agent or held for it, but for the frames a task that
\* died had in its own queues.
AcceptedKept ==
    \A d \in accepted : d \in Held(recipient[d]) \cup Elements(written[recipient[d]]) \cup dropped

\* A requeue that overflows and the death of a task are the only ways to lose what the router
\* took: a registration that races an enqueue, a refused enqueue and the cleanup of a connection
\* another task has replaced lose nothing.
KeptUnlessOverflow ==
    \A d \in accepted :
        \/ d \in Held(recipient[d]) \cup Elements(written[recipient[d]]) \cup truncated
        \/ d \in dropped /\ aborts > 0

\* A delivery is in one place only: none is written twice, and none is both
\* written and still queued, however often the Agent reconnects.
NeverDuplicated ==
    \A a \in Agents :
        /\ \A i, j \in DOMAIN written[a] : written[a][i] = written[a][j] => i = j
        /\ Held(a) \cap Elements(written[a]) = {}

Increasing(s) == \A i, j \in DOMAIN s : i < j => s[i] < s[j]

\* "must preserve per-Agent FIFO order" (OfflineQueueStore): each Agent's deliveries are
\* written in the order in which the router took them.
PerAgentFifo == \A a \in Agents : Increasing(written[a])

\* The unlocked window of route_ca_delivery is the only way to lose that order.
FifoUnlessRaced == raced \/ PerAgentFifo

\* A registration in use is the one the table holds for its Agent, so an Agent never has two
\* tasks writing its deliveries; and every way out of a task but its death gives the slot back:
\* the table holds no more entries without a task, which refuse their Agent and count against
\* Maximum, than tasks have died.
TableFollowsTasks ==
    /\ \A g \in Generations :
           registrations[g].task # "ended" => connections[registrations[g].owner] = g
    /\ Cardinality({a \in Connected : registrations[connections[a]].task = "ended"}) <= aborts
=============================================================================
