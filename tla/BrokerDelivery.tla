--------------------------- MODULE BrokerDelivery ---------------------------
(***************************************************************************)
(* The Broker--CA link together with the router that its deliveries end    *)
(* in: the link task of brokerd hands each delivery to route_ca_delivery,  *)
(* which takes it for the recipient or refuses it because the recipient's  *)
(* queue is full.  A refusal ends the CA session, and cad sends the        *)
(* delivery again on the next one, before everything it generated later.   *)
(*                                                                         *)
(* Of the router there is what lies on the path of a delivery: for each    *)
(* Agent its registration, if it has one, with the frame in hand, the      *)
(* captured queue and the channel; its offline queue; and the two steps of *)
(* an enqueue, between which the Agent may connect.  Generations, the      *)
(* limit on connections and tasks that die are in BrokerRouter.  brokerd   *)
(* does not restart here: what that does to the link is in BrokerCaLink.   *)
(***************************************************************************)
EXTENDS BrokerCaLink

CONSTANTS
    Agents,         \* recipients of deliveries
    Readers,        \* the Agents that stay connected and read
    OnlineDepth,    \* online_queue_depth
    OfflineDepth,   \* offline_queue_depth
    MaxDrops        \* bound: connections of Agents that end

ASSUME ReaderAssumption == Readers \subseteq Agents
ASSUME RouterAssumption ==
    OnlineDepth \in Nat \ {0} /\ OfflineDepth \in Nat /\ MaxDrops \in Nat

VARIABLES
    to,         \* delivery -> its recipient
    connected,  \* the Agents that are registered
    hand,       \* Agent -> the frame its task is writing, if any
    captured,   \* Agent -> what its registration took over from the offline queue
    channel,    \* Agent -> the channel of its registration
    offline,    \* Agent -> its offline queue
    unlocked,   \* whether the link task has released the table and is about to enqueue
    drops,      \* how much of the bound MaxDrops has been used
    written,    \* history: Agent -> the deliveries written to its sockets
    raced,      \* history: Agents that were connected when a delivery was enqueued
    cut         \* history: Agents whose frames did not all fit when they were requeued

queues  == <<hand, captured, channel, offline>>
ends    == <<to, connected, queues, unlocked, drops, written, raced, cut>>
allVars == <<vars, ends>>

DeliveryInit ==
    /\ Init
    /\ to = <<>> /\ connected = {} /\ unlocked = FALSE /\ drops = 0 /\ raced = {} /\ cut = {}
    /\ hand = [a \in Agents |-> <<>>] /\ captured = [a \in Agents |-> <<>>]
    /\ channel = [a \in Agents |-> <<>>] /\ offline = [a \in Agents |-> <<>>]
    /\ written = [a \in Agents |-> <<>>]

(***************************************************************************)
(* The connection tasks of the Agents.                                     *)
(***************************************************************************)
\* register: the offline queue is captured.
Connect(a) ==
    /\ a \notin connected /\ connected' = connected \cup {a}
    /\ captured' = [captured EXCEPT ![a] = offline[a]]
    /\ offline' = [offline EXCEPT ![a] = <<>>]
    /\ UNCHANGED <<vars, to, hand, channel, unlocked, drops, written, raced, cut>>

\* recv_best_effort: what was captured goes first.
Take(a) ==
    /\ a \in connected /\ hand[a] = <<>>
    /\ \/ /\ captured[a] # <<>>
          /\ hand' = [hand EXCEPT ![a] = << Head(captured[a]) >>]
          /\ captured' = [captured EXCEPT ![a] = Tail(@)]
          /\ UNCHANGED channel
       \/ /\ captured[a] = <<>> /\ channel[a] # <<>>
          /\ hand' = [hand EXCEPT ![a] = << Head(channel[a]) >>]
          /\ channel' = [channel EXCEPT ![a] = Tail(@)]
          /\ UNCHANGED captured
    /\ UNCHANGED <<vars, to, connected, offline, unlocked, drops, written, raced, cut>>

Write(a) ==
    /\ hand[a] # <<>>
    /\ written' = [written EXCEPT ![a] = @ \o hand[a]]
    /\ hand' = [hand EXCEPT ![a] = <<>>]
    /\ UNCHANGED <<vars, to, connected, captured, channel, offline, unlocked, drops, raced, cut>>

Unsent(a) == hand[a] \o captured[a] \o channel[a]

\* The write or the read of the task fails: disconnect_and_requeue, with prepend.
Disconnect(a) ==
    /\ a \in connected /\ connected' = connected \ {a}
    /\ drops < MaxDrops /\ drops' = drops + 1
    /\ LET all == Unsent(a) \o offline[a] IN
       IF Len(all) > OfflineDepth
       THEN /\ offline' = [offline EXCEPT ![a] = SubSeq(all, 1, OfflineDepth)]
            /\ cut' = cut \cup {a}
       ELSE offline' = [offline EXCEPT ![a] = all] /\ UNCHANGED cut
    /\ hand' = [hand EXCEPT ![a] = <<>>] /\ captured' = [captured EXCEPT ![a] = <<>>]
    /\ channel' = [channel EXCEPT ![a] = <<>>]
    /\ UNCHANGED <<vars, to, unlocked, written, raced>>

(***************************************************************************)
(* The link task.                                                          *)
(***************************************************************************)
ReadsNewDelivery ==
    /\ bState = "up" /\ BReads("Delivery") /\ ~Contains(acquired_deliveries, Head(c2b).id)

Recipient == to[Head(c2b).id]

\* route_ca_delivery sends the delivery to the channel of the recipient.
RouteOnline ==
    /\ ReadsNewDelivery /\ ~unlocked
    /\ Recipient \in connected /\ Len(channel[Recipient]) < OnlineDepth
    /\ BRouteDelivery
    /\ channel' = [channel EXCEPT ![Recipient] = Append(@, Head(c2b).id)]
    /\ UNCHANGED <<to, connected, hand, captured, offline, unlocked, drops, written, raced, cut>>

\* The recipient is not connected: the table is unlocked before the enqueue.
RouteOffline ==
    /\ ReadsNewDelivery /\ ~unlocked /\ Recipient \notin connected
    /\ unlocked' = TRUE
    /\ UNCHANGED <<vars, to, connected, queues, drops, written, raced, cut>>

\* Mutant: an enqueued delivery is not put into the deduplication window.
Enqueue_NotAcquired ==
    /\ unlocked /\ unlocked' = FALSE /\ Len(offline[Recipient]) < OfflineDepth
    /\ routed' = Append(routed, Head(c2b).id)
    /\ b2c' = Sent(b2c, <<Ack(Head(c2b).id)>>) /\ c2b' = Tail(c2b)
    /\ offline' = [offline EXCEPT ![Recipient] = Append(@, Head(c2b).id)]
    /\ raced' = IF Recipient \in connected THEN raced \cup {Recipient} ELSE raced
    /\ UNCHANGED <<bVars, conn, cVars, budgets, issued, processed, origin,
                   to, connected, hand, captured, channel, drops, written, cut>>

\* enqueue, whether or not the recipient is connected by now.
Enqueue ==
    /\ unlocked /\ unlocked' = FALSE /\ Len(offline[Recipient]) < OfflineDepth
    /\ BRouteDelivery
    /\ offline' = [offline EXCEPT ![Recipient] = Append(@, Head(c2b).id)]
    /\ raced' = IF Recipient \in connected THEN raced \cup {Recipient} ELSE raced
    /\ UNCHANGED <<to, connected, hand, captured, channel, drops, written, cut>>

\* The channel or the offline queue has no room.
QueueFull ==
    \/ ~unlocked /\ Recipient \in connected /\ Len(channel[Recipient]) >= OnlineDepth
    \/ unlocked /\ Len(offline[Recipient]) >= OfflineDepth

\* Mutant: a refused delivery is acknowledged like a routed one.
Refuse_Acknowledged ==
    /\ ReadsNewDelivery /\ QueueFull
    /\ b2c' = Sent(b2c, <<Ack(Head(c2b).id)>>) /\ c2b' = Tail(c2b)
    /\ unlocked' = FALSE
    /\ UNCHANGED <<bVars, conn, cVars, budgets, history,
                   to, connected, queues, drops, written, raced, cut>>

\* OnlineQueueFull or OfflineQueueFull: run_ca_session returns the error.
Refuse ==
    /\ ReadsNewDelivery /\ QueueFull
    /\ BClose
    /\ unlocked' = FALSE
    /\ UNCHANGED <<requests, pending, acquired_deliveries, cVars, budgets, history,
                   to, connected, queues, drops, written, raced, cut>>

\* A step of the link task that routes nothing; between the two steps of an enqueue it makes none.
LinkTask(step) == ~unlocked /\ step /\ UNCHANGED ends

\* A step elsewhere.  The frame that the link task is enqueuing has been read, and stays.
Beside(step) == step /\ (unlocked => c2b' # <<>>) /\ UNCHANGED ends

\* The deliveries a publication generated go to subscribers, one or several of an Agent.
Publish ==
    /\ \E n \in 1..MaxGroup : CPublish(n)
    /\ unlocked => c2b' # <<>>
    /\ \E recipients \in [1..(Len(origin') - Len(origin)) -> Agents] : to' = to \o recipients
    /\ UNCHANGED <<connected, queues, unlocked, drops, written, raced, cut>>

BrokerStep ==
    \/ LinkTask(BConnect) \/ LinkTask(BRecvChallenge) \/ LinkTask(BRecvAuthOk)
    \/ LinkTask(BTakeRequest) \/ LinkTask(BRecvAck) \/ LinkTask(BRecvDuplicateDelivery)
    \/ LinkTask(BEof) \/ RouteOnline \/ RouteOffline \/ Enqueue \/ Refuse

\* CUnexpectedRequest needs a restart of brokerd (RequestsSerialized).
CaStep ==
    \/ Beside(CAccept) \/ Beside(CRecvAuthResponse) \/ Beside(CRecvAck)
    \/ Beside(CRecvCurrentRequest) \/ Beside(CRecvAcquiredRequest)
    \/ Beside(CProcessNoDelivery) \/ Publish
    \/ Beside(CEof)

Serve(a) == Connect(a) \/ Take(a) \/ Write(a)

DeliveryNext ==
    \/ \E session \in Requests : Beside(AgentRequest(session))
    \/ BrokerStep \/ LinkTask(BRetry) \/ CaStep \/ Beside(CRetry)
    \/ \E a \in Agents : Serve(a) \/ Disconnect(a)
    \/ LinkTask(BLinkFailure) \/ Beside(CLinkFailure) \/ Beside(CaRestart)

DeliverySpec ==
    /\ DeliveryInit /\ [][DeliveryNext]_allVars
    /\ WF_allVars(BrokerStep) /\ WF_allVars(CaStep)
    /\ \A a \in Readers : WF_allVars(Serve(a))

-----------------------------------------------------------------------------
(***************************************************************************)
(* Properties.                                                             *)
(***************************************************************************)
\* What the router took for an Agent: written, or held in the order of its next registration.
Taken(a) == written[a] \o Unsent(a) \o offline[a]

\* Without a restart of cad, a delivery that the CA generated is with the CA, held for its recipient
\* or written to it, however often a full queue ends the session; only a recipient whose own
\* requeue overflowed can miss one, never another Agent.
NoLossUnlessCut ==
    cRestarts = 0 =>
        \A d \in DOMAIN origin :
            d \in Ids(pending_deliveries) \/ Contains(Taken(to[d]), d) \/ to[d] \in cut

\* With a window as large as a group, an Agent is written its own deliveries, each once, whatever
\* is retransmitted or requeued, and in the order of their generation unless one of its own was
\* enqueued while it was connected.
OncePerAgentInOrder ==
    BrokerDedupDepth >= MaxGroup =>
        \A a \in Agents :
            /\ \A i \in DOMAIN Taken(a) : to[Taken(a)[i]] = a
            /\ \A i, j \in DOMAIN Taken(a) : Taken(a)[i] = Taken(a)[j] => i = j
            /\ a \notin raced => Increasing(Taken(a))

\* An Agent that does not read has filled its queue.
Blocked ==
    \E a \in Agents \ Readers :
        IF a \in connected THEN Len(channel[a]) >= OnlineDepth ELSE Len(offline[a]) >= OfflineDepth

\* "Every unacknowledged item is retained and retransmitted": once faults stop, every queued
\* request is acknowledged and every delivery routed, unless an Agent that does not read has a
\* full queue.  As long as all Agents read, a full queue only delays the others.
DrainedUnlessBlocked == []<>(Drained \/ Blocked)
=============================================================================
