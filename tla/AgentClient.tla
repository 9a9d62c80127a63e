----------------------------- MODULE AgentClient ----------------------------
(***************************************************************************)
(* One Agent program and its path to the broker: Agent of                  *)
(* crates/agent-core, connect_agent and send_agent_frame of                *)
(* crates/app-common, the receive loops of the Agent programs under apps,  *)
(* and the connection tasks of brokerd at the other end.                   *)
(*                                                                         *)
(* The Agent replaces its connection only after the new one has sent its   *)
(* hello, so brokerd may see the new hello while the old connection is     *)
(* still registered, and refuses it.  A write that succeeds only means     *)
(* that the kernel took the bytes.  A write that fails may have arrived.   *)
(*                                                                         *)
(* The router is the part of BrokerRouter that concerns one Agent: what    *)
(* its registration holds, its offline queue, and the window in which the  *)
(* link task has released the table.  Of the link and the CA there is what *)
(* BrokerCaLink and CaEngine show: requests reach the CA in the order in   *)
(* which brokerd read them, a session is applied once, deliveries reach    *)
(* the router in order, and a one-shot may be consumed for nothing.        *)
(***************************************************************************)
EXTENDS FixedReplayCache, Sequences, FiniteSets

CONSTANTS
    Connections,        \* TCP connections, used again once both ends are closed
    NoConnection,
    Roles,              \* which of the programs the Agent may be
    OfflineDepth,       \* capacity of the router's offline queue
    MaxRequests,        \* bound: program -> requests it builds
    MaxDeliveries,      \* bound: deliveries the CA generates for an Agent
    Quota,              \* bound: program -> deliveries the CA generates while it runs
    MaxFailures,        \* bound: failing or timed-out operations on open connections
    MaxTime             \* bound: seconds that pass

\* The receive loops of the Agent programs, with a permanent subscription, also of the coordinator
\* that publishes meanwhile, or with one-shots; a publisher; and the two functions of the library,
\* which end at the first error.
Programs == {"permanent", "coordinator", "one-shot", "publisher", "subscribe_permanent",
             "subscribe_once"}
Library  == {"subscribe_permanent", "subscribe_once"}
OneShot  == {"one-shot", "subscribe_once"}

ASSUME ConnectionAssumption == NoConnection \notin Connections
ASSUME RoleAssumption == Roles \subseteq Programs
ASSUME DepthAssumption == OfflineDepth \in Nat
ASSUME BoundAssumption ==
    /\ MaxRequests \in [Programs -> Nat] /\ Quota \in [Programs -> 0..MaxDeliveries]
    /\ MaxDeliveries \in Nat /\ MaxFailures \in Nat /\ MaxTime \in Nat

VARIABLES
    role,           \* the program
    phase,          \* what it is doing
    outbox,         \* the requests it has still to send
    built,          \* how many requests it built, and so sessions it drew
    transport,      \* its connection
    opening,        \* the connection that connect_agent is about to return
    cache,          \* its FixedReplayCache
    now,
    link,           \* connection -> both ends and the frames in flight
    registered,     \* the connection the router has for the Agent
    held,           \* what its registration holds: frame in hand, captured queue, channel
    offline,        \* the Agent's offline queue
    routing,        \* the delivery that the link task presents to the router
    unlocked,       \* whether the router has released its table to enqueue it
    subscription,   \* the subscription session the CA holds, 0 if none
    delivered,      \* how many deliveries the CA generated
    failures,
    taken,          \* history: the requests brokerd read, in order
    applied,        \* history: the requests the CA applied
    passed,         \* history: the deliveries that passed the replay cache, in order
    handed,         \* history: how many of them the application was given
    contended       \* history: a connection was registered while another one waited for
                    \* its own registration with requests unread

agentVars  == <<role, phase, outbox, built, transport, opening, cache>>
brokerVars == <<registered, held, offline, routing, unlocked, subscription, delivered>>
history    == <<taken, applied, passed, handed, contended>>
vars       == <<agentVars, now, link, brokerVars, failures, history>>

Hello == [kind |-> "hello", session |-> 0]
Request(kind, session) == [kind |-> kind, session |-> session]
Delivery(kind, session) == [kind |-> kind, session |-> session]
NoDelivery == [kind |-> "none", session |-> 0]

Closed == [agent |-> "closed", broker |-> "closed", up |-> <<>>, down |-> <<>>]
Accepted == [agent |-> "open", broker |-> "hello", up |-> <<Hello>>, down |-> <<>>]

AgentOpen(c)  == link[c].agent # "closed"
BrokerOpen(c) == link[c].broker # "closed"

Prefixes(s) == {SubSeq(s, 1, n) : n \in 0..Len(s)}

Failure == failures < MaxFailures /\ failures' = failures + 1

\* The first requests: the environment and then, for a subscriber, its subscription.
Init ==
    /\ role \in Roles
    /\ phase = IF role = "publisher" THEN "idle" ELSE "connecting"
    /\ outbox = IF role = "publisher" THEN <<>>
                ELSE <<Request("environment", 1), Request("subscribe", 2)>>
    /\ built = Len(outbox)
    /\ transport = NoConnection /\ opening = NoConnection
    /\ cache = [i \in Slots |-> Vacant] /\ now = 1
    /\ link = [c \in Connections |-> Closed]
    /\ registered = NoConnection /\ held = <<>> /\ offline = <<>>
    /\ routing = NoDelivery /\ unlocked = FALSE /\ subscription = 0 /\ delivered = 0
    /\ failures = 0 /\ taken = <<>> /\ applied = {} /\ passed = <<>> /\ handed = 0
    /\ contended = FALSE

(***************************************************************************)
(* Closing an end drops what it did not read, and leaves the other end any *)
(* prefix of what was in flight.                                           *)
(***************************************************************************)
AgentCloses(l, up) ==
    IF l.broker = "closed" THEN Closed ELSE [l EXCEPT !.agent = "closed", !.up = up, !.down = <<>>]

BrokerCloses(l, down) ==
    IF l.agent = "closed" THEN Closed
    ELSE [l EXCEPT !.broker = "closed", !.up = <<>>, !.down = down]

(***************************************************************************)
(* The Agent.                                                              *)
(***************************************************************************)
\* Mutant: a publisher goes on with the connection it closed after the last line.
PublishLine_WithoutConnecting ==
    /\ role = "publisher" /\ phase = "idle" /\ built + 2 <= MaxRequests[role]
    /\ outbox' = <<Request("environment", built + 1), Request("publish", built + 2)>>
    /\ built' = built + 2 /\ phase' = "sending"
    /\ UNCHANGED <<role, transport, opening, cache, now, link, brokerVars, failures, history>>

\* A publisher reads a line: send_on_demand_frames sends its environment and then the
\* publication.  Sessions, random in the code, are numbered in the order of sending.
PublishLine ==
    /\ role = "publisher" /\ phase = "idle" /\ built + 2 <= MaxRequests[role]
    /\ outbox' = <<Request("environment", built + 1), Request("publish", built + 2)>>
    /\ built' = built + 2 /\ phase' = "connecting"
    /\ UNCHANGED <<role, transport, opening, cache, now, link, brokerVars, failures, history>>

\* A coordinator reads a line while it waits, and publishes on the same connection.
PublishWhileWaiting ==
    /\ role = "coordinator" /\ phase = "waiting" /\ built < MaxRequests[role]
    /\ outbox' = <<Request("publish", built + 1)>>
    /\ built' = built + 1 /\ phase' = "sending"
    /\ UNCHANGED <<role, transport, opening, cache, now, link, brokerVars, failures, history>>

\* connect_agent: a connection is made and its hello sent.  The previous connection
\* is still open.  Attempts that fail before that change nothing but the backoff.
Open(c) ==
    /\ phase = "connecting" /\ opening = NoConnection /\ link[c] = Closed
    /\ link' = [link EXCEPT ![c] = Accepted]
    /\ opening' = c
    /\ UNCHANGED <<role, phase, outbox, built, transport, cache, now, brokerVars, failures, history>>

\* send_hello fails: the new connection is dropped and another one tried.
HelloFails ==
    /\ opening # NoConnection /\ Failure
    /\ \E up \in Prefixes(link[opening].up) :
           link' = [link EXCEPT ![opening] = AgentCloses(@, up)]
    /\ opening' = NoConnection
    /\ phase' = IF role \in Library THEN "failed" ELSE phase
    /\ UNCHANGED <<role, outbox, built, transport, cache, now, brokerVars, history>>

\* Mutant: a responder that reconnected registers another subscription.
Adopt_Resubscribes ==
    /\ opening # NoConnection
    /\ IF transport = NoConnection
       THEN UNCHANGED link
       ELSE \E up \in Prefixes(link[transport].up) :
                link' = [link EXCEPT ![transport] = AgentCloses(@, up)]
    /\ transport' = opening /\ opening' = NoConnection
    /\ IF outbox = <<>> /\ built < MaxRequests[role]
       THEN outbox' = <<Request("subscribe", built + 1)>> /\ built' = built + 1
       ELSE UNCHANGED <<outbox, built>>
    /\ phase' = IF outbox' = <<>> THEN "waiting" ELSE "sending"
    /\ UNCHANGED <<role, cache, now, brokerVars, failures, history>>

\* connect_agent returns, and the assignment to *transport drops the old connection.
\* The frame whose write failed is sent again; what was awaited is still awaited.
Adopt ==
    /\ opening # NoConnection
    /\ IF transport = NoConnection
       THEN UNCHANGED link
       ELSE \E up \in Prefixes(link[transport].up) :
                link' = [link EXCEPT ![transport] = AgentCloses(@, up)]
    /\ transport' = opening /\ opening' = NoConnection
    /\ phase' = IF outbox = <<>> THEN "waiting" ELSE "sending"
    /\ UNCHANGED <<role, outbox, built, cache, now, brokerVars, failures, history>>

\* The kernel takes the frame, also when brokerd has closed its end.  After its last
\* frame a publisher closes the connection, and a subscriber waits.
SendOk ==
    /\ phase = "sending"
    /\ LET sent == IF BrokerOpen(transport)
                   THEN [link[transport] EXCEPT !.up = Append(@, Head(outbox))]
                   ELSE link[transport]
           leaves == role = "publisher" /\ Tail(outbox) = <<>>
       IN  \E up \in IF leaves THEN Prefixes(sent.up) ELSE {sent.up} :
               /\ link' = [link EXCEPT ![transport] = IF leaves THEN AgentCloses(sent, up) ELSE sent]
               /\ transport' = IF leaves THEN NoConnection ELSE transport
    /\ outbox' = Tail(outbox)
    /\ phase' = IF Tail(outbox) # <<>> THEN "sending"
                ELSE IF role = "publisher" THEN "idle" ELSE "waiting"
    /\ UNCHANGED <<role, built, opening, cache, now, brokerVars, failures, history>>

\* The write fails or times out, and the frame may have arrived all the same:
\* send_agent_frame reconnects and sends the same bytes again.
SendFails ==
    /\ phase = "sending"
    /\ \/ Failure
       \/ ~BrokerOpen(transport) /\ UNCHANGED failures
    /\ \/ UNCHANGED link
       \/ /\ BrokerOpen(transport)
          /\ link' = [link EXCEPT ![transport].up = Append(@, Head(outbox))]
    /\ phase' = IF role \in Library THEN "failed" ELSE "connecting"
    /\ UNCHANGED <<role, outbox, built, transport, opening, cache, now, brokerVars, history>>

\* The read fails, or its deadline passes while a frame is on its way.
ReceiveFails ==
    /\ phase = "waiting" /\ Failure
    /\ phase' = IF role \in Library THEN "failed" ELSE "connecting"
    /\ UNCHANGED <<role, outbox, built, transport, opening, cache, now, link, brokerVars, history>>

\* The Agent is served, and its registration has nothing left to write.
Quiet == link[transport].broker = "serving" /\ held = <<>>

\* Mutant: the receive has no deadline.
ReceiveEnds_WithoutDeadline ==
    /\ phase = "waiting" /\ link[transport].down = <<>> /\ ~BrokerOpen(transport)
    /\ phase' = IF role \in Library THEN "failed" ELSE "connecting"
    /\ UNCHANGED <<role, outbox, built, transport, opening, cache, now, link, brokerVars,
                   failures, history>>

\* The stream has ended, or the deadline passes because there is nothing to read.
ReceiveEnds ==
    /\ phase = "waiting" /\ link[transport].down = <<>>
    /\ ~BrokerOpen(transport) \/ Quiet
    /\ phase' = IF role \in Library THEN "failed" ELSE "connecting"
    /\ UNCHANGED <<role, outbox, built, transport, opening, cache, now, link, brokerVars,
                   failures, history>>

Incoming == Head(link[transport].down)

Arrives ==
    /\ phase = "waiting" /\ link[transport].down # <<>>
    /\ link' = [link EXCEPT ![transport].down = Tail(@)]

\* receive refuses a frame for another handler before the replay cache is asked.
ReceiveOther ==
    /\ Arrives /\ Incoming.kind = "other-handler"
    /\ phase' = IF role \in Library THEN "failed" ELSE "waiting"
    /\ UNCHANGED <<role, outbox, built, transport, opening, cache, now, brokerVars, failures, history>>

\* receive ends in Replay or Capacity.
ReceiveRefused ==
    /\ Arrives /\ Incoming.kind # "other-handler" /\ ~MayMark(cache, Incoming.session, now)
    /\ cache' = CheckAndMark(cache, Incoming.session, now)
    /\ phase' = IF role \in Library THEN "failed" ELSE "waiting"
    /\ UNCHANGED <<role, outbox, built, transport, opening, now, brokerVars, failures, history>>

\* check_and_mark returns Ok, before the delivery is opened.
Marks ==
    /\ Arrives /\ Incoming.kind # "other-handler" /\ MayMark(cache, Incoming.session, now)
    /\ cache' = CheckAndMark(cache, Incoming.session, now)
    /\ passed' = Append(passed, Incoming.session)

\* Whether receive opens the delivery and its type is accepted.
Usable == Incoming.kind = "usable"

\* The session is marked, and then the delivery does not open, because it was sealed for an
\* earlier key of the Agent, or a library function meets another type than it subscribed to.
ReceiveUnusable ==
    /\ Marks /\ ~Usable
    /\ phase' = IF role \in Library THEN "failed" ELSE "waiting"
    /\ UNCHANGED <<role, outbox, built, transport, opening, now, brokerVars, failures,
                   taken, applied, handed, contended>>

\* The application is given the delivery.  A responder then subscribes again.
Receive ==
    /\ Marks /\ Usable /\ handed' = handed + 1
    /\ IF role = "one-shot"
       THEN /\ built < MaxRequests[role] /\ built' = built + 1
            /\ outbox' = <<Request("subscribe", built + 1)>> /\ phase' = "sending"
       ELSE /\ phase' = IF role = "subscribe_once" THEN "idle" ELSE "waiting"
            /\ UNCHANGED <<outbox, built>>
    /\ UNCHANGED <<role, transport, opening, now, brokerVars, failures, taken, applied, contended>>

(***************************************************************************)
(* The connection tasks of brokerd.                                        *)
(***************************************************************************)
\* disconnect_and_requeue: the older frames first, cut to the depth of the queue.
Requeued(frames, queue) ==
    SubSeq(frames \o queue, 1, IF Len(frames \o queue) > OfflineDepth THEN OfflineDepth
                               ELSE Len(frames \o queue))

\* The task of connection c ends, and closes it; a task that had registered the Agent
\* gives its registration back first.
Leaves(c, down) ==
    /\ link' = [link EXCEPT ![c] = BrokerCloses(@, down)]
    /\ IF registered = c
       THEN registered' = NoConnection /\ held' = <<>> /\ offline' = Requeued(held, offline)
       ELSE UNCHANGED <<registered, held, offline>>
    /\ UNCHANGED <<routing, unlocked, subscription, delivered>>

\* Connection d waits for its hello to be read, with requests behind it.
Unregistered(d) == link[d].broker = "hello" /\ Len(link[d].up) > 1

\* register: the offline queue is captured.
Registers(c) ==
    /\ link' = [link EXCEPT ![c].broker = "serving", ![c].up = Tail(@)]
    /\ registered' = c /\ held' = offline /\ offline' = <<>>
    /\ UNCHANGED <<routing, unlocked, subscription, delivered>>

\* Mutant: a second connection is registered in place of the first, which goes on.
BrokerHello_Replaces(c) ==
    /\ link[c].broker = "hello" /\ link[c].up # <<>>
    /\ Registers(c)
    /\ contended' = (contended \/ \E d \in Connections \ {c} : Unregistered(d))
    /\ UNCHANGED <<agentVars, now, failures, taken, applied, passed, handed>>

\* The hello is read and the Agent registered, unless it still is, with its previous
\* connection: then the task returns and the new connection is closed.
BrokerHello(c) ==
    /\ link[c].broker = "hello" /\ link[c].up # <<>>
    /\ IF registered = NoConnection
       THEN /\ Registers(c)
            /\ contended' = (contended \/ \E d \in Connections \ {c} : Unregistered(d))
       ELSE Leaves(c, <<>>) /\ UNCHANGED contended
    /\ UNCHANGED <<agentVars, now, failures, taken, applied, passed, handed>>

\* route_agent_request.  The CA applies a session once, and may refuse what it asks for.
BrokerReads(c) ==
    /\ link[c].broker = "serving" /\ link[c].up # <<>>
    /\ LET r == Head(link[c].up) IN
       /\ link' = [link EXCEPT ![c].up = Tail(@)]
       /\ taken' = Append(taken, r.session)
       /\ applied' = applied \cup {r}
       /\ subscription' \in IF r.kind = "subscribe" /\ r \notin applied
                            THEN {subscription, r.session} ELSE {subscription}
    /\ UNCHANGED <<agentVars, now, registered, held, offline, routing, unlocked, delivered,
                   failures, passed, handed, contended>>

\* The queue to the CA is full: the request is dropped and the task ends.
BrokerRefuses(c) ==
    /\ link[c].broker = "serving" /\ link[c].up # <<>> /\ Failure
    /\ \E down \in Prefixes(link[c].down) : Leaves(c, down)
    /\ UNCHANGED <<agentVars, now, history>>

\* recv_best_effort and a write that succeeds, also when the Agent has closed its end.
BrokerWrites(c) ==
    /\ link[c].broker = "serving" /\ registered = c /\ held # <<>>
    /\ link' = IF AgentOpen(c)
               THEN [link EXCEPT ![c].down = Append(@, Head(held))] ELSE link
    /\ held' = Tail(held)
    /\ UNCHANGED <<agentVars, now, registered, offline, routing, unlocked, subscription, delivered,
                   failures, history>>

\* The write fails or times out, and the frame may have arrived: it goes back to the
\* front of the queue, and the task ends.
BrokerWriteFails(c) ==
    /\ link[c].broker = "serving" /\ registered = c /\ held # <<>>
    /\ \/ Failure
       \/ ~AgentOpen(c) /\ UNCHANGED failures
    /\ \E down \in Prefixes(link[c].down) \cup {Append(link[c].down, Head(held))} : Leaves(c, down)
    /\ UNCHANGED <<agentVars, now, history>>

\* The read fails or times out.
BrokerReadFails(c) ==
    /\ BrokerOpen(c) /\ Failure
    /\ \E down \in Prefixes(link[c].down) : Leaves(c, down)
    /\ UNCHANGED <<agentVars, now, history>>

\* The read meets the end of the stream.
BrokerEof(c) ==
    /\ BrokerOpen(c) /\ ~AgentOpen(c) /\ link[c].up = <<>>
    /\ \E down \in Prefixes(link[c].down) : Leaves(c, down)
    /\ UNCHANGED <<agentVars, now, failures, history>>

(***************************************************************************)
(* The CA and the link task of brokerd.                                    *)
(***************************************************************************)
Presents(kind) ==
    /\ delivered < Quota[role] /\ delivered' = delivered + 1
    /\ routing = NoDelivery /\ routing' = Delivery(kind, delivered')

\* A publication matches the subscription, or one that an earlier run of the Agent left, with
\* another handler, key or type.  The programs take any type.
CaDelivers ==
    /\ \/ /\ subscription # 0 /\ Presents("usable")
          /\ subscription' = IF role \in OneShot THEN 0 ELSE subscription
       \/ /\ Presents("other-handler") \/ Presents("unusable")
             \/ (role \notin Library /\ Presents("usable"))
          /\ UNCHANGED subscription
    /\ UNCHANGED <<agentVars, now, link, registered, held, offline, unlocked, failures, history>>

\* The one-shot is consumed and its delivery never leaves cad: a later claim of the same
\* publication fails, or cad stops.
CaDrops ==
    /\ subscription # 0 /\ role \in OneShot /\ subscription' = 0
    /\ UNCHANGED <<agentVars, now, link, registered, held, offline, routing, unlocked, delivered,
                   failures, history>>

\* route_ca_delivery while the Agent is registered.  A channel without room refuses, and the
\* CA presents the delivery again: it is then routed later.
RouteOnline ==
    /\ routing # NoDelivery /\ ~unlocked /\ registered # NoConnection
    /\ held' = Append(held, routing) /\ routing' = NoDelivery
    /\ UNCHANGED <<agentVars, now, link, registered, offline, unlocked, subscription, delivered,
                   failures, history>>

\* The Agent is not registered: the table is unlocked before the enqueue.
RouteOffline ==
    /\ routing # NoDelivery /\ ~unlocked /\ registered = NoConnection
    /\ unlocked' = TRUE
    /\ UNCHANGED <<agentVars, now, link, registered, held, offline, routing, subscription, delivered,
                   failures, history>>

\* enqueue, whether or not the Agent is registered by now; when the queue is full the
\* delivery is refused and presented again.
Enqueue ==
    /\ unlocked /\ unlocked' = FALSE
    /\ IF Len(offline) < OfflineDepth
       THEN offline' = Append(offline, routing) /\ routing' = NoDelivery
       ELSE UNCHANGED <<offline, routing>>
    /\ UNCHANGED <<agentVars, now, link, registered, held, subscription, delivered,
                   failures, history>>

Tick ==
    /\ now < MaxTime /\ now' = now + 1
    /\ UNCHANGED <<agentVars, link, brokerVars, failures, history>>

AgentStep ==
    \/ \E c \in Connections : Open(c)
    \/ Adopt \/ SendOk \/ ReceiveOther \/ ReceiveRefused \/ ReceiveUnusable \/ Receive
AgentFails == HelloFails \/ SendFails \/ ReceiveFails
BrokerStep(c) == BrokerHello(c) \/ BrokerReads(c) \/ BrokerWrites(c)
BrokerFails(c) == BrokerRefuses(c) \/ BrokerWriteFails(c) \/ BrokerReadFails(c)
LinkStep == RouteOnline \/ RouteOffline \/ Enqueue

Next ==
    \/ PublishLine \/ PublishWhileWaiting \/ AgentStep \/ ReceiveEnds \/ AgentFails
    \/ \E c \in Connections : BrokerStep(c) \/ BrokerEof(c) \/ BrokerFails(c)
    \/ CaDelivers \/ CaDrops \/ LinkStep \/ Tick

Spec == Init /\ [][Next]_vars

\* The Agent, each connection task and the link task run; a read reports the end of a
\* stream, and a receive ends when there is nothing to come.
FairSpec ==
    /\ Spec
    /\ WF_vars(AgentStep) /\ WF_vars(ReceiveEnds) /\ WF_vars(LinkStep)
    /\ \A c \in Connections : WF_vars(BrokerStep(c)) /\ WF_vars(BrokerEof(c))

-----------------------------------------------------------------------------
(***************************************************************************)
(* Properties.                                                             *)
(***************************************************************************)
Frames == [kind : {"hello", "environment", "subscribe", "publish"}, session : Nat]
Deliveries == [kind : {"usable", "other-handler", "unusable"}, session : 1..MaxDeliveries]
Links == [agent : {"closed", "open"}, broker : {"closed", "hello", "serving"},
          up : Seq(Frames), down : Seq(Deliveries)]

AgentOK ==
    /\ role \in Roles
    /\ phase \in {"idle", "connecting", "sending", "waiting", "failed"}
    /\ outbox \in Seq(Frames) /\ built \in Nat
    /\ transport \in Connections \cup {NoConnection}
    /\ opening \in Connections \cup {NoConnection}
    /\ phase \in {"sending", "waiting"} => transport # NoConnection
    /\ phase = "sending" => outbox # <<>>
CacheOK ==
    cache \in [Slots -> Entries] /\ now \in Nat /\ passed \in Seq(1..MaxDeliveries)
LinkOK == link \in [Connections -> Links]
BrokerOK ==
    /\ registered \in Connections \cup {NoConnection}
    /\ held \in Seq(Deliveries) /\ offline \in Seq(Deliveries) /\ Len(offline) <= OfflineDepth
    /\ routing \in Deliveries \cup {NoDelivery}
    /\ unlocked \in BOOLEAN /\ (unlocked => routing # NoDelivery)
    /\ subscription \in Nat /\ delivered \in 0..MaxDeliveries
HistoryOK ==
    /\ failures \in Nat /\ taken \in Seq(Nat) /\ applied \subseteq Frames
    /\ handed \in Nat /\ contended \in BOOLEAN

\* The shape of the state; while the Agent sends or waits it has a connection, and while
\* it sends it has something to send.
TypeOK == AgentOK /\ CacheOK /\ LinkOK /\ BrokerOK /\ HistoryOK

\* The end of a session's protection in the cache as it stands.
Until ==
    [s \in 1..MaxDeliveries |->
        IF \E i \in Slots : cache[i].session = s /\ cache[i].expires > now
        THEN cache[CHOOSE i \in Slots : cache[i].session = s /\ cache[i].expires > now].expires
        ELSE 0]

Protector == INSTANCE ReplayProtector WITH Sessions <- 1..MaxDeliveries, until <- Until

\* The fixed array of the Agent implements the trait: whatever brokerd writes again, a delivery
\* passes the replay check once, and not again before its time to live is over, also when the
\* array is full or partly expired.
ImplementsReplayProtector == Protector!Spec

\* "Reconnection of a one-shot wait does not register another subscription" (README.md),
\* and a resent request is not applied twice: the CA is asked for at most one subscription
\* more than the application was given deliveries, whatever it received besides.
OneSubscriptionPerWait ==
    Cardinality({r \in applied : r.kind = "subscribe"}) <= 1 + handed

\* "preserving request order" (README.md): brokerd reads no request for the first time
\* after one that the Agent sends later, over however many connections.
RequestOrder ==
    \A j \in DOMAIN taken : \A i \in 1..(j - 1) :
        taken[j] < taken[i] => \E k \in 1..(i - 1) : taken[k] = taken[j]

\* That order is lost only when two connections of the Agent wait for their registration
\* at the same time: once one is registered the other is refused, so that a retry never
\* overtakes a request that is still unread on the old connection.
OrderUnlessContended == contended \/ RequestOrder

\* What the router holds for an Agent that keeps waiting is written to it in the end, although
\* each reconnection may first be refused as a duplicate, and although an enqueue that lost the
\* race with a registration leaves a delivery where no task looks before the next registration.
EventuallyWritten ==
    [](role \in {"permanent", "coordinator"} /\ held \o offline # <<>> => <>(held \o offline = <<>>))
=============================================================================
