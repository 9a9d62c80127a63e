---------------------------- MODULE BrokerCaLink ----------------------------
(***************************************************************************)
(* The persistent link between brokerd and cad: maintain_ca_link,          *)
(* authenticate_ca and run_ca_session of apps/brokerd, the accept loop,    *)
(* authenticate_broker and the session loop of apps/cad, and the TCP       *)
(* connection between them.                                                *)
(*                                                                         *)
(* Each peer is one sequential task.  A send puts its frame on the         *)
(* connection while the connection exists and is lost otherwise; closing   *)
(* either end throws away what that end has not read and lets the other    *)
(* end still read any prefix of what was in flight, which also stands for  *)
(* a batch of sends that fails half way.                                   *)
(*                                                                         *)
(* What ca.process does to a request is reduced to what the link sees of   *)
(* it: an error, nothing to deliver, or a group of n deliveries; and to    *)
(* the durable replay entry that makes a second processing of the same     *)
(* opaque session an error.                                                *)
(***************************************************************************)
EXTENDS InfraLink

CONSTANTS
    Requests,           \* the opaque request sessions Agents may submit
    NoPayload,          \* the payload of the frames whose payload the link ignores
    MaxGroup,           \* limits.subscriptions: most deliveries of one publication
    CaPendingDepth,     \* broker_pending_deliveries of cad
    CaDedupDepth,       \* broker_dedup_entries of cad
    CaQueueDepth,       \* ca_queue_depth of brokerd, also its pending_depth
    BrokerDedupDepth,   \* ca_dedup_depth of brokerd
    MaxSubmits,         \* bound: requests submitted by Agents in a behaviour
    MaxFaults,          \* bound: link failures and rejected deliveries
    MaxBrokerRestarts,  \* bound: restarts of brokerd
    MaxCaRestarts,      \* bound: restarts of cad
    InFlightCap         \* bound: the retry timers fire only below this many frames in flight

ASSUME PayloadAssumption == NoPayload \notin Requests
\* cad refuses to start when its delivery queue cannot hold the largest group.
ASSUME DepthAssumption ==
    /\ MaxGroup \in Nat /\ CaPendingDepth \in Nat /\ MaxGroup <= CaPendingDepth
    /\ CaQueueDepth \in Nat
    /\ BrokerDedupDepth \in Nat
\* With an empty window cad ends at its first request (`insert(..)?` in main).
ASSUME CaDedupAssumption == CaDedupDepth \in Nat \ {0}
ASSUME BoundAssumption ==
    /\ MaxSubmits \in Nat /\ MaxFaults \in Nat /\ InFlightCap \in Nat
    /\ MaxBrokerRestarts \in Nat /\ MaxCaRestarts \in Nat

VARIABLES
    \* brokerd: the queue filled by route_agent_request and the link task's state
    requests, bState, pending, acquired_deliveries,
    \* cad: the state of main that outlives a connection
    cState, current_request, pending_deliveries, acquired_requests,
    \* cad's durable replay store
    applied,
    \* the TCP connection brokerd opened last (none left, in the listener's backlog,
    \* or accepted by cad) and the frames in flight in its two directions
    conn, b2c, c2b,
    \* how much of each bound has been used
    submits, faults, bRestarts, cRestarts,
    \* history: the number of link identifiers drawn for requests; the link
    \* identifiers processed by the CA, in order; for each delivery identifier
    \* the request it answers; the delivery identifiers routed, in order
    issued, processed, origin, routed

bVars    == <<requests, bState, pending, acquired_deliveries>>
cVars    == <<cState, current_request, pending_deliveries, acquired_requests, applied>>
net      == <<conn, b2c, c2b>>
budgets  == <<submits, faults, bRestarts, cRestarts>>
history  == <<issued, processed, origin, routed>>
vars     == <<bVars, cVars, net, budgets, history>>

BrokerStates == {"down", "challenge", "authok", "up"}
CaStates     == {"accept", "auth", "up"}
ConnStates   == {"none", "backlog", "linked"}
Frames       == [kind : FrameKinds, id : Nat, payload : Requests \cup {NoPayload}]

RequestFrame(id, session) == Frame("Request", id, session)
Delivery(id) == Frame("Delivery", id, NoPayload)
Ack(id)      == Frame("Ack", id, NoPayload)
AuthFrame(kind) == Frame(kind, NoId, NoPayload)

Init ==
    /\ requests = <<>> /\ bState = "down" /\ pending = <<>> /\ acquired_deliveries = <<>>
    /\ cState = "accept" /\ current_request = NoId
    /\ pending_deliveries = <<>> /\ acquired_requests = <<>> /\ applied = {}
    /\ conn = "none" /\ b2c = <<>> /\ c2b = <<>>
    /\ submits = 0 /\ faults = 0 /\ bRestarts = 0 /\ cRestarts = 0
    /\ issued = 0 /\ processed = <<>> /\ origin = <<>> /\ routed = <<>>

(***************************************************************************)
(* The connection.                                                         *)
(***************************************************************************)
\* What a direction holds once `frames` were written to it, one after another.
Sent(channel, frames) == IF conn = "linked" THEN channel \o frames ELSE channel

\* What the surviving end may still read after its peer closed.
Survivors(channel) ==
    IF conn = "linked" THEN {SubSeq(channel, 1, k) : k \in 0..Len(channel)} ELSE {channel}

\* Dropping the stream of the session, after which maintain_ca_link reconnects.
BClose ==
    /\ bState' = "down" /\ conn' = "none" /\ c2b' = <<>>
    /\ b2c' \in Survivors(b2c)

\* Dropping the stream of the session, after which main accepts again.  A newer
\* connection of brokerd stays in the backlog.
CClose ==
    /\ cState' = "accept" /\ b2c' = <<>>
    /\ conn' = IF conn = "linked" THEN "none" ELSE conn
    /\ c2b' \in Survivors(c2b)

BReads(kind) == c2b # <<>> /\ Head(c2b).kind = kind
CReads(kind) == b2c # <<>> /\ Head(b2c).kind = kind

(***************************************************************************)
(* Agents: route_agent_request puts a session on the CA queue, or refuses  *)
(* it when the queue is full.  The same session may be submitted again,    *)
(* because an Agent whose write failed resends the same bytes.             *)
(***************************************************************************)
AgentRequest(session) ==
    /\ submits < MaxSubmits
    /\ Len(requests) < CaQueueDepth
    /\ requests' = Append(requests, session)
    /\ submits' = submits + 1
    /\ UNCHANGED <<bState, pending, acquired_deliveries, cVars, net,
                   faults, bRestarts, cRestarts, history>>

(***************************************************************************)
(* Connecting: the TCP connect, the accept, and the challenge/response.    *)
(***************************************************************************)
BConnect ==
    /\ bState = "down"
    /\ bState' = "challenge" /\ conn' = "backlog"
    /\ UNCHANGED <<requests, pending, acquired_deliveries, cVars, b2c, c2b, budgets, history>>

\* Mutant: the deduplication window is made anew for each connection.
CAccept_FreshWindow ==
    /\ cState = "accept" /\ conn = "backlog"
    /\ cState' = "auth" /\ conn' = "linked" /\ acquired_requests' = <<>>
    /\ b2c' = <<>> /\ c2b' = <<AuthFrame("AuthChallenge")>>
    /\ UNCHANGED <<bVars, current_request, pending_deliveries, applied, budgets, history>>

CAccept ==
    /\ cState = "accept" /\ conn = "backlog"
    /\ cState' = "auth" /\ conn' = "linked"
    /\ b2c' = <<>> /\ c2b' = <<AuthFrame("AuthChallenge")>>
    /\ UNCHANGED <<bVars, current_request, pending_deliveries, acquired_requests, applied,
                   budgets, history>>

BRecvChallenge ==
    /\ bState = "challenge" /\ BReads("AuthChallenge")
    /\ bState' = "authok" /\ c2b' = Tail(c2b)
    /\ b2c' = Sent(b2c, <<AuthFrame("AuthResponse")>>)
    /\ UNCHANGED <<requests, pending, acquired_deliveries, cVars, conn, budgets, history>>

\* The accepted session starts by resending every unacknowledged delivery.
CRecvAuthResponse ==
    /\ cState = "auth" /\ CReads("AuthResponse")
    /\ cState' = "up" /\ b2c' = Tail(b2c)
    /\ c2b' = Sent(c2b, <<AuthFrame("AuthOk")>> \o pending_deliveries)
    /\ UNCHANGED <<bVars, current_request, pending_deliveries, acquired_requests, applied,
                   conn, budgets, history>>

\* Mutant: the deduplication window is made anew for each session.
BRecvAuthOk_FreshWindow ==
    /\ bState = "authok" /\ BReads("AuthOk")
    /\ bState' = "up" /\ c2b' = Tail(c2b) /\ acquired_deliveries' = <<>>
    /\ b2c' = Sent(b2c, pending)
    /\ UNCHANGED <<requests, pending, cVars, conn, budgets, history>>

\* run_ca_session starts by resending the unacknowledged request.
BRecvAuthOk ==
    /\ bState = "authok" /\ BReads("AuthOk")
    /\ bState' = "up" /\ c2b' = Tail(c2b)
    /\ b2c' = Sent(b2c, pending)
    /\ UNCHANGED <<requests, pending, acquired_deliveries, cVars, conn, budgets, history>>

(***************************************************************************)
(* run_ca_session: the arms of its select.                                 *)
(***************************************************************************)
BTakeRequest ==
    /\ bState = "up" /\ requests # <<>>
    /\ pending = <<>> /\ ~IsFull(pending, CaQueueDepth)
    /\ LET frame == RequestFrame(issued + 1, Head(requests))
       IN  /\ pending' = Append(pending, frame)
           /\ b2c' = Sent(b2c, <<frame>>)
    /\ requests' = Tail(requests)
    /\ issued' = issued + 1
    /\ UNCHANGED <<bState, acquired_deliveries, cVars, conn, c2b, budgets,
                   processed, origin, routed>>

\* Mutant: an acknowledgement releases the oldest request, whatever it names.
BRecvAck_AnyId ==
    /\ bState = "up" /\ BReads("Ack")
    /\ pending' = IF pending = <<>> THEN pending ELSE Tail(pending)
    /\ c2b' = Tail(c2b)
    /\ UNCHANGED <<requests, bState, acquired_deliveries, cVars, conn, b2c, budgets, history>>

BRecvAck ==
    /\ bState = "up" /\ BReads("Ack")
    /\ pending' = Acknowledge(pending, Head(c2b).id)
    /\ c2b' = Tail(c2b)
    /\ UNCHANGED <<requests, bState, acquired_deliveries, cVars, conn, b2c, budgets, history>>

BRecvDuplicateDelivery ==
    /\ bState = "up" /\ BReads("Delivery")
    /\ Contains(acquired_deliveries, Head(c2b).id)
    /\ b2c' = Sent(b2c, <<Ack(Head(c2b).id)>>)
    /\ c2b' = Tail(c2b)
    /\ UNCHANGED <<bVars, cVars, conn, budgets, history>>

\* A delivery the router takes; a window of depth 0 cannot record it, which
\* ends the session before the acknowledgement.
BRouteDelivery ==
    /\ bState = "up" /\ BReads("Delivery")
    /\ ~Contains(acquired_deliveries, Head(c2b).id)
    /\ routed' = Append(routed, Head(c2b).id)
    /\ IF BrokerDedupDepth = 0
       THEN BClose /\ UNCHANGED acquired_deliveries
       ELSE /\ acquired_deliveries' =
                   DedupInsert(acquired_deliveries, BrokerDedupDepth, Head(c2b).id)
            /\ b2c' = Sent(b2c, <<Ack(Head(c2b).id)>>)
            /\ c2b' = Tail(c2b)
            /\ UNCHANGED <<bState, conn>>
    /\ UNCHANGED <<requests, pending, cVars, budgets, issued, processed, origin>>

\* Mutant: a refused delivery is acknowledged like a routed one.
BRejectDelivery_Acknowledged ==
    /\ bState = "up" /\ BReads("Delivery")
    /\ ~Contains(acquired_deliveries, Head(c2b).id)
    /\ faults < MaxFaults /\ faults' = faults + 1
    /\ b2c' = Sent(b2c, <<Ack(Head(c2b).id)>>) /\ c2b' = Tail(c2b)
    /\ UNCHANGED <<bVars, conn, cVars, submits, bRestarts, cRestarts, history>>

\* A delivery the router refuses, because the recipient's queue is full.
BRejectDelivery ==
    /\ bState = "up" /\ BReads("Delivery")
    /\ ~Contains(acquired_deliveries, Head(c2b).id)
    /\ faults < MaxFaults /\ faults' = faults + 1
    /\ BClose
    /\ UNCHANGED <<requests, pending, acquired_deliveries, cVars,
                   submits, bRestarts, cRestarts, history>>

InFlight == Len(b2c) + Len(c2b)

BRetry ==
    /\ bState = "up" /\ pending # <<>>
    /\ InFlight + Len(pending) <= InFlightCap
    /\ b2c' = Sent(b2c, pending)
    /\ UNCHANGED <<bVars, cVars, conn, c2b, budgets, history>>

(***************************************************************************)
(* cad's session loop: the arms of its select.                             *)
(***************************************************************************)
\* The acknowledgement that empties the group also answers its request.
CRecvAck ==
    /\ cState = "up" /\ CReads("Ack")
    /\ pending_deliveries' = Acknowledge(pending_deliveries, Head(b2c).id)
    /\ b2c' = Tail(b2c)
    /\ IF pending_deliveries' = <<>> /\ current_request # NoId
       THEN current_request' = NoId /\ c2b' = Sent(c2b, <<Ack(current_request)>>)
       ELSE UNCHANGED <<current_request, c2b>>
    /\ UNCHANGED <<bVars, cState, acquired_requests, applied, conn, budgets, history>>

\* Mutant: the current request, which is also in the window, is answered at once.
CRecvCurrentRequest_Answers ==
    /\ cState = "up" /\ CReads("Request")
    /\ Head(b2c).id = current_request
    /\ b2c' = Tail(b2c)
    /\ c2b' = Sent(c2b, <<Ack(Head(b2c).id)>>)
    /\ UNCHANGED <<bVars, cVars, conn, budgets, history>>

CRecvCurrentRequest ==
    /\ cState = "up" /\ CReads("Request")
    /\ Head(b2c).id = current_request
    /\ b2c' = Tail(b2c)
    /\ UNCHANGED <<bVars, cVars, conn, c2b, budgets, history>>

\* Mutant: a duplicate request is ignored instead of acknowledged again.
CRecvAcquiredRequest_Silent ==
    /\ cState = "up" /\ CReads("Request")
    /\ Head(b2c).id # current_request /\ Contains(acquired_requests, Head(b2c).id)
    /\ b2c' = Tail(b2c)
    /\ UNCHANGED <<bVars, cVars, conn, c2b, budgets, history>>

CRecvAcquiredRequest ==
    /\ cState = "up" /\ CReads("Request")
    /\ Head(b2c).id # current_request /\ Contains(acquired_requests, Head(b2c).id)
    /\ b2c' = Tail(b2c)
    /\ c2b' = Sent(c2b, <<Ack(Head(b2c).id)>>)
    /\ UNCHANGED <<bVars, cVars, conn, budgets, history>>

\* Mutant: the arm forgets that another request's group is still pending.
CReadsNewRequest_AnyTime ==
    /\ cState = "up" /\ CReads("Request")
    /\ ~Contains(acquired_requests, Head(b2c).id)

\* The guard of the arm that calls ca.process.
CReadsNewRequest ==
    /\ cState = "up" /\ CReads("Request")
    /\ ~Contains(acquired_requests, Head(b2c).id)
    /\ current_request = NoId

\* ca.process answers Accepted, no deliveries, or an error.  An error may come
\* before or after the replay entry is stored; a stored entry forces the error.
CProcessNoDelivery ==
    /\ CReadsNewRequest
    /\ applied' \in {applied, applied \cup {Head(b2c).payload}}
    /\ acquired_requests' = DedupInsert(acquired_requests, CaDedupDepth, Head(b2c).id)
    /\ processed' = Append(processed, Head(b2c).id)
    /\ b2c' = Tail(b2c)
    /\ c2b' = Sent(c2b, <<Ack(Head(b2c).id)>>)
    /\ UNCHANGED <<bVars, cState, current_request, pending_deliveries, conn, budgets,
                   issued, origin, routed>>

\* ca.process answers a publication with n > 0 deliveries.
CPublish(n) ==
    /\ CReadsNewRequest
    /\ Head(b2c).payload \notin applied
    /\ applied' = applied \cup {Head(b2c).payload}
    /\ IF n > Remaining(pending_deliveries, CaPendingDepth)
       THEN /\ CClose
            /\ UNCHANGED <<current_request, pending_deliveries, acquired_requests,
                           processed, origin>>
       ELSE LET group == [i \in 1..n |-> Delivery(Len(origin) + i)]
            IN  /\ pending_deliveries' = pending_deliveries \o group
                /\ acquired_requests' =
                       DedupInsert(acquired_requests, CaDedupDepth, Head(b2c).id)
                /\ current_request' = Head(b2c).id
                /\ origin' = origin \o [i \in 1..n |-> Head(b2c).id]
                /\ processed' = Append(processed, Head(b2c).id)
                /\ b2c' = Tail(b2c)
                /\ c2b' = Sent(c2b, group)
                /\ UNCHANGED <<cState, conn>>
    /\ UNCHANGED <<bVars, budgets, issued, routed>>

\* A new request while another one's group is unacknowledged: `_ => break`.
CReadsUnexpectedRequest ==
    /\ cState = "up" /\ CReads("Request")
    /\ current_request # NoId /\ Head(b2c).id # current_request
    /\ ~Contains(acquired_requests, Head(b2c).id)

CUnexpectedRequest ==
    /\ CReadsUnexpectedRequest
    /\ CClose
    /\ UNCHANGED <<bVars, current_request, pending_deliveries, acquired_requests, applied,
                   budgets, history>>

CRetry ==
    /\ cState = "up" /\ pending_deliveries # <<>>
    /\ InFlight + Len(pending_deliveries) <= InFlightCap
    /\ c2b' = Sent(c2b, pending_deliveries)
    /\ UNCHANGED <<bVars, cVars, conn, b2c, budgets, history>>

(***************************************************************************)
(* The end of a session and of a process.                                  *)
(***************************************************************************)
\* The stream ends: everything that arrived was read and the peer is gone.
BEof ==
    /\ bState # "down" /\ conn = "none" /\ c2b = <<>>
    /\ BClose
    /\ UNCHANGED <<requests, pending, acquired_deliveries, cVars, budgets, history>>

CEof ==
    /\ cState # "accept" /\ conn # "linked" /\ b2c = <<>>
    /\ CClose
    /\ UNCHANGED <<bVars, current_request, pending_deliveries, acquired_requests, applied,
                   budgets, history>>

\* A failed or timed out read or write, at any point of a session.
BLinkFailure ==
    /\ bState # "down"
    /\ faults < MaxFaults /\ faults' = faults + 1
    /\ BClose
    /\ UNCHANGED <<requests, pending, acquired_deliveries, cVars,
                   submits, bRestarts, cRestarts, history>>

CLinkFailure ==
    /\ cState # "accept"
    /\ faults < MaxFaults /\ faults' = faults + 1
    /\ CClose
    /\ UNCHANGED <<bVars, current_request, pending_deliveries, acquired_requests, applied,
                   submits, bRestarts, cRestarts, history>>

\* brokerd keeps nothing on disk.
BrokerRestart ==
    /\ bRestarts < MaxBrokerRestarts /\ bRestarts' = bRestarts + 1
    /\ BClose
    /\ requests' = <<>> /\ pending' = <<>> /\ acquired_deliveries' = <<>>
    /\ UNCHANGED <<cVars, submits, faults, cRestarts, history>>

\* Mutant: the current request is restored but its deliveries are not.
CaRestart_KeepsCurrent ==
    /\ cRestarts < MaxCaRestarts /\ cRestarts' = cRestarts + 1
    /\ cState' = "accept" /\ conn' = "none"
    /\ b2c' = <<>> /\ c2b' \in Survivors(c2b)
    /\ pending_deliveries' = <<>> /\ acquired_requests' = <<>>
    /\ UNCHANGED <<bVars, current_request, applied, submits, faults, bRestarts, history>>

\* cad keeps its store, and so the replay entries; its listener's backlog is lost.
CaRestart ==
    /\ cRestarts < MaxCaRestarts /\ cRestarts' = cRestarts + 1
    /\ cState' = "accept" /\ conn' = "none"
    /\ b2c' = <<>> /\ c2b' \in Survivors(c2b)
    /\ current_request' = NoId /\ pending_deliveries' = <<>> /\ acquired_requests' = <<>>
    /\ UNCHANGED <<bVars, applied, submits, faults, bRestarts, history>>

BStep ==
    \/ BConnect \/ BRecvChallenge \/ BRecvAuthOk
    \/ BTakeRequest \/ BRecvAck \/ BRecvDuplicateDelivery \/ BRouteDelivery \/ BEof

CStep ==
    \/ CAccept \/ CRecvAuthResponse
    \/ CRecvAck \/ CRecvCurrentRequest \/ CRecvAcquiredRequest
    \/ CProcessNoDelivery \/ (\E n \in 1..MaxGroup : CPublish(n))
    \/ CUnexpectedRequest \/ CEof

Faults ==
    \/ BRejectDelivery \/ BLinkFailure \/ CLinkFailure \/ BrokerRestart \/ CaRestart

Next ==
    \/ \E session \in Requests : AgentRequest(session)
    \/ BStep \/ BRetry
    \/ CStep \/ CRetry
    \/ Faults

Spec == Init /\ [][Next]_vars

\* Each peer's task keeps running.  Agents, the retry timers and the faults owe nothing.
FairSpec == Spec /\ WF_vars(BStep) /\ WF_vars(CStep)

-----------------------------------------------------------------------------
(***************************************************************************)
(* Properties.                                                             *)
(***************************************************************************)
\* The shape of the state; no queue or window outgrows its configured depth.
TypeOK ==
    /\ requests \in Seq(Requests) /\ bState \in BrokerStates
    /\ pending \in Seq(Frames) /\ acquired_deliveries \in Seq(Nat)
    /\ cState \in CaStates /\ current_request \in Nat
    /\ pending_deliveries \in Seq(Frames) /\ acquired_requests \in Seq(Nat)
    /\ applied \subseteq Requests \cup {NoPayload}
    /\ conn \in ConnStates /\ b2c \in Seq(Frames) /\ c2b \in Seq(Frames)
    /\ submits \in Nat /\ faults \in Nat /\ bRestarts \in Nat /\ cRestarts \in Nat
    /\ issued \in Nat /\ processed \in Seq(Nat) /\ origin \in Seq(Nat) /\ routed \in Seq(Nat)
    /\ Len(requests) <= CaQueueDepth /\ Len(pending) <= CaQueueDepth
    /\ Len(acquired_deliveries) <= BrokerDedupDepth
    /\ Len(acquired_requests) <= CaDedupDepth
    /\ Len(pending_deliveries) <= CaPendingDepth

Increasing(s) == \A i, j \in DOMAIN s : i < j => s[i] < s[j]

\* cad has a current request exactly while that request's group has unacknowledged
\* deliveries, across every disconnection and restart.  Were it otherwise, the
\* session loop would acknowledge no request (a group that never empties) or take
\* a second publication into a queue that is not empty.
CurrentIffPending == (current_request = NoId) <=> (pending_deliveries = <<>>)

\* The QueueFull arm of a publication, which would lose an already applied
\* publication, is never taken: every group fits.
GroupAlwaysFits == CReadsNewRequest => Remaining(pending_deliveries, CaPendingDepth) >= MaxGroup

\* "Requests are serialized": while brokerd has not restarted, cad never meets a
\* new request before the group of the previous one is acknowledged, so the
\* `_ => break` arm is never taken for a Request.
RequestsSerialized == bRestarts = 0 => ~CReadsUnexpectedRequest

\* A request that brokerd no longer retains has been processed by the CA.
RequestNeverLost ==
    bRestarts = 0 =>
        \A id \in 1..issued : id \in Ids(pending) \/ Contains(processed, id)

\* While cad lives, each link request is processed once, in the order in which
\* brokerd took them from its queue, whatever is retransmitted.
ProcessedOnceInOrder == cRestarts = 0 => Increasing(processed)

\* The CA keeps every delivery it generated until brokerd has routed it.
NoDeliveryLost ==
    cRestarts = 0 =>
        \A d \in DOMAIN origin : d \in Ids(pending_deliveries) \/ Contains(routed, d)

\* "the CA does not acknowledge the request until the broker has acknowledged every
\* generated delivery": once brokerd stops retaining a request, every delivery
\* generated for it has been routed.
AckCoversDeliveries ==
    (bRestarts = 0 /\ cRestarts = 0) =>
        \A d \in DOMAIN origin : origin[d] \in Ids(pending) \/ Contains(routed, d)

\* With a window as large as a group, brokerd routes each delivery once and in the
\* order in which the CA generated them, whatever is retransmitted.
RoutedOnceInOrder ==
    (bRestarts = 0 /\ BrokerDedupDepth >= MaxGroup) => Increasing(routed)

Drained == requests = <<>> /\ pending = <<>> /\ pending_deliveries = <<>>

\* "Every unacknowledged item is retained and retransmitted": once faults stop, every
\* queued request is acknowledged and every delivery routed.
EventuallyDrained == []<>Drained
=============================================================================
