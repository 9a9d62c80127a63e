# Secure-Pub-Sub in TLA+

Models of the Rust implementation under `implementations/rust`: an untrusted broker
(`brokerd`) relays opaque signed envelopes between Agents and one certificate authority
(`cad`), which authenticates, stores and matches them. The cryptographic protocol has its own
Tamarin models under `protocol/`; this project is about what those leave out: tasks, queues,
reconnections, restarts, files and failures.

Paths below are relative to `implementations/rust`.

## Inventory

| Component | State | Operations | What is hard |
|---|---|---|---|
| Link bookkeeping, `crates/infrastructure-link` | `PendingFrames` (sent, not acknowledged), `DedupWindow` (FIFO of identifiers) | insert, acknowledge, snapshot, contains | bounded window against unbounded retransmission |
| `apps/brokerd`, link task | CA request queue, at most one pending request, window of deliveries | connect, authenticate, resend, take a request, route a delivery, acknowledge, retry | lost acknowledgements, retries that cross answers, restart of either end |
| `apps/cad`, session loop | current request, pending deliveries, window of requests | accept, authenticate, resend, process, answer, retry, reload | the same, and a group of deliveries per request |
| `crates/broker-core` router, `apps/brokerd` connection tasks | connection table with generations, one channel per connection, one offline queue per Agent | register, receive, write, requeue, route | two locks, stale cleanups, full queues |
| `crates/ca-core` engine and file store | keys, environments, subscriptions, replay entries, in memory and in a snapshot file | process (four operations), reconcile, commit | failing and interrupted commits, partial publications, state older than the policy |
| `crates/ca-core` engine over `MemoryStore` | the same tables behind one lock, a replaceable policy | process from several threads, provision, replace | every store call is a critical section of its own, so calls interleave between them |
| `crates/ca-core` policy, `build_policy` of `apps/cad` | rules, allow lists, approvals, isolations, requirements | register, allow, approve, isolate, require; validate, authorize | long sequences of configuration calls that contradict each other; what Agents declare against what was approved |
| `crates/agent-core`, `crates/app-common`, `crates/transport`, `crates/embassy-transport` | keys, handlers, a fixed replay cache, a socket | build requests, receive, reconnect and resend | duplicates after a resend, a full replay cache |
| `crates/protocol-core` payloads | none | encode and parse operations, evaluate predicates | counts and lengths at their limits, operands of different types |
| `crates/usecase-models` | builders of environments and predicates | add an attribute or clause, boundary clauses | capacity, the boundary that must hold at both ends |
| `crates/protocol-core` envelope and cryptography, example Agents, Embassy sensor, key generator | none of interest | | |

How they interact: an Agent's connection task hands each request to the router, which puts it
on the CA queue; the link task sends it to `cad`; `cad` calls `process` and answers with an
acknowledgement or with a group of deliveries that it retains until each one is acknowledged;
the link task gives each delivery to the router, which puts it on the recipient's channel or
offline queue; the recipient's connection task writes it to the socket. Two processes, one TCP
connection between them, one task per Agent connection, one task for the link, and in `cad` a
single task for everything.

What makes each part correct:

- link: no request or delivery is lost while both processes live, none is processed or routed
  twice, order is kept, an acknowledged request has all its deliveries at the broker, and the
  queues drain once failures stop;
- router: what it took is written or queued; nothing is written twice; each Agent's order is kept;
  a stale cleanup is harmless (the first and the third do not hold: findings 5 and 2);
- engine and store: memory and file agree, a replay window never reopens, a one-shot answers
  once, nothing outlives the identity that stored it, a delivery obeys the policy in force, and
  a crash does not prevent a restart;
- policy and payloads: a decision depends on what the CA approved, not on what Agents declare;
  what is stored reads back the same; no accepted configuration locks an approved Agent out; what
  the builders let an Agent prepare can be sent;
- concurrent callers: a one-shot answers once per put, a session stays refused, the two sides of a
  delivery are judged by one policy, an undisturbed publication is complete;
- Agent: a delivery passes the replay check once, a resent request keeps its place, a wait asks for
  one subscription however often it reconnects, and what the broker holds for an Agent gets to it.

## Modules

| Module | Models | Extends |
|---|---|---|
| `InfraLink` | frames, `PendingFrames`, `DedupWindow` as operators | |
| `BrokerCaLink` | both link tasks, the TCP connection, restarts | `InfraLink` |
| `BrokerRouter` | router, offline store and connection tasks | |
| `BrokerDelivery` | the link composed with the router: registrations, channels and offline queues of the recipients, refusals, requeueing, and Agents that read or do not | `BrokerCaLink` |
| `CaEngine` | `process`, `PersistentStore`, `SnapshotFile`, start and reload of `cad` | |
| `ReplayProtector` | what the trait of `crates/protocol-core` promises, as an abstract specification | |
| `FixedReplayCache` | the replay array of `crates/agent-core` as operators | |
| `AgentClient` | an Agent program, its connections, `brokerd`'s connection tasks, and its part of the router | `FixedReplayCache`, instance of `ReplayProtector` |
| `Payload` | values, environments, predicates, and the codec of operations, as operators | |
| `EnvironmentPolicy` | `StaticEnvironmentPolicy`: its configuration calls and decisions, as operators | `Payload` |
| `UseCaseModels` | schemas and builders of the three domains, as operators | `EnvironmentPolicy` |
| `CaPolicy` | a request from the builders to the store, and `build_policy` | `UseCaseModels` |
| `ConcurrentCa` | several threads in `process` over `MemoryStore` and `DynamicEnvironmentPolicy` | `EnvironmentPolicy` |
| `BrokerCaLinkProofs`, `BrokerRouterProofs`, `CaEngineProofs`, `AgentClientProofs`, `EnvironmentPolicyProofs` | theorems and lemmas | the module they are about |
| `BrokerDeliveryProofs`, `CaPolicyProofs`, `ConcurrentCaProofs` | theorems, from those of the module below | the same, and `BrokerCaLinkProofs` or `EnvironmentPolicyProofs` |
| `MCBrokerCaLink`, `MCBrokerRouter`, `MCBrokerDelivery`, `MCCaEngine`, `MCAgentClient`, `MCCaPolicy`, `MCConcurrentCa` | values for TLC | |

Definitions named `X_Something` with a comment that begins "Mutant:" are plausible mistakes in
`X`; replacing `X` by one of them must break the property paired with it in `PROJECT.json`.

### BrokerCaLink

One variable per field of the two tasks, with the code's names: `requests`, `pending`,
`acquired_deliveries` in `brokerd`; `current_request`, `pending_deliveries`,
`acquired_requests` in `cad`. `bState` and `cState` say where each task is (`down`, waiting for
the challenge or for `AuthOk`, `up`; accepting, waiting for the response, `up`). `applied` is
what remains of the durable replay entries. `conn`, `b2c` and `c2b` are the connection and the
frames in flight.

One action is one arm of a `select!`, with all its sends. A send onto a dead connection is lost.
Closing an end drops what it has not read and leaves the other end any prefix of what was in
flight: this is also how a batch of sends that fails half way looks to the peer. The reader sees
the end of the stream after that prefix (`BEof`, `CEof`); a failed or timed-out operation at any
other moment is `BLinkFailure` or `CLinkFailure`. A connection that `cad` has not accepted yet
waits in the backlog, also while `cad` is still busy with the previous one. Connections that
`brokerd` abandoned in the backlog are accepted and fail at once in the code; they change no
variable and are left out.

`ca.process` is reduced to its effect on the link: an error or nothing to deliver
(`CProcessNoDelivery`), or `n` deliveries (`CPublish(n)`, `n <= MaxGroup`, the limit on
subscriptions). A request already applied can only fail. Identifiers are drawn from a counter,
because the code draws 128 random bits and relies on their being distinct. `issued`,
`processed`, `origin` and `routed` are history.

Left out: failing randomness, peers with different keys, frames of a kind neither peer sends,
the expiry of replay entries (see `CaEngine`), and the time between reconnections.

### BrokerRouter

An action is one critical section. `route_ca_delivery` for an Agent without a connection is two:
the decision under the table's lock (`RouteOffline`), and the append under the queues' lock
(`Enqueue`). `register` and `disconnect_and_requeue` hold the table while they use the offline
store and are one action each. A registration is a record with the captured queue (`pending`),
the channel, the frame being written (`hand`) and the state of its task. `Leave` ends the loop
with the frame in hand undelivered, or with nothing in hand; `Abort` is a task that dies without
cleanup. The link presents deliveries one at a time, in order, and presents a refused one again:
that is what `BrokerCaLink` shows of it (`RoutedOnceInOrder`, `NoDeliveryLost`). A frame that
was written is delivered: Agents do not acknowledge.

### BrokerDelivery

Every action of `BrokerCaLink` that routes nothing is taken over as it is, as a step of the link
task (`LinkTask`) or beside it (`Beside`); `CPublish` gets a recipient for each delivery, and
`BRouteDelivery` is split by what `route_ca_delivery` does. `RouteOnline` sends to the channel of a
connected recipient. For one that is not connected, `RouteOffline` releases the table and `Enqueue`
appends to the offline queue in a second step, between which the Agent may connect: that is the
window of finding 2, and `raced` remembers whom it hit. `Refuse` is a channel or an offline queue
without room: `run_ca_session` returns the error, the connection is dropped and `cad` sends the
delivery again on the next one, before everything it generated later.

A connected Agent has a frame in hand, a captured queue and a channel, and its task takes from them
in the order of `recv_best_effort` (`Take`, `Write`). `Disconnect` is the end of its connection at
any point: everything unsent goes in front of the offline queue, which is then cut to its depth;
`cut` remembers whose frames did not fit (finding 5). Left to `BrokerRouter` are the generations of
a registration, the limit on connections and tasks that die without cleanup: what they add is
settled there. `Readers` are the Agents that keep connecting and reading; nothing obliges the
others. A restart of `brokerd` is left to `BrokerCaLink`.

### CaEngine

`memory` and `disk` are `PersistentState` in memory and in the snapshot file. A mutation
computes the next state and then takes the steps of `SnapshotFile::commit`: create the temporary
file, write and sync, rename, publish. At each of them the operation may fail (`FileFailure`) or
the process stop (`Crash`). `process` is `Receive` (all checks up to `check_and_mark`), one `Act`
action per operation, and for a publication one action per subscription in the order of the
stored bucket, with a commit of its own for each claimed one-shot. `Start` loads the file, if it
decodes, and reconciles it; `Reload` is the timer of `cad`.

Requests come from a fixed function `Request`: the operation, its sender, handler, type,
environment and predicate. An environment is opaque, a predicate the set of environments it
holds of, a policy the pair of relations it decides; a signature verifies when its key is the
one on file. Cases the single task of `cad` cannot meet are not actions: a claim that finds its
subscription gone, and a subscriber without a key (`StoredByConfiguredAgent` shows the second).
Left out: the size limit of the file as such (an oversized commit is a `FileFailure`), loss of
power after a rename that reached no disk, an operator who lowers the limits below the stored
counts, and `provision`, which only tests call.

### Payload, EnvironmentPolicy, UseCaseModels and CaPolicy

An encoding is a sequence of numbers, one per integer field of any width and one per byte of a byte
string. Encoders and parsers are separate definitions, translated from `encode_*` and
`parse_operation`, with the errors of the code and their order. The buffer an encoder writes to is
left out: it is larger than the largest operation.

A policy is a record of total functions, where the code has maps. Each call that configures it is
a condition (`MayX`) and a result; `CaPolicy` runs `build_policy` over the four lists of a
configuration file in their order, any entries in any number up to `MaxEntries`, and ends with an
error at the first refused one. `ConfigureAttribute` is a registration and then `allow_value` for
each value, as in the code. When the policy is installed, Agents present encodings of environments,
whole, cut short, or with something after them, and the CA parses, validates and stores them.
Before the configuration starts, an Agent may prepare a request with the builders of its domain;
they share no state with the CA, so the two are not interleaved. The types of the builders
(`BoolAttribute` and so on) are the condition `Typed`: the compiler enforces it.

### ConcurrentCa

One step is one critical section: a call of a store method or of the policy. What a call of
`process` holds between them is the record `call[c]`: the request, the time it was given, the
environments it has read, the snapshot still to be visited, the deliveries built. `Visit` joins
the two predicates with the read of the subscriber's environment between them, since predicates
touch nothing shared; `Authorize` is one step because `DynamicEnvironmentPolicy` holds its lock
over all three questions. `Seal` is the look-up of the subscriber's key and the building of the
delivery, and `SealFails` the error that ends the call. An administrator provisions keys and
replaces the policy in between, and the clock may be set forward or back; a caller reads it when it
begins and uses that reading later. The store keeps decoded operations (`StoredCanonical` of
`CaPolicy` says that what was stored reads back the same). `puts`, `answers`, `guarded` and
`reached` are history, and so are `policies`, `snapshot` and `disturbed` in a call.

### AgentClient

One Agent. `role` is the program it runs: a loop around a permanent subscription
(`smart-building-agent`, `multi-tenant-agent`, the robot coordinator, which also publishes), the
responder's loop around one-shots, a publisher that opens a connection per line, or one of the two
subscription functions of `crates/agent-core`, which end at the first error (`failed`) and are
what the embedded transport is used with. `outbox` is what `send_agent_frame` has still to send,
`transport` the connection in use, `opening` the one that `connect_agent` has made while the
previous one is still open. A subscriber that never reads a line and a coordinator are the same
role.

`link[c]` is a TCP connection: the state of both ends and the frames in flight each way. As in
`BrokerCaLink`, closing leaves the peer any prefix. A write may succeed although the peer is gone,
and a write that fails may have arrived, whole; a frame cut in half is the same as one that did
not arrive, because the reader drops it. A read or write fails or times out at any moment
(`Failure`, at most `MaxFailures` on connections that are alive). The end of a stream is free
(`ReceiveEnds`, `BrokerEof`), and so is the deadline of a receive when nothing is on its way and
nothing is left to be written (`Quiet`).

At `brokerd` a connection waits for its hello, is then registered or refused, and is served;
`registered` is the router's table, for this Agent. The router is the part of `BrokerRouter` that
concerns one Agent: `held` is what its registration has (frame in hand, captured queue and
channel, which `recv_best_effort` empties in this order), `offline` its offline queue, `routing` the
delivery that the link task presents and `unlocked` the window between the look-up and the enqueue.
A task writes only from `held`; a delivery that was enqueued after the Agent registered stays in
`offline` until it registers again. A connection that ends gives `held` back and the queue is cut
to its depth.

`receive` marks the session in the replay cache before the delivery is opened and its type compared
(`Marks`). `Receive` hands it to the application; `ReceiveUnusable` is a delivery that took its
slot and then does not open, because it was sealed for an earlier key, or that a library function
drops because its type is not the one subscribed to. `ReceiveOther` is refused before the mark.

The rest of the system is reduced to what the other modules show of it. A request that `brokerd`
reads is applied by the CA once per session, in order, and may be refused. `CaDelivers` answers the
subscription that is stored, or one that an earlier run of the same Agent left behind with another
handler, key or type, and gives the delivery to the link task. `CaDrops` consumes a one-shot whose
delivery never leaves `cad` (finding 3, or a crash). Sessions, random in the code, are numbered:
requests by the order in which they are sent, deliveries by the order in which they are generated.

Left out: a restart of the Agent (its replay cache is in memory, and `SECURITY.md` says that a
restart forgets it), forged or damaged envelopes, more than one Agent, the length of backoff and
time-outs, programs that end because their input ends or is malformed, a clock that steps back.

## Runs

The cfgs disable TLC's deadlock check where behaviours end when their bounds are used up; in
`ca_concurrent` a call can always begin, and deadlock is checked.

| Run | Question | Bounds and why they are enough |
|---|---|---|
| `link_safety` | What does the link guarantee, while both processes live and after restarts? | groups of 2 (a partly acknowledged group), 3 submissions of 2 sessions (a resubmission and a successor), window of 1 at `cad` and 2 at `brokerd` (both evict), 2 failures and one restart of each process, 3 frames in flight for the retry timers; properties that a restart may break have it as a condition |
| `link_broker_restart` | Does the link drain after a restart of `brokerd`? | one restart: violated, finding 1 |
| `router_tasks` | Do connection tasks and link task interfere? | 2 Agents, 4 deliveries, 3 registrations, 1 aborted task, channel of 1, offline queue of 2, so that all queues overflow |
| `router_race` | Is each Agent's order kept? | 1 Agent, 2 deliveries: violated, finding 2 |
| `router_requeue` | Does a connection that ends give back everything unsent? | 1 Agent, 2 deliveries, one connection, both depths 1 (the defaults are equal too): violated, finding 5 |
| `ca_store` | Do failing and interrupted commits do harm, and does state outlive its authority? | a publisher and a subscriber with a one-shot and a permanent subscription; one failure, one crash and one reload, at any step; configurations that remove, re-key and restrict the subscriber; two instants with a time to live of 1, so that entries expire and a session can be presented again; replay limit below the number of sessions |
| `ca_partial_failure` | Is a consumed one-shot answered, short of a crash? | 2 one-shots, one failure: violated, finding 3 |
| `ca_stale_temporary` | Does `cad` serve again after a crash? | one crash: violated, finding 4 |
| `delivery_liveness` | What becomes of each delivery, and does everything drain, when queues refuse and connections end? | groups of 2, one request, one failure and one restart of `cad`, an Agent that reads and one that need not, channel and offline queue of 1 and one connection that ends, so that refusals happen within a group, a requeue overflows and an enqueue meets a registration (0.5 million states) |
| `ca_concurrent` | What do concurrent calls of `process` guarantee? | two callers; two publications, a one-shot, a permanent subscription and a change of environment; one policy or key replaced and the clock moved once, at any step; three policies that put publisher and subscriber in the same building or in different ones; room for one subscription and three replay entries, so that both limits are met (1 million states) |
| `policy` | Does the data path from builder to decision hold together? | 3 domains, 2 Agents, configurations of up to 6 entries out of 27 that agree and contradict each other; environments of up to 3 attributes against a limit of 2, byte strings of 2 against a limit of 1, 3 clauses, all operators |
| `agent_client` | Does an Agent that reconnects keep its order, ask once, meet no delivery twice and get what is held for it? | all roles, 2 connections so that a new one competes with the old, one failure on either side, besides ends of streams and deadlines that pass, 4 requests (two lines of a publisher), 2 deliveries against a cache and an offline queue of 1, so that a new session meets a full array, entries expire and a requeue is cut, and an enqueue meets a registration (0.75 million states) |

Symmetry is used only over sets the models never order: Agents in `router_tasks`, callers in
`ca_concurrent`. It is not used with liveness.

### Properties

Link: `CurrentIffPending` (a request is current exactly while its group is unacknowledged);
`GroupAlwaysFits` (the arm that would lose an applied publication is dead); `RequestsSerialized`
(the arm that disconnects on an unexpected request is dead while `brokerd` lives);
`RequestNeverLost`, `NoDeliveryLost` (retention); `ProcessedOnceInOrder`, `RoutedOnceInOrder`
(no repetition, no reordering; the second needs a window as large as a group, while the defaults
are 512 identifiers at `brokerd` against up to 4096 unacknowledged deliveries at `cad`);
`AckCoversDeliveries` (an answered request has all its deliveries routed); `EventuallyDrained`,
which the link does not keep when `brokerd` restarts (finding 1).

Link and recipients: `NoLossUnlessCut` (every delivery the CA generated is with the CA, held for its
recipient or written to it, however often the session ends at a full queue; only an Agent whose own
requeue overflowed can miss one, so an Agent that reads slowly costs no other Agent a delivery);
`OncePerAgentInOrder` (each Agent is written its own deliveries, once, through retransmission on the
link and requeueing in the router, and in order unless an enqueue raced with its own registration);
`DrainedUnlessBlocked` (once faults stop, everything drains, unless an Agent that does not read has
filled its queue: then it does hold up all the others, which is the condition and not a finding).
Both conditions are findings, 5 and 2; these properties say that nothing else goes wrong where the
two halves meet.

Router: `TableFollowsTasks` (the table holds the connection of every running task and nothing
else, except what an aborted task left behind, and so no slot of `max_agents` leaks in another
way); `KeptUnlessOverflow` (a requeue that overflows and the death of a task are the only ways to
lose a frame; `AcceptedKept`, without the first, is what the code's comment says and is violated,
finding 5); `NeverDuplicated`; `FifoUnlessRaced`, which isolates the only cause of finding 2.

Engine: `DurableMatchesMemory`, `ReplayWindowClosed`, `OneShotAnsweredOnce`,
`StoredByConfiguredAgent`, `DeliveriesAuthorized`.

Concurrent callers: `OneShotPerPut` (a one-shot that two publications hold and that is put again
meanwhile is answered at most as often as it was put); `ReplayUntilExpiry` (the cache refuses a
session until it was asked about a time past its expiry; a clock that is set forward does end the
protection early, and back does not restore it); `DeliveriesOfOnePolicy` (a delivery is what one
policy of the publication's time authorizes); `UndisturbedPublicationComplete` (a publication that
nobody disturbed answers exactly its matches).

Policy: `DecisionFromApprovals` (what Agents managed to store does not influence an isolation or a
requirement); `StoredCanonical` (what is stored parses, is within the limits and encodes to
itself); `ApprovedCanDeclare` (an accepted configuration locks no approved Agent out, if its
approvals fit an environment: `build_policy` does not check that they do); `DraftsSendable` (what
the builders accept is encoded and parsed back as the same request, up to every limit);
`BoundaryEnforced` (a predicate matches only environments with its boundary values, and only an
Agent that was approved for them has such an environment).

Agent: `ImplementsReplayProtector` (refinement: a session passes once, and not again within its
time to live, whatever is written again; `Until` maps the array to the end of each session's
protection, and the run has a new session at a full array);
`OneSubscriptionPerWait` (reconnecting and resending register nothing twice: the CA is asked for at
most one subscription more than the application was given deliveries, and a delivery that was
marked but could not be used gives no right to another);
`OrderUnlessContended` (the refusal of a second connection is what keeps a retry behind the
requests still unread on the old one; the order is lost only when two connections await their
registration at once); `EventuallyWritten` (for an Agent that keeps waiting, also a delivery that the
race of finding 2 stranded in the offline queue is written, because its receive times out and it
registers again).

Each specification but the composition has one `TypeOK`, which also says that no queue, window or store exceeds its limit;
in `CaEngine` that is what a later start needs to load the file (`Decodes`).

### Fairness

`BrokerCaLink!FairSpec` and `BrokerDelivery!DeliverySpec` have weak fairness of each peer's task:
a task with something to do does something. A Tokio task that is ready is polled, and neither loop waits on anything but its
`select!`. The retry timers get no fairness: on a connection that lives TCP loses nothing, and a
new connection starts by resending everything, so the timers are not needed to drain. Faults,
Agents and restarts owe nothing, except that in `BrokerDelivery` the Agents of `Readers` go on
reading: they are the ones the property is about. `CaEngine!FairSpec` is weak fairness of the
steps of the single task and of its being started again. `AgentClient!FairSpec` is weak fairness of the Agent's own
steps, of the link task, of each connection task of `brokerd`, and of the end of a read: a task
notices the end of its stream (`BrokerEof`), and a receive ends when its stream has ended or when
nothing is there to be read until its deadline (`ReceiveEnds`; every receive of the programs has
one). Failures, and deadlines that pass early (`ReceiveFails`, `SendFails`, `BrokerReadFails`,
`BrokerWriteFails`), owe nothing.

## Findings

1. *A restart of `brokerd` can block the link for ever* (`link_broker_restart`,
   `apps/cad/src/main.rs:390`). `cad` keeps the current request of the dead `brokerd`; the new
   one may take a request before it acknowledges the resent group, and then resends that request
   first in every session; `cad` disconnects on it before it reads the acknowledgements.
2. *An enqueue races a registration* (`router_race`, `crates/broker-core/src/lib.rs:368`): a
   delivery is stranded in the offline queue of a connected Agent while later ones are written.
3. *A failed publication loses consumed one-shots* (`ca_partial_failure`,
   `crates/ca-core/src/lib.rs:1027`), without the crash the README makes a condition.
4. *A leftover temporary file blocks every start* (`ca_stale_temporary`,
   `crates/ca-core/src/lib.rs:1115`).
5. *Requeueing drops acknowledged deliveries* (`router_requeue`,
   `crates/broker-core/src/lib.rs:129`): frame in hand, captured queue and channel together can
   exceed the offline depth, and `prepend` cuts what does not fit. The comment at line 289 says that
   all unsent frames are returned, and the README that a full queue fails closed rather than drop.

Two more things the models show, which no run asks about on its own. On-demand publications can
overtake each other (`apps/brokerd/src/main.rs:118`): nothing orders the tasks of two connections of
one Agent, so `RequestOrder` does not hold of `AgentClient`; `OrderUnlessContended` has this as its
condition and shows that it is the only cause. And an Agent with more approvals than an environment
has room for can never set one (`crates/ca-core/src/lib.rs:751`), the condition of
`ApprovedCanDeclare`.

What is not claimed: that the wait of a responder ends. It reconnects without subscribing again, by
design, and its subscription may have been written to a connection whose hello is then refused, or
consumed for a delivery that finding 3 or 5 loses. The models have all of these; no document promises
that such a wait is answered.

## Proofs

Eight modules hold proofs that TLAPS checks. Every safety property that a passing run checks is a
theorem there, for all values of the constants that satisfy the named assumptions of its module.
`LinkInv`, the invariants of the Agent and `ProgressInv` were first checked with TLC, as invariants
of small instances. The proofs have one lemma or step per action and, under it, one step per conjunct
that the action can disturb.

### Link: `BrokerCaLinkProofs`, `BrokerDeliveryProofs`

- `TypeCorrect`, `CurrentRequestTracksGroup` (`CurrentIffPending`), `GroupFits`
  (`GroupAlwaysFits`), `DeliveriesRetained` (`NoDeliveryLost`);
- `RequestsRetained` (`RequestNeverLost`), `Serialized` (`RequestsSerialized`), `ProcessedOnce`
  (`ProcessedOnceInOrder`), `AcknowledgedLast` (`AckCoversDeliveries`);
- `RoutedInOrder` (`RoutedOnceInOrder`);
- `NoneLostUnlessCut` (`NoLossUnlessCut`), `WrittenOnceInOrder` (`OncePerAgentInOrder`).

The assumptions are what the code ensures: `cad` does not start unless its delivery queue covers
the subscription limit (`DepthAssumption`), and ends at its first request when its window has
depth 0 (`CaDedupAssumption`). Nothing is assumed of `brokerd`'s window: where a property needs it
to cover a group, that is a condition of the property.

The argument has four layers, each with the one before.

- `LinkInv`. `NoDeliveryLost` is not inductive: an acknowledgement that `cad` reads removes a
  delivery from its pending frames, so one must know that `brokerd` routed what it acknowledges,
  although routing happened earlier, perhaps in a previous session. Every `Ack` in flight to `cad`,
  and every entry of `brokerd`'s window (from which a duplicate is acknowledged), names a routed
  delivery. `GroupAlwaysFits` follows because a new request is read only when none is current.
- `RequestInv`. A window of one identifier is enough at `cad` because `brokerd` has one request
  outstanding, the one issued last, and requests travel in order: a request in flight that is not in
  `cad`'s window is the outstanding one, no answer to it is on its way and no group is
  current (`NewIsOutstanding`), and it is newer than everything processed (`NewIsNewest`).
- `OrderInv`. A repeated delivery is recognised only while it is in `brokerd`'s window. Of two
  deliveries in flight the later one is ahead by less than a group (`DeliveriesInOrder`), the
  identifiers in the window increase (`WindowIncreases`), so what has left a window of at least a
  group is older than anything that can still arrive, and what is not in the window is new
  (`NewIsLater`).
- `EndInv`. What the router holds for an Agent, `Taken`, is the concatenation of what was written, its
  frame in hand, captured queue, channel and offline queue: the order in which a task would write
  them if the Agent registered again. `Tables` says when that is also the order in which they were
  routed: an Agent that is not connected holds only its offline queue, and a connected one that was
  not raced has none. Then appending to the channel or to the offline queue appends to `Taken`, taking,
  writing and registering leave it as it is, and requeueing leaves it or cuts its end. What was routed
  is in `Taken` of its recipient unless that was cut (`RoutedIsTaken`), nothing else is
  (`TakenIsRouted`), and with `NewIsLater` of the layer below it is there once and in order
  (`TakenOnce`, `TakenInOrder`; the first also for Agents that were raced).

### Router: `BrokerRouterProofs`

- `TypeCorrect`, `KeptOrCut` (`KeptUnlessOverflow`), `NothingTwice` (`NeverDuplicated`),
  `FifoOrRaced` (`FifoUnlessRaced`), `TableMatchesTasks` (`TableFollowsTasks`).

`Inv` adds to the properties that a frame is only where its addressee will read it (`RightPlace`),
that it is in one place (`OnePlace`), that a task that ended holds nothing and a task that runs is in
the table (`TableOK`), and for the order that an Agent in the table has an empty offline queue, until
the race of finding 2 happens (`InOrder`). `DropsByDeath` adds that a frame is only dropped after a
task has died. The lemmas before it say what capturing, requeueing and
truncating do to the elements and the order of a queue.

### Engine: `CaEngineProofs`

- `TypeCorrect`, `DurableMatches` (`DurableMatchesMemory`), `ReplayClosed` (`ReplayWindowClosed`),
  `OneShotOnce` (`OneShotAnsweredOnce`), `StoredByConfigured` (`StoredByConfiguredAgent`),
  `DeliveriesAllowed` (`DeliveriesAuthorized`);
- `LoopFindsEntries`: no look-up in the loop of a publication fails, which is why the model has no
  action for it.

`Inv` says it of three states at once: memory, file, and the one being committed (`StoresSound`).
`TaskOK` ties the step of the commit to which of them agree. `CommitProtects` carries the replay
window through a commit that has not been renamed yet; `ClaimAuthorized` carries the authorization
of an entry from the look-up through the commit of its claim; `Unanswered` says that no one-shot that
is stored, being stored or being delivered was answered before.

### Agent: `AgentClientProofs`

- `TypeCorrect`; `CacheImplementsProtector` (`ImplementsReplayProtector`, the refinement);
- `SubscribesOncePerWait` (`OneSubscriptionPerWait`);
- `OrderKept` (`OrderUnlessContended`).

For every capacity and time to live of the cache (also 0), any set of connections and any bounds.

The refinement maps the array to a function from sessions to the end of their protection. That
function is well defined, and a tick maps to `Advance`, only if no two unexpired entries have the
same session: `Unique`, which with `TypeOK` is the invariant `CacheInv`. Three lemmas say what
happens to `Unique` and to the mapping when the array is purged (`PurgingKeeps`), when a slot is
filled (`MarkingProtects`), and when time passes (`TimeEnds`); `CacheSteps` says that no other action
touches the cache.

The other two need the connections. `ClientInv` relates the two ends of each (`EndsInv`: which
connections the Agent has open, which one the router serves, and that only the first frame of a
connection that is not served is a hello) and the requests on them (`RequestsInv`: what is unsent, in
flight or applied was built by the program, and a responder builds one subscription per delivery).
Whatever an end reads or drops, what is left in flight is a part of what was there (`Part`), and
`UpSteps` says once for all actions what happens to the requests in flight.

For the order, `SentInv`: the Agent sends ascending sessions, and what is in flight or read is not
after what it has still to send. `OrderInv` then says that the connection that is served holds
nothing newer than any other; with two of them waiting for their registration it would not be
inductive, which is the condition of the property.

### Payloads and policy: `EnvironmentPolicyProofs`, `CaPolicyProofs`

- `DecidesByApprovals`: under a grounded policy, `authorize_delivery` accepts exactly when both
  environments are valid and the approvals of the two identities meet the isolation and the
  requirements. A policy is `Grounded` when only attributes that the CA issues isolate a type or are
  required of subscribers;
- `BuildsGrounded`: `build_policy` yields no other policy. Registering must agree with an earlier
  registration, so that a later entry cannot take from an attribute the authority an isolation
  relied on;
- `TypeCorrect`, `StoredIsCanonical` (`StoredCanonical`), `DecidedByApprovals`
  (`DecisionFromApprovals`), `ApprovedDeclare` (`ApprovedCanDeclare`), `Sendable` (`DraftsSendable`),
  `BoundaryHolds` (`BoundaryEnforced`).

`EnvironmentPolicyProofs` also has the codec: what `EncodeMembers` and `ReadMembers`, which are
recursive functions, compute for lists of every length. The induction theorems of the library
cannot be used for that; the lemma `UpTo` replaces them. It is about a set of naturals, and rests
on the least element of its complement. With it, the reader is shown to read back member after
member, and to fail on a list that is cut short, has an identifier twice or a value too long.

`Inv` of `CaPolicyProofs` is `DraftInv` (a list of the builders is one the parser accepts, and a
predicate starts with its boundary), `ConfigInv` (an approved value is admitted by the rule and the
allow list of its attribute: `build_policy` reads every attribute before the first approval),
`PolicyInv` (`Grounded`) and `StoredInv` (what is stored is the encoding of one valid environment of
its Agent). The assumptions say what the types of the Rust code say: attributes are numbers, values
have their kind, the entries of a configuration name known Agents and types, and a predicate has
room for the two clauses of a boundary (`EntryAssumption`, `DataAssumption`, `LimitAssumption`).

### Concurrent callers: `ConcurrentCaProofs`

- `OneShots` (`OneShotPerPut`), `Replays` (`ReplayUntilExpiry`), `OnePolicy`
  (`DeliveriesOfOnePolicy`), `TypeCorrect`, `UndisturbedComplete` (`UndisturbedPublicationComplete`).

For any number of callers, any requests, limits, policies and clock readings. The first two are
nearly inductive: they need that a call which puts or claims does so with an entry of the store
(`LeastExists`: the loop finds the entry it visits next), and that purging at the time of one caller
keeps what no caller's time has reached (`UnexpiredKept`). The third is not: the authorization
happens two steps before the delivery is recorded, and the policy may be replaced in between.
`CallOK` carries it over: while a call is at `seal` or `claim`, some policy it has met justifies the
delivery to the entry it visits, and a replacement only adds to the policies it has met
(`MeetsPolicy`). `TypeCorrect` needs that the tables are finite (`LimitsInv`), since Agents and
sessions need not be; the initial store is assumed to be within the limits. For the last one,
`ProgressInv` says of a call that nothing has disturbed: it has answered exactly what is due of the
entries it has visited, those it has still to visit are stored (so a claim is never missed), and what
it has read and decided about the entry in hand still holds.

### Only model-checked

The two liveness properties, `DrainedUnlessBlocked` and `EventuallyWritten`: liveness under fairness,
and anything about `ENABLED`, is beyond the prover. The five properties of the findings are violated.

## Plan

1. Done: link, router, engine and Agent; the composition of the link with its recipients; payloads,
   policy and use-case models; concurrent callers over the in-memory store; their runs; the proofs of
   all their safety properties.
2. Left: a refinement of the link by an abstract specification of exactly-once delivery while both
   processes live, which would state `RequestNeverLost`, `ProcessedOnceInOrder` and
   `RoutedOnceInOrder` in one formula.

## Not modelled

- Cryptography and the byte layout of envelopes and frames: a signature verifies when it was made
  with the key on file. The cryptographic protocol has its own Tamarin models.
- The Embassy sensor sends a fixed sequence of frames and returns the first error; the key generator
  writes its files once. Neither keeps state.
- `unregister` of the router and `provision` of the file store, which only tests call; loss of
  power after a rename that reached no disk; the assembly of frames from partial reads.
- Backoff and the length of time-outs, which are reduced to "may happen".
- `ca_dedup_depth` 0 at `brokerd`: the branch is in `BRouteDelivery` and covered by the theorems, but
  no run uses it, since every group is then routed again for ever.
