------------------------------ MODULE CaEngine ------------------------------
(***************************************************************************)
(* The CA of apps/cad: CertificateAuthority::process of crates/ca-core     *)
(* over the file-backed PersistentStore, with the reload of configuration, *)
(* failing file operations, crashes and restarts.                          *)
(*                                                                         *)
(* cad runs process and reload in one task, so they never interleave with  *)
(* each other; but every mutation rewrites the snapshot file, and the      *)
(* process may stop, or the file operation fail, at each step of that.     *)
(*                                                                         *)
(* Cryptography, encoding and attribute matching are reduced to their      *)
(* outcome: a signature verifies when it was made with the key on file, an *)
(* environment is an opaque value, a predicate is the set of environments  *)
(* it holds of, a policy is the relation it decides.                       *)
(***************************************************************************)
EXTENDS Naturals, FiniteSets

CONSTANTS
    Agents,             \* Agent identities, ordered as numbers
    Keys, NoKey,        \* public keys; NoKey for an Agent that is not configured
    Environments, NoEnvironment,
    Sessions,           \* authenticated sessions, each standing for one signed request
    NoSession,
    Request,            \* session -> the request it carries
    Configurations,     \* the configurations an operator may put in place
    AgentLimit, EnvironmentLimit, SubscriptionLimit, ReplayLimit, ReplayTtl,
    MaxTime,            \* bound: seconds that pass
    MaxFailures,        \* bound: failing file or cryptographic operations
    MaxCrashes,         \* bound: crashes
    MaxReloads          \* bound: changes of configuration

NoHandler == 0
Operations == {"SetEnvironment", "Subscribe", "SubscribePermanent", "Publish", "Malformed"}
Requests ==
    [sender : Agents, key : Keys, operation : Operations, handler : Nat, type : Nat,
     environment : Environments, predicate : SUBSET Environments]
Policies ==
    [valid : SUBSET (Agents \X Environments), delivers : SUBSET (Environments \X Environments)]

ASSUME AgentAssumption == Agents \subseteq Nat
ASSUME AbsentAssumption ==
    NoKey \notin Keys /\ NoEnvironment \notin Environments /\ NoSession \notin Sessions
ASSUME RequestAssumption == Request \in [Sessions -> Requests]
ASSUME ConfigurationAssumption ==
    /\ Configurations \subseteq [keys : [Agents -> Keys \cup {NoKey}], policy : Policies]
    /\ Configurations # {}
ASSUME LimitAssumption ==
    /\ AgentLimit \in Nat /\ EnvironmentLimit \in Nat /\ SubscriptionLimit \in Nat
    /\ ReplayLimit \in Nat /\ ReplayTtl \in Nat
    /\ MaxTime \in Nat /\ MaxFailures \in Nat /\ MaxCrashes \in Nat /\ MaxReloads \in Nat

VARIABLES
    pc,            \* what the task of cad is doing
    request,       \* the session being processed
    todo,          \* the subscriptions the publication has still to visit
    deliveries,    \* the subscriptions it answered so far
    memory,        \* PersistentStore.state
    disk,          \* the snapshot file
    temporary,     \* whether the temporary file of a snapshot exists
    next, step,    \* the state being committed and the next step of the commit
    policy,        \* the DynamicEnvironmentPolicy
    configuration, \* the configuration file
    now, failures, crashes, reloads,
    \* history: session -> when its replay protection ends; and, since a session was
    \* last let through, whether its one-shot was consumed and the answers
    \* <<subscription session, publication session>> handed to the link
    guarded, consumed, answered

file     == <<disk, temporary, next, step>>
budgets  == <<now, failures, crashes, reloads>>
history  == <<guarded, consumed, answered>>
vars     == <<pc, request, todo, deliveries, memory, file, policy, configuration, budgets, history>>

EmptyState ==
    [keys          |-> [a \in Agents |-> NoKey],
     environments  |-> [a \in Agents |-> NoEnvironment],
     subscriptions |-> {},
     replay        |-> [s \in Sessions |-> 0]]

Init ==
    /\ pc = "down" /\ request = NoSession /\ todo = {} /\ deliveries = {}
    /\ memory = EmptyState /\ disk = EmptyState /\ temporary = FALSE
    /\ next = EmptyState /\ step = "none"
    /\ configuration \in Configurations /\ policy = configuration.policy
    /\ now = 1 /\ failures = 0 /\ crashes = 0 /\ reloads = 0
    /\ guarded = [s \in Sessions |-> 0] /\ consumed = {} /\ answered = {}

(***************************************************************************)
(* The store.                                                              *)
(***************************************************************************)
\* check_and_mark: expired entries are dropped before anything else.
Unexpired(replay) == [s \in Sessions |-> IF replay[s] > now THEN replay[s] ELSE 0]

Marked(state, s) ==
    [state EXCEPT !.replay = [Unexpired(@) EXCEPT ![s] = now + ReplayTtl]]

\* Mutant: a full replay cache is not refused.
MayMark_Uncapped(state, s) == Unexpired(state.replay)[s] = 0

MayMark(state, s) ==
    LET live == Unexpired(state.replay)
    IN  live[s] = 0 /\ Cardinality({t \in Sessions : live[t] > 0}) < ReplayLimit

Subscription(s) ==
    [subscriber |-> Request[s].sender, handler |-> Request[s].handler, type |-> Request[s].type,
     kind |-> Request[s].operation, predicate |-> Request[s].predicate, by |-> s]

SameSlot(x, y) == x.subscriber = y.subscriber /\ x.handler = y.handler /\ x.type = y.type

\* put_subscription: an entry with the same subscriber, handler and type is replaced.
Subscribed(state, s) ==
    [state EXCEPT !.subscriptions =
        {x \in @ : ~SameSlot(x, Subscription(s))} \cup {Subscription(s)}]

MaySubscribe(state, s) ==
    \/ \E x \in state.subscriptions : SameSlot(x, Subscription(s))
    \/ Cardinality(state.subscriptions) < SubscriptionLimit

EnvironmentSet(state, s) ==
    [state EXCEPT !.environments[Request[s].sender] = Request[s].environment]

MaySetEnvironment(state, s) ==
    \/ state.environments[Request[s].sender] # NoEnvironment
    \/ Cardinality({a \in Agents : state.environments[a] # NoEnvironment}) < EnvironmentLimit

Claimed(state, x) == [state EXCEPT !.subscriptions = @ \ {x}]

\* Mutant: subscriptions outlive the identity that made them.
Reconciled_KeepsSubscriptions(state, keys) ==
    LET unchanged == {a \in Agents : state.keys[a] # NoKey /\ state.keys[a] = keys[a]}
    IN  [state EXCEPT
            !.keys = keys,
            !.environments = [a \in Agents |-> IF a \in unchanged THEN @[a] ELSE NoEnvironment],
            !.replay = [s \in Sessions |-> IF Request[s].sender \in unchanged THEN @[s] ELSE 0]]

\* Mutant: reconciling, and so every start, forgets the replay entries.
Reconciled_ForgetsReplay(state, keys) ==
    LET unchanged == {a \in Agents : state.keys[a] # NoKey /\ state.keys[a] = keys[a]}
    IN  [keys          |-> keys,
         environments  |-> [a \in Agents |->
                               IF a \in unchanged THEN state.environments[a] ELSE NoEnvironment],
         subscriptions |-> {x \in state.subscriptions : x.subscriber \in unchanged},
         replay        |-> [s \in Sessions |-> 0]]

\* reconcile_agents: what an identity stored survives only with its key.
Reconciled(state, keys) ==
    LET unchanged == {a \in Agents : state.keys[a] # NoKey /\ state.keys[a] = keys[a]}
    IN  [keys          |-> keys,
         environments  |-> [a \in Agents |->
                               IF a \in unchanged THEN state.environments[a] ELSE NoEnvironment],
         subscriptions |-> {x \in state.subscriptions : x.subscriber \in unchanged},
         replay        |-> [s \in Sessions |->
                               IF Request[s].sender \in unchanged THEN state.replay[s] ELSE 0]]

FitsLimits(keys) == Cardinality({a \in Agents : keys[a] # NoKey}) <= AgentLimit

\* decode_state accepts only a snapshot within the limits, which then gives back the
\* encoded state: a subscription's kind is read from its operation.
Decodes(state) ==
    /\ FitsLimits(state.keys)
    /\ Cardinality({a \in Agents : state.environments[a] # NoEnvironment}) <= EnvironmentLimit
    /\ Cardinality(state.subscriptions) <= SubscriptionLimit
    /\ Cardinality({s \in Sessions : state.replay[s] > 0}) <= ReplayLimit

(***************************************************************************)
(* PersistentStore::commit over SnapshotFile::commit: create the temporary *)
(* file, write and sync it, rename it over the snapshot, publish the new   *)
(* state in memory.                                                        *)
(***************************************************************************)
\* Starts committing `state` on behalf of what the task then does.
Commit(state, doing) ==
    /\ pc' = doing /\ next' = state /\ step' = "open"
    /\ UNCHANGED <<disk, temporary>>

\* Mutant: the new state was already visible when the file operation failed.
CommitFailed_Visible ==
    /\ step' = "none" /\ next' = EmptyState
    /\ pc' = IF pc = "starting" THEN "down" ELSE "idle"
    /\ memory' = IF pc = "starting" THEN EmptyState ELSE next
    /\ request' = NoSession /\ todo' = {} /\ deliveries' = {}
    /\ UNCHANGED <<disk, temporary, policy, configuration, now, crashes, reloads, history>>

\* The operation that fails ends with an error: process drops its deliveries,
\* a reload keeps the old policy, and a start ends the process.
CommitFailed ==
    /\ step' = "none" /\ next' = EmptyState
    /\ pc' = IF pc = "starting" THEN "down" ELSE "idle"
    /\ memory' = IF pc = "starting" THEN EmptyState ELSE memory
    /\ request' = NoSession /\ todo' = {} /\ deliveries' = {}
    /\ UNCHANGED <<disk, temporary, policy, configuration, now, crashes, reloads, history>>

\* create_new refuses an existing temporary file.
OpenTemporary ==
    /\ step = "open"
    /\ IF temporary
       THEN CommitFailed /\ UNCHANGED failures
       ELSE /\ temporary' = TRUE /\ step' = "write"
            /\ UNCHANGED <<pc, request, todo, deliveries, memory, disk, next, policy,
                           configuration, budgets, history>>

\* write_all and sync_all.
WriteTemporary ==
    /\ step = "write" /\ step' = "rename"
    /\ UNCHANGED <<pc, request, todo, deliveries, memory, disk, temporary, next, policy,
                   configuration, budgets, history>>

\* The rename decides the commit.  A changed key ends the protection of its sessions.
RenameTemporary ==
    /\ step = "rename" /\ step' = "publish"
    /\ disk' = next /\ temporary' = FALSE
    /\ guarded' = [s \in Sessions |->
                      IF disk.keys[Request[s].sender] = next.keys[Request[s].sender]
                      THEN guarded[s] ELSE 0]
    /\ consumed' = consumed \cup {x.by : x \in IF pc = "claiming"
                                               THEN disk.subscriptions \ next.subscriptions
                                               ELSE {}}
    /\ UNCHANGED <<pc, request, todo, deliveries, memory, next, policy, configuration,
                   budgets, answered>>

\* A create, write, sync or rename that fails leaves the temporary file as it is.
FileFailure ==
    /\ step \in {"open", "write", "rename"}
    /\ failures < MaxFailures /\ failures' = failures + 1
    /\ CommitFailed

\* The commit is published in memory and the operation goes on.
Published(doing) ==
    /\ step = "publish" /\ pc = doing
    /\ memory' = next /\ next' = EmptyState /\ step' = "none"
    /\ UNCHANGED <<disk, temporary, configuration, budgets>>

(***************************************************************************)
(* process.                                                                *)
(***************************************************************************)
\* validate_environment and allows_delivery of the policy in force.
Valid(a, environment) == <<a, environment>> \in policy.valid
AllowsDelivery(publisher, subscriber) == <<publisher, subscriber>> \in policy.delivers

\* Up to check_and_mark.  A request that fails before it (no key, a signature by
\* another key, a replay, a full replay cache) changes nothing.
Receive(s) ==
    /\ pc = "idle"
    /\ memory.keys[Request[s].sender] = Request[s].key
    /\ MayMark(memory, s)
    /\ request' = s
    /\ Commit(Marked(memory, s), "marking")
    /\ UNCHANGED <<todo, deliveries, memory, policy, configuration, budgets, history>>

MarkPublished ==
    /\ Published("marking")
    /\ pc' = "acting"
    /\ guarded' = [guarded EXCEPT ![request] = next.replay[request]]
    /\ consumed' = consumed \ {request} /\ answered' = {p \in answered : p[1] # request}
    /\ UNCHANGED <<request, todo, deliveries, policy>>

StoredEnvironment(a) == memory.environments[a]

\* validate_stored_environment, and the same test on a publisher.
HasValidEnvironment(a) ==
    StoredEnvironment(a) # NoEnvironment /\ Valid(a, StoredEnvironment(a))

ActSetEnvironment ==
    LET r == Request[request] IN
    /\ pc = "acting" /\ r.operation = "SetEnvironment" /\ r.handler = NoHandler
    /\ Valid(r.sender, r.environment) /\ MaySetEnvironment(memory, request)
    /\ Commit(EnvironmentSet(memory, request), "storing")
    /\ UNCHANGED <<request, todo, deliveries, memory, policy, configuration, budgets, history>>

ActSubscribe ==
    LET r == Request[request] IN
    /\ pc = "acting" /\ r.operation \in {"Subscribe", "SubscribePermanent"}
    /\ r.handler # NoHandler
    /\ HasValidEnvironment(r.sender) /\ MaySubscribe(memory, request)
    /\ Commit(Subscribed(memory, request), "storing")
    /\ UNCHANGED <<request, todo, deliveries, memory, policy, configuration, budgets, history>>

StorePublished ==
    /\ Published("storing")
    /\ pc' = "idle" /\ request' = NoSession
    /\ UNCHANGED <<todo, deliveries, policy, history>>

\* subscriptions_for is read once, before the loop.
ActPublish ==
    LET r == Request[request] IN
    /\ pc = "acting" /\ r.operation = "Publish" /\ r.handler = NoHandler
    /\ HasValidEnvironment(r.sender)
    /\ pc' = "publishing" /\ todo' = {x \in memory.subscriptions : x.type = r.type}
    /\ UNCHANGED <<request, deliveries, memory, file, policy, configuration, budgets, history>>

\* An error after check_and_mark, when nothing was stored: the arms above do not apply.
ActRejected ==
    LET r == Request[request] IN
    /\ pc = "acting"
    /\ CASE r.operation = "SetEnvironment" ->
              \/ r.handler # NoHandler \/ ~Valid(r.sender, r.environment)
              \/ ~MaySetEnvironment(memory, request)
         [] r.operation \in {"Subscribe", "SubscribePermanent"} ->
              \/ r.handler = NoHandler \/ ~HasValidEnvironment(r.sender)
              \/ ~MaySubscribe(memory, request)
         [] r.operation = "Publish" -> r.handler # NoHandler \/ ~HasValidEnvironment(r.sender)
         [] OTHER -> TRUE
    /\ pc' = "idle" /\ request' = NoSession
    /\ UNCHANGED <<todo, deliveries, memory, file, policy, configuration, budgets, history>>

\* The bucket is sorted by (subscriber, handler).
First(x) ==
    /\ pc = "publishing" /\ x \in todo
    /\ \A y \in todo : \/ x.subscriber < y.subscriber
                       \/ x.subscriber = y.subscriber /\ x.handler <= y.handler

\* Mutant: the subscriber's stored environment is not validated again.
Matches_Stale(x) ==
    LET r == Request[request]
        publisher == StoredEnvironment(r.sender)
        subscriber == StoredEnvironment(x.subscriber)
    IN  /\ publisher \in x.predicate
        /\ subscriber # NoEnvironment /\ subscriber \in r.predicate
        /\ Valid(r.sender, publisher)
        /\ AllowsDelivery(publisher, subscriber)

\* Both predicates, both environments and the delivery rules.
Matches(x) ==
    LET r == Request[request]
        publisher == StoredEnvironment(r.sender)
        subscriber == StoredEnvironment(x.subscriber)
    IN  /\ publisher \in x.predicate
        /\ subscriber # NoEnvironment /\ subscriber \in r.predicate
        /\ Valid(r.sender, publisher) /\ Valid(x.subscriber, subscriber)
        /\ AllowsDelivery(publisher, subscriber)

PublishSkip(x) ==
    /\ First(x) /\ ~Matches(x)
    /\ todo' = todo \ {x}
    /\ UNCHANGED <<pc, request, deliveries, memory, file, policy, configuration, budgets, history>>

\* The key and the subscription of a match are there: no other task removes them
\* during the loop (StoredByConfiguredAgent).
PublishPermanent(x) ==
    /\ First(x) /\ Matches(x) /\ x.kind = "SubscribePermanent"
    /\ memory.keys[x.subscriber] # NoKey /\ x \in memory.subscriptions
    /\ todo' = todo \ {x} /\ deliveries' = deliveries \cup {x}
    /\ UNCHANGED <<pc, request, memory, file, policy, configuration, budgets, history>>

\* Mutant: a one-shot is answered without being claimed.
PublishOneShot_Unclaimed(x) ==
    /\ First(x) /\ Matches(x) /\ x.kind = "Subscribe"
    /\ memory.keys[x.subscriber] # NoKey /\ x \in memory.subscriptions
    /\ todo' = todo \ {x} /\ deliveries' = deliveries \cup {x}
    /\ UNCHANGED <<pc, request, memory, file, policy, configuration, budgets, history>>

\* The delivery is built, then the one-shot is claimed.
PublishOneShot(x) ==
    /\ First(x) /\ Matches(x) /\ x.kind = "Subscribe"
    /\ memory.keys[x.subscriber] # NoKey /\ x \in memory.subscriptions
    /\ Commit(Claimed(memory, x), "claiming")
    /\ UNCHANGED <<request, todo, deliveries, memory, policy, configuration, budgets, history>>

ClaimPublished ==
    /\ Published("claiming")
    /\ pc' = "publishing"
    /\ LET claimed == memory.subscriptions \ next.subscriptions
       IN  todo' = todo \ claimed /\ deliveries' = deliveries \cup claimed
    /\ UNCHANGED <<request, policy, history>>

\* Building a delivery fails: `?` leaves process and drops the deliveries built before.
DeliveryFailure(x) ==
    /\ First(x) /\ Matches(x)
    /\ failures < MaxFailures /\ failures' = failures + 1
    /\ pc' = "idle" /\ request' = NoSession /\ todo' = {} /\ deliveries' = {}
    /\ UNCHANGED <<memory, file, policy, configuration, now, crashes, reloads, history>>

PublishDone ==
    /\ pc = "publishing" /\ todo = {}
    /\ answered' = answered \cup {<<x.by, request>> : x \in deliveries}
    /\ pc' = "idle" /\ request' = NoSession /\ deliveries' = {}
    /\ UNCHANGED <<todo, memory, file, policy, configuration, budgets, guarded, consumed>>

(***************************************************************************)
(* Start, reload, crash, and the passing of time.                          *)
(***************************************************************************)
\* main: open the store, then reconcile it with the configured Agents.  A snapshot
\* that does not decode, or too many Agents, ends the process.
Start ==
    /\ pc = "down" /\ Decodes(disk) /\ FitsLimits(configuration.keys)
    /\ memory' = disk /\ policy' = configuration.policy
    /\ Commit(Reconciled(disk, configuration.keys), "starting")
    /\ UNCHANGED <<request, todo, deliveries, configuration, budgets, history>>

StartPublished ==
    /\ Published("starting")
    /\ pc' = "idle"
    /\ UNCHANGED <<request, todo, deliveries, policy, history>>

\* The operator changes the configuration file, which the reload timer, or the next
\* start, then reads.
Configure(candidate) ==
    /\ reloads < MaxReloads /\ reloads' = reloads + 1
    /\ pc \in {"idle", "down"} /\ candidate # configuration
    /\ configuration' = candidate
    /\ UNCHANGED <<pc, request, todo, deliveries, memory, file, policy,
                   now, failures, crashes, history>>

\* The reload tick: it rewrites the snapshot even when nothing changed.
Reload ==
    /\ pc = "idle" /\ FitsLimits(configuration.keys)
    /\ Commit(Reconciled(memory, configuration.keys), "reloading")
    /\ UNCHANGED <<request, todo, deliveries, memory, policy, configuration, budgets, history>>

\* The policy is replaced only after the Agents were reconciled.
ReloadPublished ==
    /\ Published("reloading")
    /\ pc' = "idle" /\ policy' = configuration.policy
    /\ UNCHANGED <<request, todo, deliveries, history>>

Crash ==
    /\ pc # "down" /\ crashes < MaxCrashes /\ crashes' = crashes + 1
    /\ pc' = "down" /\ step' = "none" /\ next' = EmptyState /\ memory' = EmptyState
    /\ request' = NoSession /\ todo' = {} /\ deliveries' = {}
    /\ UNCHANGED <<disk, temporary, policy, configuration, now, failures, reloads, history>>

Tick ==
    /\ now < MaxTime /\ now' = now + 1
    /\ UNCHANGED <<pc, request, todo, deliveries, memory, file, policy, configuration,
                   failures, crashes, reloads, history>>

CommitStep == OpenTemporary \/ WriteTemporary \/ RenameTemporary

ProcessStep ==
    \/ MarkPublished \/ ActSetEnvironment \/ ActSubscribe \/ StorePublished
    \/ ActPublish \/ ActRejected
    \/ \E x \in todo : PublishSkip(x) \/ PublishPermanent(x) \/ PublishOneShot(x)
    \/ ClaimPublished \/ PublishDone

Next ==
    \/ CommitStep \/ FileFailure
    \/ \E s \in Sessions : Receive(s)
    \/ ProcessStep \/ \E x \in todo : DeliveryFailure(x)
    \/ Start \/ StartPublished \/ Reload \/ ReloadPublished
    \/ \E candidate \in Configurations : Configure(candidate)
    \/ Crash \/ Tick

Spec == Init /\ [][Next]_vars

\* The task of cad keeps running, and its supervisor restarts it.
FairSpec == Spec /\ WF_vars(CommitStep \/ ProcessStep \/ Start \/ StartPublished \/ ReloadPublished)

-----------------------------------------------------------------------------
(***************************************************************************)
(* Properties.                                                             *)
(***************************************************************************)
Subscriptions ==
    [subscriber : Agents, handler : Nat, type : Nat, kind : {"Subscribe", "SubscribePermanent"},
     predicate : SUBSET Environments, by : Sessions]

Activities == {"down", "starting", "idle", "marking", "acting", "storing", "publishing",
               "claiming", "reloading"}

HasType(state) ==
    /\ DOMAIN state = {"keys", "environments", "subscriptions", "replay"}
    /\ state.keys \in [Agents -> Keys \cup {NoKey}]
    /\ state.environments \in [Agents -> Environments \cup {NoEnvironment}]
    /\ \A x \in state.subscriptions : x \in Subscriptions
    /\ state.replay \in [Sessions -> Nat]

\* The shape of the state; the store never outgrows its limits, on disk or in memory.
TypeOK ==
    /\ pc \in Activities /\ request \in Sessions \cup {NoSession}
    /\ \A x \in todo \cup deliveries : x \in Subscriptions
    /\ HasType(memory) /\ HasType(disk) /\ HasType(next)
    /\ temporary \in BOOLEAN /\ step \in {"none", "open", "write", "rename", "publish"}
    /\ configuration \in Configurations /\ policy \in {c.policy : c \in Configurations}
    /\ now \in Nat /\ failures \in Nat /\ crashes \in Nat /\ reloads \in Nat
    /\ guarded \in [Sessions -> Nat] /\ consumed \subseteq Sessions
    /\ answered \subseteq Sessions \X Sessions
    /\ Decodes(memory) /\ Decodes(disk)

\* What cad serves from is what a crash would bring back, except between the rename
\* and the end of a commit.
DurableMatchesMemory == (pc # "down" /\ step # "publish") => memory = disk

\* "persistent state includes replay entries so a clean restart does not reopen the
\* replay window": a session that was let through stays in the snapshot until its
\* time to live is over, through failed commits, reloads, crashes and restarts, as
\* long as its sender keeps its key.
ReplayWindowClosed == \A s \in Sessions : guarded[s] > now => disk.replay[s] >= guarded[s]

\* A one-shot subscription answers at most one publication, whatever fails.
OneShotAnsweredOnce ==
    \A s \in Sessions :
        Request[s].operation = "Subscribe" =>
            /\ \A p, q \in Sessions : <<s, p>> \in answered /\ <<s, q>> \in answered => p = q
            /\ \A x \in disk.subscriptions : x.by = s =>
                   \A p \in Sessions : <<s, p>> \notin answered

\* Everything stored belongs to an Agent that is configured, on disk as in memory:
\* a publication never meets a subscriber without a key.
StoredByConfiguredAgent ==
    \A state \in {memory, disk} : \A a \in Agents :
        state.keys[a] = NoKey =>
            /\ state.environments[a] = NoEnvironment
            /\ \A x \in state.subscriptions : x.subscriber # a
            /\ \A s \in Sessions : Request[s].sender = a => state.replay[s] = 0

\* The deliveries of a publication go to Agents that hold a key and an environment
\* valid under the policy in force, although both were stored under an earlier one.
DeliveriesAuthorized ==
    \A x \in deliveries :
        memory.keys[x.subscriber] # NoKey /\ HasValidEnvironment(x.subscriber)

\* README.md: only "a CA process crash between consuming a one-shot and the broker ACK"
\* loses an answer: without a crash, a consumed one-shot answers its publication.
ConsumedIsAnswered ==
    crashes = 0 =>
        \A s \in consumed : \/ \E p \in Sessions : <<s, p>> \in answered
                            \/ \E x \in deliveries : x.by = s
                            \/ pc = "claiming"

\* "it is crash-consistent" (SECURITY.md): after the last crash cad serves again.
ServesAgain == []<>(pc = "idle")
=============================================================================
