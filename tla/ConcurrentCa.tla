---------------------------- MODULE ConcurrentCa ----------------------------
(***************************************************************************)
(* CertificateAuthority::process of crates/ca-core, called by several      *)
(* threads at once over one MemoryStore and one DynamicEnvironmentPolicy.  *)
(*                                                                         *)
(* Every method of the store takes one lock for the length of the call,    *)
(* and so does every question to the policy: each of them is one step      *)
(* here, and the threads interleave between them.  An administrator        *)
(* provisions keys and replaces the policy in between, and the time a      *)
(* caller passes to process may be older than what others passed before.   *)
(*                                                                         *)
(* The store holds encoded operations.  They are kept decoded here: what   *)
(* parse_operation accepted once it reads back the same (StoredCanonical   *)
(* of CaPolicy).  A signature verifies when it was made with the key on    *)
(* file.                                                                   *)
(***************************************************************************)
EXTENDS EnvironmentPolicy, FiniteSets

CONSTANTS
    Callers,             \* threads that call process
    Keys, NoKey,         \* public keys; NoKey for an Agent that is not provisioned
    Sessions, NoSession, \* authenticated sessions, each standing for one signed request
    Request,             \* session -> the request it carries
    Policies,            \* the policies an administrator may put in force
    InitialPolicy, InitialKeys, InitialEnvironments,
    AgentLimit, EnvironmentLimit, SubscriptionLimit, ReplayLimit, ReplayTtl,
    Times,               \* bound: readings of the wall clock
    MaxClockChanges,     \* bound: changes of the wall clock, in either direction
    MaxReplacements      \* bound: replacements of the policy or of a key

NoHandler     == 0
NoEnvironment == <<Attribute(0, NoValue)>>  \* no environment has such an attribute
Subscribes    == {"Subscribe", "SubscribePermanent"}
Operations    == Subscribes \cup {"SetEnvironment", "Publish", "Malformed"}

ASSUME AgentAssumption == Agents \subseteq Nat
ASSUME RequestAssumption ==
    /\ NoSession \notin Sessions /\ NoKey \notin Keys
    /\ \A s \in Sessions :
           /\ Request[s].sender \in Agents /\ Request[s].key \in Keys
           /\ Request[s].operation \in Operations
           /\ Request[s].handler \in Nat /\ Request[s].type \in Types
           /\ Request[s].operation = "SetEnvironment" =>
                  IsSequence(Request[s].environment) /\ Request[s].environment # NoEnvironment
\* The store was filled by earlier calls, which check the limits.
ASSUME InitialAssumption ==
    /\ InitialKeys \in [Agents -> Keys \cup {NoKey}]
    /\ InitialEnvironments = [a \in Agents |-> InitialEnvironments[a]]
    /\ \A a \in Agents : IsSequence(InitialEnvironments[a])
    /\ IsFiniteSet({a \in Agents : InitialKeys[a] # NoKey})
    /\ Cardinality({a \in Agents : InitialKeys[a] # NoKey}) <= AgentLimit
    /\ IsFiniteSet({a \in Agents : InitialEnvironments[a] # NoEnvironment})
    /\ Cardinality({a \in Agents : InitialEnvironments[a] # NoEnvironment}) <= EnvironmentLimit
\* build_policy yields no other.
ASSUME PolicyAssumption == InitialPolicy \in Policies /\ \A p \in Policies : Grounded(p)
ASSUME LimitAssumption ==
    /\ AgentLimit \in Nat /\ EnvironmentLimit \in Nat /\ SubscriptionLimit \in Nat
    /\ ReplayLimit \in Nat /\ ReplayTtl \in Nat
    /\ Times \subseteq Nat /\ 1 \in Times
    /\ MaxClockChanges \in Nat /\ MaxReplacements \in Nat

\* StoredSubscription: nothing in it tells two equal requests apart.
Entry(s) ==
    [subscriber |-> Request[s].sender, handler |-> Request[s].handler, type |-> Request[s].type,
     kind |-> Request[s].operation, clauses |-> Request[s].clauses]

Entries == {Entry(s) : s \in {t \in Sessions : Request[t].operation \in Subscribes}}

VARIABLES
    keys, environments, subscriptions, replay,  \* MemoryStore
    policy,                                     \* DynamicEnvironmentPolicy
    clock, clockChanges, replacements,
    call,      \* caller -> its call of process
    \* history: how often an entry was put and answered, session -> when its replay
    \* protection ends, and the latest time the replay cache was asked about
    puts, answers, guarded, reached

store   == <<keys, environments, subscriptions, replay>>
budgets == <<clock, clockChanges, replacements>>
history == <<puts, answers, guarded, reached>>
vars    == <<store, policy, budgets, call, history>>

\* What a call of process holds: the request, the time it was given, the environments it
\* read, the subscriptions it has still to visit and those it has answered.  For the
\* properties it also knows what a publication met: the policies in force since it
\* began, its snapshot, and whether the state it depends on has changed since.
NoCall ==
    [at |-> "idle", session |-> NoSession, now |-> 0,
     own |-> NoEnvironment, other |-> NoEnvironment, todo |-> {}, deliveries |-> {},
     policies |-> {}, snapshot |-> {}, disturbed |-> FALSE]

Init ==
    /\ keys = InitialKeys /\ environments = InitialEnvironments
    /\ subscriptions = {} /\ replay = [s \in Sessions |-> 0]
    /\ policy = InitialPolicy
    /\ clock = 1 /\ clockChanges = 0 /\ replacements = 0
    /\ call = [c \in Callers |-> NoCall]
    /\ puts = [e \in Entries |-> 0] /\ answers = [e \in Entries |-> 0]
    /\ guarded = [s \in Sessions |-> 0] /\ reached = 0

R(c) == Request[call[c].session]

\* The caller goes on at `at`, or its call returns.
Goes(c, at)    == call' = [call EXCEPT ![c].at = at]
Returns(c)     == call' = [call EXCEPT ![c] = NoCall]

Publishing(c) == call[c] # NoCall /\ R(c).operation = "Publish"

\* A step of c that changed what the other calls depend on.
Disturbs(c, next) ==
    call' = [d \in Callers |-> IF d = c THEN next
                               ELSE IF Publishing(d) THEN [call[d] EXCEPT !.disturbed = TRUE]
                               ELSE call[d]]

(***************************************************************************)
(* Authentication and replay protection.                                   *)
(***************************************************************************)
\* keys and verify_envelope_signature.  A request that does not verify changes nothing.
Begin(c, s) ==
    /\ call[c] = NoCall
    /\ keys[Request[s].sender] = Request[s].key
    /\ call' = [call EXCEPT ![c] = [NoCall EXCEPT !.at = "mark", !.session = s, !.now = clock,
                          !.policies = IF Request[s].operation = "Publish" THEN {policy} ELSE {}]]
    /\ UNCHANGED <<store, policy, budgets, history>>

\* ReplayCache::check_and_mark drops what has expired, even when it then refuses.
Unexpired(now) == [s \in Sessions |-> IF replay[s] > now THEN replay[s] ELSE 0]
Live(entries)  == {s \in Sessions : entries[s] > 0}

Reaches(now) == reached' = IF now > reached THEN now ELSE reached

\* Mutant: a full cache makes room instead of refusing.
Mark_Evicts(c) ==
    LET s    == call[c].session
        live == Unexpired(call[c].now)
        room == IF Cardinality(Live(live)) < ReplayLimit \/ Live(live) = {} THEN live
                ELSE [live EXCEPT ![CHOOSE t \in Live(live) : TRUE] = 0]
    IN  /\ call[c].at = "mark" /\ live[s] = 0
        /\ replay' = [room EXCEPT ![s] = call[c].now + ReplayTtl]
        /\ guarded' = [guarded EXCEPT ![s] = call[c].now + ReplayTtl]
        /\ Reaches(call[c].now)
        /\ call' = [call EXCEPT ![c].at = "act", ![c].now = 0]
        /\ UNCHANGED <<keys, environments, subscriptions, policy, budgets, puts, answers>>

Mark(c) ==
    LET s    == call[c].session
        live == Unexpired(call[c].now)
    IN  /\ call[c].at = "mark" /\ live[s] = 0 /\ Cardinality(Live(live)) < ReplayLimit
        /\ replay' = [live EXCEPT ![s] = call[c].now + ReplayTtl]
        /\ guarded' = [guarded EXCEPT ![s] = call[c].now + ReplayTtl]
        /\ Reaches(call[c].now)
        /\ call' = [call EXCEPT ![c].at = "act", ![c].now = 0]
        /\ UNCHANGED <<keys, environments, subscriptions, policy, budgets, puts, answers>>

\* Replay or Capacity.
MarkRefused(c) ==
    LET live == Unexpired(call[c].now)
    IN  /\ call[c].at = "mark"
        /\ live[call[c].session] > 0 \/ Cardinality(Live(live)) >= ReplayLimit
        /\ replay' = live /\ Reaches(call[c].now) /\ Returns(c)
        /\ UNCHANGED <<keys, environments, subscriptions, policy, budgets, puts, answers, guarded>>

(***************************************************************************)
(* The three operations, up to what they store or visit.                   *)
(***************************************************************************)
\* Only subscriptions name a handler.
HandlerFits(r) == (r.operation \in Subscribes) <=> (r.handler # NoHandler)

\* The request is decrypted and parsed and the sender's environment read.  SetEnvironment
\* goes on with the environment it proposes, the others need one that is stored.
Act(c) ==
    LET own == IF R(c).operation = "SetEnvironment" THEN R(c).environment
               ELSE environments[R(c).sender]
    IN  /\ call[c].at = "act" /\ R(c).operation # "Malformed" /\ HandlerFits(R(c))
        /\ own # NoEnvironment
        /\ call' = [call EXCEPT ![c].at = "validate", ![c].own = own]
        /\ UNCHANGED <<store, policy, budgets, history>>

ActRefused(c) ==
    /\ call[c].at = "act"
    /\ \/ R(c).operation = "Malformed" \/ ~HandlerFits(R(c))
       \/ R(c).operation # "SetEnvironment" /\ environments[R(c).sender] = NoEnvironment
    /\ Returns(c)
    /\ UNCHANGED <<store, policy, budgets, history>>

\* validate_environment under the policy of this moment.
Validate(c) ==
    /\ call[c].at = "validate"
    /\ IF ValidEnvironment(policy, R(c).sender, call[c].own)
       THEN Goes(c, CASE R(c).operation = "SetEnvironment" -> "store"
                      [] R(c).operation = "Publish" -> "snapshot"
                      [] OTHER -> "put")
       ELSE Returns(c)
    /\ UNCHANGED <<store, policy, budgets, history>>

MaySetEnvironment(a) ==
    \/ environments[a] # NoEnvironment
    \/ Cardinality({b \in Agents : environments[b] # NoEnvironment}) < EnvironmentLimit

StoreEnvironment(c) ==
    /\ call[c].at = "store"
    /\ IF MaySetEnvironment(R(c).sender)
       THEN environments' = [environments EXCEPT ![R(c).sender] = call[c].own] /\ Disturbs(c, NoCall)
       ELSE UNCHANGED environments /\ Returns(c)
    /\ UNCHANGED <<keys, subscriptions, replay, policy, budgets, history>>

SameSlot(x, y) == x.subscriber = y.subscriber /\ x.handler = y.handler /\ x.type = y.type

\* Mutant: the subscriptions are counted before the lock is taken.
MayPut_Uncapped(e) == TRUE

\* put_subscription: an entry in the same slot is replaced, else there must be room.
MayPut(e) ==
    \/ \E x \in subscriptions : SameSlot(x, e)
    \/ Cardinality(subscriptions) < SubscriptionLimit

Put(c) ==
    LET e == Entry(call[c].session) IN
    /\ call[c].at = "put" /\ MayPut(e)
    /\ subscriptions' = {x \in subscriptions : ~SameSlot(x, e)} \cup {e}
    /\ puts' = [puts EXCEPT ![e] = @ + 1]
    /\ Disturbs(c, NoCall)
    /\ UNCHANGED <<keys, environments, replay, policy, budgets, answers, guarded, reached>>

PutRefused(c) ==
    /\ call[c].at = "put" /\ ~MayPut(Entry(call[c].session))
    /\ Returns(c)
    /\ UNCHANGED <<store, policy, budgets, history>>

\* subscriptions_for.
Snapshot(c) ==
    LET bucket == {x \in subscriptions : x.type = R(c).type} IN
    /\ call[c].at = "snapshot"
    /\ call' = [call EXCEPT ![c].at = "visit", ![c].todo = bucket, ![c].snapshot = bucket]
    /\ UNCHANGED <<store, policy, budgets, history>>

(***************************************************************************)
(* The loop of a publication over its snapshot.                            *)
(***************************************************************************)
\* The bucket is sorted by (subscriber, handler).
Visited(c) ==
    CHOOSE x \in call[c].todo :
        \A y \in call[c].todo : \/ x.subscriber < y.subscriber
                                \/ x.subscriber = y.subscriber /\ x.handler <= y.handler

Visiting(c, at) == call[c].at = at /\ call[c].todo # {}

Skips(c) ==
    call' = [call EXCEPT ![c].at = "visit", ![c].todo = @ \ {Visited(c)},
                         ![c].other = NoEnvironment]

\* Both predicates; the subscriber's environment is read between them.
PredicatesHold(c, subscriber) ==
    /\ Evaluate(Visited(c).clauses, call[c].own)
    /\ subscriber # NoEnvironment /\ Evaluate(R(c).clauses, subscriber)

Visit(c) ==
    LET subscriber == environments[Visited(c).subscriber] IN
    /\ Visiting(c, "visit")
    /\ IF PredicatesHold(c, subscriber)
       THEN call' = [call EXCEPT ![c].at = "authorize", ![c].other = subscriber]
       ELSE Skips(c)
    /\ UNCHANGED <<store, policy, budgets, history>>

\* Mutant: the publisher was validated before, so it is not validated again.
Authorized_Once(c) ==
    /\ ValidEnvironment(policy, Visited(c).subscriber, call[c].other)
    /\ AllowsDelivery(policy, R(c).type, call[c].own, call[c].other)

\* DynamicEnvironmentPolicy::authorize_delivery holds its lock over the three questions.
Authorized(c) ==
    AuthorizesDelivery(policy, R(c).sender, call[c].own,
                       Visited(c).subscriber, call[c].other, R(c).type)

Authorize(c) ==
    /\ Visiting(c, "authorize")
    /\ IF Authorized(c) THEN Goes(c, "seal") ELSE Skips(c)
    /\ UNCHANGED <<store, policy, budgets, history>>

\* keys and delivery.  A key is never removed, so the subscriber still has one.
Seal(c) ==
    /\ Visiting(c, "seal") /\ keys[Visited(c).subscriber] # NoKey
    /\ Goes(c, "claim")
    /\ UNCHANGED <<store, policy, budgets, history>>

\* A delivery that cannot be built ends the call, and drops those built before.
SealFails(c) ==
    /\ Visiting(c, "seal")
    /\ Returns(c)
    /\ UNCHANGED <<store, policy, budgets, history>>

Answered(c) ==
    [call[c] EXCEPT !.at = "visit", !.todo = @ \ {Visited(c)}, !.other = NoEnvironment,
                    !.deliveries = @ \cup {Visited(c)}]

\* Mutant: a one-shot that is no longer there is answered all the same.
Claim_Unchecked(c) ==
    /\ Visiting(c, "claim")
    /\ IF Visited(c).kind = "Subscribe"
       THEN /\ subscriptions' = subscriptions \ {Visited(c)}
            /\ answers' = [answers EXCEPT ![Visited(c)] = @ + 1]
            /\ Disturbs(c, Answered(c))
       ELSE call' = [call EXCEPT ![c] = Answered(c)] /\ UNCHANGED <<subscriptions, answers>>
    /\ UNCHANGED <<keys, environments, replay, policy, budgets, puts, guarded, reached>>

\* Mutant: the claim says whether it removed an entry, which it never does for a permanent one.
Claim_WhenRemoved(c) ==
    /\ Visiting(c, "claim") /\ Visited(c) \in subscriptions
    /\ IF Visited(c).kind = "Subscribe"
       THEN /\ subscriptions' = subscriptions \ {Visited(c)}
            /\ answers' = [answers EXCEPT ![Visited(c)] = @ + 1]
            /\ Disturbs(c, Answered(c))
       ELSE Skips(c) /\ UNCHANGED <<subscriptions, answers>>
    /\ UNCHANGED <<keys, environments, replay, policy, budgets, puts, guarded, reached>>

\* claim_subscription: the whole entry must still be there; a one-shot is removed.
Claim(c) ==
    /\ Visiting(c, "claim") /\ Visited(c) \in subscriptions
    /\ IF Visited(c).kind = "Subscribe"
       THEN /\ subscriptions' = subscriptions \ {Visited(c)}
            /\ answers' = [answers EXCEPT ![Visited(c)] = @ + 1]
            /\ Disturbs(c, Answered(c))
       ELSE call' = [call EXCEPT ![c] = Answered(c)] /\ UNCHANGED <<subscriptions, answers>>
    /\ UNCHANGED <<keys, environments, replay, policy, budgets, puts, guarded, reached>>

ClaimMissed(c) ==
    /\ Visiting(c, "claim") /\ Visited(c) \notin subscriptions
    /\ Skips(c)
    /\ UNCHANGED <<store, policy, budgets, history>>

Finish(c) ==
    /\ call[c].at = "visit" /\ call[c].todo = {}
    /\ Returns(c)
    /\ UNCHANGED <<store, policy, budgets, history>>

(***************************************************************************)
(* The administrator and the clock.                                        *)
(***************************************************************************)
\* provision adds or replaces a key; a new Agent needs room.
Provision(a, key) ==
    /\ replacements < MaxReplacements /\ replacements' = replacements + 1
    /\ key # keys[a]
    /\ keys[a] # NoKey \/ Cardinality({b \in Agents : keys[b] # NoKey}) < AgentLimit
    /\ keys' = [keys EXCEPT ![a] = key]
    /\ UNCHANGED <<environments, subscriptions, replay, policy, clock, clockChanges, call, history>>

\* DynamicEnvironmentPolicy::replace.
Replace(candidate) ==
    /\ replacements < MaxReplacements /\ replacements' = replacements + 1
    /\ candidate # policy /\ policy' = candidate
    /\ call' = [c \in Callers |->
                   IF Publishing(c)
                   THEN [call[c] EXCEPT !.policies = @ \cup {candidate}, !.disturbed = TRUE]
                   ELSE call[c]]
    /\ UNCHANGED <<store, clock, clockChanges, history>>

\* unix_seconds is the wall clock, which may be set to anything.
SetClock(time) ==
    /\ clockChanges < MaxClockChanges /\ clockChanges' = clockChanges + 1
    /\ time # clock /\ clock' = time
    /\ UNCHANGED <<store, policy, replacements, call, history>>

Process(c) ==
    \/ \E s \in Sessions : Begin(c, s)
    \/ Mark(c) \/ MarkRefused(c) \/ Act(c) \/ ActRefused(c) \/ Validate(c)
    \/ StoreEnvironment(c) \/ Put(c) \/ PutRefused(c) \/ Snapshot(c)
    \/ Visit(c) \/ Authorize(c) \/ Seal(c) \/ SealFails(c)
    \/ Claim(c) \/ ClaimMissed(c) \/ Finish(c)

Next ==
    \/ \E c \in Callers : Process(c)
    \/ \E a \in Agents, key \in Keys : Provision(a, key)
    \/ \E candidate \in Policies : Replace(candidate)
    \/ \E time \in Times : SetClock(time)

Spec == Init /\ [][Next]_vars

(***************************************************************************)
(* Properties.                                                             *)
(***************************************************************************)
Positions == {"idle", "mark", "act", "validate", "store", "put", "snapshot", "visit",
              "authorize", "seal", "claim"}

\* The shape of the state; however the callers interleave, no table outgrows its limit.
TypeOK ==
    /\ keys \in [Agents -> Keys \cup {NoKey}]
    /\ DOMAIN environments = Agents /\ replay \in [Sessions -> Nat]
    /\ \A x \in subscriptions : x \in Entries
    /\ \A c \in Callers : call[c].at \in Positions /\ call[c].session \in Sessions \cup {NoSession}
    /\ Cardinality({a \in Agents : keys[a] # NoKey}) <= AgentLimit
    /\ Cardinality({a \in Agents : environments[a] # NoEnvironment}) <= EnvironmentLimit
    /\ Cardinality(subscriptions) <= SubscriptionLimit
    /\ Cardinality(Live(replay)) <= ReplayLimit

\* Two publications may both hold a one-shot in their snapshot, and the subscriber may put
\* the same one again while they run; still a one-shot is answered at most as often as it was
\* put, counting the one that waits.
OneShotPerPut ==
    \A e \in Entries : e.kind = "Subscribe" =>
        answers[e] + (IF e \in subscriptions THEN 1 ELSE 0) <= puts[e]

\* A session that was let through stays refused until the cache has been asked about a time
\* at which its protection is over, in whatever order the callers' times arrive.
ReplayUntilExpiry ==
    \A s \in Sessions : guarded[s] > reached => replay[s] = guarded[s]

\* A delivery is authorized by one policy that was in force during its publication, going by
\* what that policy approves for both identities: publisher and subscriber never meet because
\* one was judged by the old policy and the other by the new one.
DeliveriesOfOnePolicy ==
    \A c \in Callers : \A x \in call[c].deliveries :
        \E p \in call[c].policies : AuthorizedByApprovals(p, R(c).sender, x.subscriber, R(c).type)

\* A publication that nobody disturbed answers exactly the subscriptions of its type that
\* match it, whose subscriber has an environment the policy accepts, and which the policy
\* allows going by its approvals.
UndisturbedPublicationComplete ==
    \A c \in Callers :
        call[c].at = "visit" /\ call[c].todo = {} /\ ~call[c].disturbed =>
            call[c].deliveries =
                {x \in call[c].snapshot :
                    /\ Evaluate(x.clauses, call[c].own)
                    /\ environments[x.subscriber] # NoEnvironment
                    /\ Evaluate(R(c).clauses, environments[x.subscriber])
                    /\ ValidEnvironment(policy, x.subscriber, environments[x.subscriber])
                    /\ AuthorizedByApprovals(policy, R(c).sender, x.subscriber, R(c).type)}
=============================================================================
