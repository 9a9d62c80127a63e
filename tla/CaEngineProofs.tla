--------------------------- MODULE CaEngineProofs ---------------------------
(***************************************************************************)
(* Proofs about CaEngine: any Agents, keys, requests, configurations and   *)
(* limits, and any number of failures, crashes, reloads and seconds.       *)
(***************************************************************************)
EXTENDS CaEngine, FiniteSetTheorems, TLAPS

-----------------------------------------------------------------------------
(***************************************************************************)
(* The inductive invariant.                                                *)
(***************************************************************************)
OneShots == {s \in Sessions : Request[s].operation = "Subscribe"}
Answered(s) == \E p \in Sessions : <<s, p>> \in answered

\* What an Agent without a key may have in the store: nothing.
OwnersConfigured(state) ==
    \A a \in Agents :
        state.keys[a] = NoKey =>
            /\ state.environments[a] = NoEnvironment
            /\ \A x \in state.subscriptions : x.subscriber # a
            /\ \A s \in Sessions : Request[s].sender = a => state.replay[s] = 0

\* The three tables the limits are about are finite, however large Agents and Sessions are.
FiniteTables(state) ==
    /\ IsFiniteSet({a \in Agents : state.environments[a] # NoEnvironment})
    /\ IsFiniteSet(state.subscriptions)
    /\ IsFiniteSet({s \in Sessions : state.replay[s] > 0})

\* A store that commit may write: a subscription is the one its session asked for.
Sound(state) ==
    /\ HasType(state) /\ Decodes(state) /\ FiniteTables(state) /\ OwnersConfigured(state)
    /\ \A x \in state.subscriptions : x = Subscription(x.by)

StoresSound == Sound(memory) /\ Sound(disk) /\ Sound(next)

Committing == {"starting", "marking", "storing", "claiming", "reloading"}
Serving    == {"marking", "acting", "storing", "publishing", "claiming"}
Looping    == {"publishing", "claiming"}

\* The task: what each activity implies of the commit and of the request in hand.
TaskOK ==
    /\ pc \in Activities /\ step \in {"none", "open", "write", "rename", "publish"}
    /\ step = "none" <=> pc \notin Committing
    /\ step = "none" => next = EmptyState
    /\ pc \in Serving => request \in Sessions
    /\ pc \notin Serving => request = NoSession
    /\ pc \notin Looping => todo = {} /\ deliveries = {}
    /\ todo \subseteq memory.subscriptions
    /\ pc = "down" => memory = EmptyState
    /\ pc # "down" /\ step # "publish" => memory = disk
    /\ step = "publish" => disk = next
    /\ temporary \in BOOLEAN

CountersOK ==
    /\ configuration \in Configurations /\ policy \in {c.policy : c \in Configurations}
    /\ now \in Nat /\ failures \in Nat /\ crashes \in Nat /\ reloads \in Nat
    /\ guarded \in [Sessions -> Nat] /\ consumed \subseteq Sessions
    /\ answered \subseteq Sessions \X Sessions
    /\ \A x \in todo \cup deliveries : x \in Subscriptions

\* The sender of a request that was let through keeps its key until the request is
\* dealt with, since a reload waits for the task.
SenderHasKey ==
    /\ pc \in {"marking", "acting"} => memory.keys[Request[request].sender] # NoKey
    /\ pc \in {"marking", "storing", "claiming"} => next.keys = memory.keys

\* A commit not yet renamed keeps the protection of every session whose sender keeps
\* its key.
CommitProtects ==
    step \in {"open", "write", "rename"} =>
        \A s \in Sessions :
            /\ guarded[s] > now
            /\ disk.keys[Request[s].sender] = next.keys[Request[s].sender]
            => next.replay[s] >= guarded[s]

Authorized(x) == memory.keys[x.subscriber] # NoKey /\ HasValidEnvironment(x.subscriber)

\* What a claim takes out of the store is authorized like the deliveries already built.
ClaimAuthorized ==
    pc = "claiming" =>
        /\ next.environments = memory.environments
        /\ next.subscriptions \subseteq memory.subscriptions
        /\ \A x \in memory.subscriptions \ next.subscriptions : Authorized(x)

\* No one-shot of the store, of the commit under way or of the deliveries of the
\* publication in hand was answered before.
Unanswered ==
    /\ \A x \in disk.subscriptions \cup next.subscriptions : x.by \in OneShots => ~Answered(x.by)
    /\ pc \in {"acting", "storing"} => ~Answered(request)
    /\ pc = "claiming" =>
           \A x \in memory.subscriptions \ next.subscriptions : x.by \in OneShots => ~Answered(x.by)
    /\ \A x \in deliveries :
           x.by \in OneShots => ~Answered(x.by) /\ \A y \in disk.subscriptions : y.by # x.by

AnswersUnique ==
    \A s \in OneShots : \A p, q \in Sessions : <<s, p>> \in answered /\ <<s, q>> \in answered => p = q

Inv ==
    /\ StoresSound /\ TaskOK /\ CountersOK
    /\ SenderHasKey /\ ReplayWindowClosed /\ CommitProtects
    /\ ClaimAuthorized /\ DeliveriesAuthorized
    /\ Unanswered /\ AnswersUnique

-----------------------------------------------------------------------------
(***************************************************************************)
(* The operations of the store keep it sound.                              *)
(***************************************************************************)
LEMMA RequestType ==
    ASSUME NEW s \in Sessions
    PROVE  /\ Request[s].sender \in Agents /\ Request[s].key \in Keys
           /\ Request[s].operation \in Operations /\ Request[s].handler \in Nat
           /\ Request[s].type \in Nat /\ Request[s].environment \in Environments
           /\ Request[s].predicate \in SUBSET Environments
<1>1. Request[s] \in Requests
  BY RequestAssumption
<1> QED BY <1>1 DEF Requests

\* What a session subscribes to is an entry of the table, under its own name.
LEMMA SubscriptionType ==
    ASSUME NEW s \in Sessions, Request[s].operation \in {"Subscribe", "SubscribePermanent"}
    PROVE  /\ Subscription(s) \in Subscriptions /\ Subscription(s).by = s
           /\ Subscription(s).subscriber = Request[s].sender
           /\ Subscription(s).kind = Request[s].operation
BY RequestType DEF Subscription, Subscriptions

\* A part of a finite table is finite and not larger.
LEMMA SmallerTable ==
    ASSUME NEW S, NEW T, IsFiniteSet(S), T \subseteq S, NEW n \in Nat, Cardinality(S) <= n
    PROVE  IsFiniteSet(T) /\ Cardinality(T) <= n
<1>1. IsFiniteSet(T) /\ Cardinality(T) <= Cardinality(S)
  BY FS_Subset
<1>2. Cardinality(T) \in Nat /\ Cardinality(S) \in Nat
  BY <1>1, FS_CardinalityType
<1> QED BY <1>1, <1>2

\* A table with room takes one more element.
LEMMA OneMore ==
    ASSUME NEW S, NEW T, NEW e, IsFiniteSet(S), T \subseteq S \cup {e}, NEW n \in Nat,
           Cardinality(S) < n
    PROVE  IsFiniteSet(T) /\ Cardinality(T) <= n
<1>1. IsFiniteSet(S \cup {e})
  BY FS_AddElement
<1>2. Cardinality(S \cup {e}) = Cardinality(S) \/ Cardinality(S \cup {e}) = Cardinality(S) + 1
  BY FS_AddElement
<1>3. Cardinality(S) \in Nat
  BY FS_CardinalityType
<1>4. Cardinality(S \cup {e}) <= n
  BY <1>2, <1>3
<1> QED BY <1>1, <1>4, SmallerTable

LEMMA EmptySound == Sound(EmptyState)
<1> DEFINE e == EmptyState
<1>1. /\ DOMAIN e = {"keys", "environments", "subscriptions", "replay"}
      /\ e.keys = [a \in Agents |-> NoKey] /\ e.environments = [a \in Agents |-> NoEnvironment]
      /\ e.subscriptions = {} /\ e.replay = [s \in Sessions |-> 0]
  BY DEF EmptyState
<1> HIDE DEF e
<1>2. HasType(e)
  BY <1>1 DEF HasType
<1>3. /\ {a \in Agents : e.keys[a] # NoKey} = {}
      /\ {a \in Agents : e.environments[a] # NoEnvironment} = {}
      /\ {s \in Sessions : e.replay[s] > 0} = {}
  BY <1>1
<1>4. IsFiniteSet({}) /\ Cardinality({}) = 0
  BY FS_EmptySet
<1>5. Decodes(e) /\ FiniteTables(e)
  BY <1>1, <1>3, <1>4, LimitAssumption DEF Decodes, FitsLimits, FiniteTables
<1>6. OwnersConfigured(e)
  BY <1>1 DEF OwnersConfigured
<1> QED BY <1>1, <1>2, <1>5, <1>6 DEF Sound, e

\* check_and_mark adds one entry to a replay cache with room, and only drops others.
LEMMA MarkedSound ==
    ASSUME NEW state, Sound(state), NEW s \in Sessions, now \in Nat, MayMark(state, s),
           state.keys[Request[s].sender] # NoKey
    PROVE  Sound(Marked(state, s))
<1> DEFINE live == Unexpired(state.replay)
           m == Marked(state, s)
<1>1. state.replay \in [Sessions -> Nat] /\ DOMAIN state = {"keys", "environments", "subscriptions", "replay"}
  BY DEF Sound, HasType
<1>2. live = [t \in Sessions |-> IF state.replay[t] > now THEN state.replay[t] ELSE 0]
  BY DEF Unexpired
<1>3. live \in [Sessions -> Nat]
  BY <1>1, <1>2
<1>4. /\ DOMAIN m = DOMAIN state /\ m.keys = state.keys /\ m.environments = state.environments
      /\ m.subscriptions = state.subscriptions
      /\ m.replay = [live EXCEPT ![s] = now + ReplayTtl]
  BY <1>1 DEF Marked
<1>5. {t \in Sessions : m.replay[t] > 0} \subseteq {t \in Sessions : live[t] > 0} \cup {s}
  BY <1>3, <1>4
<1>6. Cardinality({t \in Sessions : live[t] > 0}) < ReplayLimit
  BY DEF MayMark
<1>7. \A t \in Sessions : live[t] > 0 => state.replay[t] > 0
  BY <1>1, <1>2
<1> HIDE DEF live, m
<1>8. m.replay \in [Sessions -> Nat]
  BY <1>3, <1>4, LimitAssumption
<1>9. HasType(m)
  BY <1>4, <1>8 DEF Sound, HasType
<1>10. IsFiniteSet({t \in Sessions : live[t] > 0})
  <2>1. {t \in Sessions : live[t] > 0} \subseteq {t \in Sessions : state.replay[t] > 0}
    BY <1>7
  <2>2. IsFiniteSet({t \in Sessions : state.replay[t] > 0})
    BY DEF Sound, FiniteTables
  <2> QED BY <2>1, <2>2, FS_Subset
<1>11. /\ IsFiniteSet({t \in Sessions : m.replay[t] > 0})
       /\ Cardinality({t \in Sessions : m.replay[t] > 0}) <= ReplayLimit
  BY <1>5, <1>6, <1>10, OneMore, LimitAssumption
<1>12. Decodes(m) /\ FiniteTables(m)
  BY <1>4, <1>11 DEF Sound, Decodes, FiniteTables
<1>13. ASSUME NEW t \in Sessions, m.keys[Request[t].sender] = NoKey
       PROVE  m.replay[t] = 0
  <2>1. t # s /\ state.replay[t] = 0
    BY <1>4, <1>13, RequestType DEF Sound, OwnersConfigured
  <2>2. m.replay[t] = live[t]
    BY <1>3, <1>4, <2>1
  <2>3. live[t] = 0
    BY <2>1, <1>2
  <2> QED BY <2>2, <2>3
<1>14. OwnersConfigured(m)
  BY <1>4, <1>13 DEF Sound, OwnersConfigured
<1>15. \A x \in m.subscriptions : x = Subscription(x.by)
  BY <1>4 DEF Sound
<1> QED BY <1>9, <1>12, <1>14, <1>15 DEF Sound, m

\* put_subscription replaces an entry, or takes one of the free places.
LEMMA SubscribedSound ==
    ASSUME NEW state, Sound(state), NEW s \in Sessions,
           Request[s].operation \in {"Subscribe", "SubscribePermanent"},
           MaySubscribe(state, s), state.keys[Request[s].sender] # NoKey
    PROVE  Sound(Subscribed(state, s))
<1> DEFINE e == Subscription(s)
           kept == {x \in state.subscriptions : ~SameSlot(x, e)}
           m == Subscribed(state, s)
<1>1. /\ DOMAIN m = DOMAIN state /\ m.keys = state.keys /\ m.environments = state.environments
      /\ m.replay = state.replay /\ m.subscriptions = kept \cup {e}
  BY DEF Sound, HasType, Subscribed
<1>2. e \in Subscriptions /\ e.by = s /\ e.subscriber = Request[s].sender
  BY SubscriptionType
<1>3. kept \subseteq state.subscriptions
  OBVIOUS
<1>4. IsFiniteSet(state.subscriptions) /\ Cardinality(state.subscriptions) <= SubscriptionLimit
  BY DEF Sound, FiniteTables, Decodes
<1>5. IsFiniteSet(kept \cup {e}) /\ Cardinality(kept \cup {e}) <= SubscriptionLimit
  <2>1. CASE \E x \in state.subscriptions : SameSlot(x, e)
    <3>1. PICK x \in state.subscriptions : SameSlot(x, e)
      BY <2>1
    <3>2. kept \subseteq state.subscriptions \ {x}
      BY <3>1
    <3>3. /\ IsFiniteSet(state.subscriptions \ {x})
          /\ Cardinality(state.subscriptions \ {x}) = Cardinality(state.subscriptions) - 1
      BY <3>1, <1>4, FS_RemoveElement
    <3>4. Cardinality(state.subscriptions) \in Nat
      BY <1>4, FS_CardinalityType
    <3>5. Cardinality(state.subscriptions \ {x}) < SubscriptionLimit
      BY <1>4, <3>3, <3>4, LimitAssumption
    <3> HIDE DEF kept, e
    <3> QED BY <3>2, <3>3, <3>5, OneMore, LimitAssumption
  <2>2. CASE Cardinality(state.subscriptions) < SubscriptionLimit
    <3> HIDE DEF kept, e
    <3> QED BY <1>3, <1>4, <2>2, OneMore, LimitAssumption
  <2> QED BY <2>1, <2>2 DEF MaySubscribe
<1>6. \A x \in kept \cup {e} : x \in Subscriptions /\ x = Subscription(x.by)
  BY <1>2, <1>3 DEF Sound, HasType
<1> HIDE DEF m, kept, e
<1>7. HasType(m)
  BY <1>1, <1>6 DEF Sound, HasType
<1>8. Decodes(m) /\ FiniteTables(m)
  BY <1>1, <1>5 DEF Sound, Decodes, FiniteTables
<1>9. OwnersConfigured(m)
  <2>1. \A x \in kept \cup {e} : x \in state.subscriptions \/ x.subscriber = Request[s].sender
    BY <1>2, <1>3
  <2> QED BY <1>1, <2>1 DEF Sound, OwnersConfigured
<1> QED BY <1>1, <1>6, <1>7, <1>8, <1>9 DEF Sound, m

\* put_environment replaces an environment, or takes one of the free places.
LEMMA EnvironmentSetSound ==
    ASSUME NEW state, Sound(state), NEW s \in Sessions, MaySetEnvironment(state, s),
           state.keys[Request[s].sender] # NoKey
    PROVE  Sound(EnvironmentSet(state, s))
<1> DEFINE b == Request[s].sender
           m == EnvironmentSet(state, s)
           had == {a \in Agents : state.environments[a] # NoEnvironment}
           has == {a \in Agents : m.environments[a] # NoEnvironment}
<1>1. /\ DOMAIN m = DOMAIN state /\ m.keys = state.keys /\ m.subscriptions = state.subscriptions
      /\ m.replay = state.replay
      /\ m.environments = [state.environments EXCEPT ![b] = Request[s].environment]
  BY DEF Sound, HasType, EnvironmentSet
<1>2. state.environments \in [Agents -> Environments \cup {NoEnvironment}]
  BY DEF Sound, HasType
<1>3. b \in Agents /\ Request[s].environment \in Environments
  BY RequestType
<1>4. IsFiniteSet(had) /\ Cardinality(had) <= EnvironmentLimit
  BY DEF Sound, FiniteTables, Decodes
<1>5. has \subseteq had \cup {b}
  BY <1>1, <1>2, <1>3
<1>6. b \in had \/ Cardinality(had) < EnvironmentLimit
  BY <1>3 DEF MaySetEnvironment
<1>7. IsFiniteSet(has) /\ Cardinality(has) <= EnvironmentLimit
  <2> HIDE DEF has, had, b
  <2>1. CASE b \in had
    <3>1. has \subseteq had
      BY <1>5, <2>1
    <3> QED BY <1>4, <3>1, SmallerTable, LimitAssumption
  <2>2. CASE Cardinality(had) < EnvironmentLimit
    BY <1>4, <1>5, <2>2, OneMore, LimitAssumption
  <2> QED BY <1>6, <2>1, <2>2
<1>8. m.environments \in [Agents -> Environments \cup {NoEnvironment}]
  BY <1>1, <1>2, <1>3
<1>9. \A a \in Agents : a # b => m.environments[a] = state.environments[a]
  BY <1>1, <1>2
<1> HIDE DEF m
<1>10. HasType(m)
  BY <1>1, <1>8 DEF Sound, HasType
<1>11. Decodes(m) /\ FiniteTables(m)
  BY <1>1, <1>7 DEF Sound, Decodes, FiniteTables
<1>12. OwnersConfigured(m)
  BY <1>1, <1>9 DEF Sound, OwnersConfigured
<1>13. \A x \in m.subscriptions : x = Subscription(x.by)
  BY <1>1 DEF Sound
<1> QED BY <1>10, <1>11, <1>12, <1>13 DEF Sound, m

LEMMA ClaimedSound ==
    ASSUME NEW state, Sound(state), NEW x
    PROVE  Sound(Claimed(state, x))
<1> DEFINE m == Claimed(state, x)
<1>1. /\ DOMAIN m = DOMAIN state /\ m.keys = state.keys /\ m.environments = state.environments
      /\ m.replay = state.replay /\ m.subscriptions = state.subscriptions \ {x}
  BY DEF Sound, HasType, Claimed
<1> HIDE DEF m
<1>2. IsFiniteSet(m.subscriptions) /\ Cardinality(m.subscriptions) <= SubscriptionLimit
  BY <1>1, SmallerTable, LimitAssumption DEF Sound, FiniteTables, Decodes
<1>3. HasType(m)
  BY <1>1 DEF Sound, HasType
<1>4. Decodes(m) /\ FiniteTables(m)
  BY <1>1, <1>2 DEF Sound, Decodes, FiniteTables
<1>5. OwnersConfigured(m)
  BY <1>1 DEF Sound, OwnersConfigured
<1> QED BY <1>1, <1>3, <1>4, <1>5 DEF Sound, m

\* reconcile_agents only takes away, and leaves nothing to an Agent without a key.
LEMMA ReconciledSound ==
    ASSUME NEW state, Sound(state), NEW keys \in [Agents -> Keys \cup {NoKey}], FitsLimits(keys)
    PROVE  Sound(Reconciled(state, keys))
<1> DEFINE unchanged == {a \in Agents : state.keys[a] # NoKey /\ state.keys[a] = keys[a]}
           m == Reconciled(state, keys)
<1>1. /\ DOMAIN m = {"keys", "environments", "subscriptions", "replay"}
      /\ m.keys = keys
      /\ m.environments = [a \in Agents |->
                              IF a \in unchanged THEN state.environments[a] ELSE NoEnvironment]
      /\ m.subscriptions = {x \in state.subscriptions : x.subscriber \in unchanged}
      /\ m.replay = [s \in Sessions |->
                        IF Request[s].sender \in unchanged THEN state.replay[s] ELSE 0]
  BY DEF Reconciled
<1>2. \A a \in unchanged : keys[a] # NoKey
  OBVIOUS
<1> HIDE DEF m, unchanged
<1>3. HasType(m)
  <2>1. m.environments \in [Agents -> Environments \cup {NoEnvironment}]
    BY <1>1 DEF Sound, HasType
  <2>2. m.replay \in [Sessions -> Nat]
    BY <1>1 DEF Sound, HasType
  <2>3. \A x \in m.subscriptions : x \in Subscriptions
    BY <1>1 DEF Sound, HasType
  <2> QED BY <1>1, <2>1, <2>2, <2>3 DEF HasType
<1>4. /\ IsFiniteSet({a \in Agents : m.environments[a] # NoEnvironment})
      /\ Cardinality({a \in Agents : m.environments[a] # NoEnvironment}) <= EnvironmentLimit
  <2>1. {a \in Agents : m.environments[a] # NoEnvironment}
            \subseteq {a \in Agents : state.environments[a] # NoEnvironment}
    BY <1>1
  <2> QED BY <2>1, SmallerTable, LimitAssumption DEF Sound, FiniteTables, Decodes
<1>5. IsFiniteSet(m.subscriptions) /\ Cardinality(m.subscriptions) <= SubscriptionLimit
  <2>1. m.subscriptions \subseteq state.subscriptions
    BY <1>1
  <2> QED BY <2>1, SmallerTable, LimitAssumption DEF Sound, FiniteTables, Decodes
<1>6. /\ IsFiniteSet({s \in Sessions : m.replay[s] > 0})
      /\ Cardinality({s \in Sessions : m.replay[s] > 0}) <= ReplayLimit
  <2>1. {s \in Sessions : m.replay[s] > 0} \subseteq {s \in Sessions : state.replay[s] > 0}
    BY <1>1
  <2> QED BY <2>1, SmallerTable, LimitAssumption DEF Sound, FiniteTables, Decodes
<1>7. Decodes(m) /\ FiniteTables(m)
  BY <1>1, <1>4, <1>5, <1>6 DEF Decodes, FiniteTables
<1>8. OwnersConfigured(m)
  BY <1>1, <1>2 DEF OwnersConfigured
<1>9. \A x \in m.subscriptions : x = Subscription(x.by)
  BY <1>1 DEF Sound
<1> QED BY <1>3, <1>7, <1>8, <1>9 DEF Sound, m

-----------------------------------------------------------------------------
(***************************************************************************)
(* The steps of a commit, and the ways an operation ends.                  *)
(***************************************************************************)
LEMMA ConfigurationType ==
    ASSUME NEW c \in Configurations
    PROVE  c.keys \in [Agents -> Keys \cup {NoKey}] /\ c.policy \in Policies
BY ConfigurationAssumption

\* The operation in hand is over, done or failed: the task is idle, or down.
LEMMA Settled ==
    ASSUME Inv, CountersOK', temporary' \in BOOLEAN,
           \/ pc' = "down" /\ memory' = EmptyState
           \/ pc' = "idle" /\ memory' = disk,
           step' = "none", next' = EmptyState, request' = NoSession, todo' = {}, deliveries' = {},
           UNCHANGED <<disk, now, guarded, answered>>
    PROVE  Inv'
<1> USE DEF Inv
<1>1. StoresSound'
  BY EmptySound DEF StoresSound
<1>2. TaskOK'
  BY DEF TaskOK, Activities, Committing, Serving, Looping
<1>3. SenderHasKey'
  BY DEF SenderHasKey
<1>4. ReplayWindowClosed' /\ CommitProtects'
  BY DEF ReplayWindowClosed, CommitProtects
<1>5. ClaimAuthorized' /\ DeliveriesAuthorized'
  BY DEF ClaimAuthorized, DeliveriesAuthorized
<1>6. EmptyState.subscriptions = {}
  BY DEF EmptyState
<1>7. Unanswered' /\ AnswersUnique'
  BY <1>6 DEF Unanswered, AnswersUnique, Answered
<1> QED BY <1>1, <1>2, <1>3, <1>4, <1>5, <1>7

LEMMA CommitFailedInv ==
    ASSUME Inv, step \in {"open", "write", "rename"}, CommitFailed, failures' \in Nat
    PROVE  Inv'
<1>1. CountersOK'
  BY DEF Inv, CountersOK, CommitFailed, history
<1>2. pc # "down" /\ memory = disk
  BY DEF Inv, TaskOK, Committing
<1>3. temporary' \in BOOLEAN
  BY DEF Inv, TaskOK, CommitFailed
<1> QED BY <1>1, <1>2, <1>3, Settled DEF CommitFailed, history

LEMMA OpenTemporaryInv == ASSUME Inv, OpenTemporary PROVE Inv'
<1> USE DEF Inv
<1>1. CASE temporary
  <2>1. failures' \in Nat /\ CommitFailed /\ step = "open"
    BY <1>1 DEF OpenTemporary, CountersOK
  <2> QED BY <2>1, CommitFailedInv
<1>2. CASE ~temporary
  <2>1. /\ step = "open" /\ step' = "write" /\ temporary' = TRUE
        /\ UNCHANGED <<pc, request, todo, deliveries, memory, disk, next, policy, configuration,
                       now, failures, crashes, reloads, guarded, consumed, answered>>
    BY <1>2 DEF OpenTemporary, budgets, history
  <2>2. StoresSound' /\ CountersOK' /\ TaskOK'
    BY <2>1 DEF StoresSound, CountersOK, TaskOK
  <2>3. SenderHasKey' /\ ReplayWindowClosed' /\ CommitProtects'
    BY <2>1 DEF SenderHasKey, ReplayWindowClosed, CommitProtects
  <2>4. ClaimAuthorized' /\ DeliveriesAuthorized'
    BY <2>1 DEF ClaimAuthorized, DeliveriesAuthorized, Authorized, HasValidEnvironment,
                StoredEnvironment, Valid
  <2>5. Unanswered' /\ AnswersUnique'
    BY <2>1 DEF Unanswered, AnswersUnique, Answered
  <2> QED BY <2>2, <2>3, <2>4, <2>5
<1> QED BY <1>1, <1>2

LEMMA WriteTemporaryInv == ASSUME Inv, WriteTemporary PROVE Inv'
<1> USE DEF Inv
<1>1. /\ step = "write" /\ step' = "rename"
      /\ UNCHANGED <<pc, request, todo, deliveries, memory, disk, temporary, next, policy,
                     configuration, now, failures, crashes, reloads, guarded, consumed, answered>>
  BY DEF WriteTemporary, budgets, history
<1>2. StoresSound' /\ CountersOK' /\ TaskOK'
  BY <1>1 DEF StoresSound, CountersOK, TaskOK
<1>3. SenderHasKey' /\ ReplayWindowClosed' /\ CommitProtects'
  BY <1>1 DEF SenderHasKey, ReplayWindowClosed, CommitProtects
<1>4. ClaimAuthorized' /\ DeliveriesAuthorized'
  BY <1>1 DEF ClaimAuthorized, DeliveriesAuthorized, Authorized, HasValidEnvironment,
              StoredEnvironment, Valid
<1>5. Unanswered' /\ AnswersUnique'
  BY <1>1 DEF Unanswered, AnswersUnique, Answered
<1> QED BY <1>2, <1>3, <1>4, <1>5

\* The rename is where a commit takes effect: what it keeps stays protected, and what
\* it no longer holds was only deliverable because it was claimed.
LEMMA RenameTemporaryInv == ASSUME Inv, RenameTemporary PROVE Inv'
<1> USE DEF Inv
<1>1. /\ step = "rename" /\ step' = "publish" /\ disk' = next /\ temporary' = FALSE
      /\ UNCHANGED <<pc, request, todo, deliveries, memory, next, policy, configuration,
                     now, failures, crashes, reloads, answered>>
  BY DEF RenameTemporary, budgets
<1>2. guarded' = [s \in Sessions |->
                     IF disk.keys[Request[s].sender] = next.keys[Request[s].sender]
                     THEN guarded[s] ELSE 0]
  BY DEF RenameTemporary
<1>3. pc \in Committing /\ pc # "down" /\ memory = disk
  BY <1>1 DEF TaskOK, Committing
<1>4. StoresSound' /\ TaskOK'
  BY <1>1, <1>3 DEF StoresSound, TaskOK
<1>5. guarded' \in [Sessions -> Nat]
  BY <1>2 DEF CountersOK
<1>6. consumed' \subseteq Sessions
  <2>1. \A x \in disk.subscriptions : x.by \in Sessions
    BY DEF StoresSound, Sound, HasType, Subscriptions
  <2>2. consumed' \subseteq consumed \cup {x.by : x \in disk.subscriptions}
    BY DEF RenameTemporary
  <2> QED BY <2>1, <2>2 DEF CountersOK
<1>7. CountersOK'
  BY <1>1, <1>5, <1>6 DEF CountersOK
<1>8. ReplayWindowClosed'
  <2> SUFFICES ASSUME NEW s \in Sessions, guarded'[s] > now
               PROVE  next.replay[s] >= guarded'[s]
    BY <1>1 DEF ReplayWindowClosed
  <2>1. guarded'[s] # 0
    BY DEF CountersOK
  <2>2. guarded'[s] = guarded[s] /\ disk.keys[Request[s].sender] = next.keys[Request[s].sender]
    BY <1>2, <2>1
  <2> QED BY <1>1, <2>2 DEF CommitProtects
<1>9. SenderHasKey' /\ CommitProtects'
  BY <1>1 DEF SenderHasKey, CommitProtects
<1>10. ClaimAuthorized' /\ DeliveriesAuthorized'
  BY <1>1 DEF ClaimAuthorized, DeliveriesAuthorized, Authorized, HasValidEnvironment,
              StoredEnvironment, Valid
<1>11. Unanswered'
  <2>1. \A x \in next.subscriptions : x.by \in OneShots => ~Answered(x.by)
    BY DEF Unanswered
  <2>2. deliveries # {} => next.subscriptions \subseteq disk.subscriptions
    BY <1>3 DEF TaskOK, Looping, Committing, ClaimAuthorized
  <2>3. \A x \in deliveries :
            x.by \in OneShots => ~Answered(x.by) /\ \A y \in next.subscriptions : y.by # x.by
    BY <2>2 DEF Unanswered
  <2>4. \A s : Answered(s)' <=> Answered(s)
    BY <1>1 DEF Answered
  <2>5. pc = "claiming" => \A x \in memory.subscriptions \ next.subscriptions :
                               x.by \in OneShots => ~Answered(x.by)
    BY DEF Unanswered
  <2>6. pc \in {"acting", "storing"} => ~Answered(request)
    BY DEF Unanswered
  <2> QED BY <1>1, <2>1, <2>3, <2>4, <2>5, <2>6 DEF Unanswered
<1>12. AnswersUnique'
  BY <1>1 DEF AnswersUnique
<1> QED BY <1>4, <1>7, <1>8, <1>9, <1>10, <1>11, <1>12

LEMMA FileFailureInv == ASSUME Inv, FileFailure PROVE Inv'
<1>1. step \in {"open", "write", "rename"} /\ CommitFailed /\ failures' \in Nat
  BY DEF FileFailure, Inv, CountersOK
<1> QED BY <1>1, CommitFailedInv

LEMMA CrashInv == ASSUME Inv, Crash PROVE Inv'
<1>1. CountersOK' /\ temporary' \in BOOLEAN
  BY DEF Crash, Inv, CountersOK, TaskOK, history
<1> QED BY <1>1, Settled DEF Crash, history

LEMMA DeliveryFailureInv == ASSUME Inv, NEW x \in todo, DeliveryFailure(x) PROVE Inv'
<1>1. CountersOK' /\ temporary' \in BOOLEAN
  BY DEF DeliveryFailure, Inv, CountersOK, TaskOK, history, file
<1>2. pc = "publishing"
  BY DEF DeliveryFailure, First
<1>3. step = "none" /\ memory = disk /\ next = EmptyState
  BY <1>2 DEF Inv, TaskOK, Committing
<1> QED BY <1>1, <1>3, Settled DEF DeliveryFailure, history, file

LEMMA StorePublishedInv == ASSUME Inv, StorePublished PROVE Inv'
<1>1. CountersOK' /\ temporary' \in BOOLEAN
  BY DEF StorePublished, Published, Inv, CountersOK, TaskOK, history, budgets
<1>2. /\ pc' = "idle" /\ memory' = disk /\ step' = "none" /\ next' = EmptyState
      /\ request' = NoSession /\ UNCHANGED <<disk, now, guarded, answered>>
  BY DEF StorePublished, Published, Inv, TaskOK, history, budgets
<1>3. todo' = {} /\ deliveries' = {}
  BY DEF StorePublished, Published, Inv, TaskOK, Looping
<1> QED BY <1>1, <1>2, <1>3, Settled

LEMMA StartPublishedInv == ASSUME Inv, StartPublished PROVE Inv'
<1>1. CountersOK' /\ temporary' \in BOOLEAN
  BY DEF StartPublished, Published, Inv, CountersOK, TaskOK, history, budgets
<1>2. /\ pc' = "idle" /\ memory' = disk /\ step' = "none" /\ next' = EmptyState
      /\ UNCHANGED <<disk, now, guarded, answered>>
  BY DEF StartPublished, Published, Inv, TaskOK, history, budgets
<1>3. request' = NoSession /\ todo' = {} /\ deliveries' = {}
  BY DEF StartPublished, Published, Inv, TaskOK, Looping, Serving
<1> QED BY <1>1, <1>2, <1>3, Settled

LEMMA ReloadPublishedInv == ASSUME Inv, ReloadPublished PROVE Inv'
<1>1. CountersOK' /\ temporary' \in BOOLEAN
  BY DEF ReloadPublished, Published, Inv, CountersOK, TaskOK, history, budgets
<1>2. /\ pc' = "idle" /\ memory' = disk /\ step' = "none" /\ next' = EmptyState
      /\ UNCHANGED <<disk, now, guarded, answered>>
  BY DEF ReloadPublished, Published, Inv, TaskOK, history, budgets
<1>3. request' = NoSession /\ todo' = {} /\ deliveries' = {}
  BY DEF ReloadPublished, Published, Inv, TaskOK, Looping, Serving
<1> QED BY <1>1, <1>2, <1>3, Settled

LEMMA ActRejectedInv == ASSUME Inv, ActRejected PROVE Inv'
<1>1. /\ pc = "acting" /\ pc' = "idle" /\ request' = NoSession
      /\ UNCHANGED <<todo, deliveries, memory, disk, temporary, next, step, policy, configuration,
                     now, failures, crashes, reloads, guarded, consumed, answered>>
  BY DEF ActRejected, file, budgets, history
<1>2. CountersOK' /\ temporary' \in BOOLEAN
  BY <1>1 DEF Inv, CountersOK, TaskOK
<1>3. step = "none" /\ next = EmptyState /\ todo = {} /\ deliveries = {} /\ memory = disk
  BY <1>1 DEF Inv, TaskOK, Looping, Committing
<1> QED BY <1>1, <1>2, <1>3, Settled

\* PublishDone answers what was delivered: one-shots that are neither stored nor
\* answered, so each of them for the first time.
LEMMA PublishDoneInv == ASSUME Inv, PublishDone PROVE Inv'
<1> USE DEF Inv
<1>1. /\ pc = "publishing" /\ pc' = "idle" /\ request' = NoSession /\ deliveries' = {} /\ todo = {}
      /\ answered' = answered \cup {<<x.by, request>> : x \in deliveries}
      /\ UNCHANGED <<todo, memory, disk, temporary, next, step, policy, configuration,
                     now, failures, crashes, reloads, guarded, consumed>>
  BY DEF PublishDone, file, budgets
<1>2. step = "none" /\ next = EmptyState /\ memory = disk /\ request \in Sessions
  BY <1>1 DEF TaskOK, Committing, Serving
<1>3. \A x \in deliveries : x.by \in Sessions
  BY DEF CountersOK, Subscriptions
<1>4. CountersOK'
  BY <1>1, <1>2, <1>3 DEF CountersOK
<1>5. TaskOK'
  BY <1>1, <1>2 DEF TaskOK, Committing, Serving, Looping, Activities
<1>6. StoresSound' /\ ReplayWindowClosed' /\ CommitProtects' /\ SenderHasKey' /\ ClaimAuthorized'
  BY <1>1, <1>2 DEF StoresSound, ReplayWindowClosed, CommitProtects, SenderHasKey, ClaimAuthorized
<1>7. DeliveriesAuthorized'
  BY <1>1 DEF DeliveriesAuthorized
<1>8. ASSUME NEW s, NEW p, <<s, p>> \in answered'
      PROVE  <<s, p>> \in answered \/ (p = request /\ \E x \in deliveries : x.by = s)
  BY <1>1, <1>8
<1>9. Unanswered'
  <2>1. \A x \in disk.subscriptions : x.by \in OneShots => ~Answered(x.by)'
    BY <1>1, <1>8 DEF Unanswered, Answered
  <2>2. next.subscriptions = {}
    BY <1>2 DEF EmptyState
  <2> QED BY <1>1, <2>1, <2>2 DEF Unanswered
<1>10. AnswersUnique'
  <2> SUFFICES ASSUME NEW s \in OneShots, NEW p \in Sessions, NEW q \in Sessions,
                      <<s, p>> \in answered', <<s, q>> \in answered'
               PROVE  p = q
    BY DEF AnswersUnique
  <2>1. CASE \E x \in deliveries : x.by = s
    <3>1. ~Answered(s)
      BY <2>1 DEF Unanswered
    <3> QED BY <1>8, <3>1 DEF Answered
  <2>2. CASE ~\E x \in deliveries : x.by = s
    BY <1>8, <2>2 DEF AnswersUnique
  <2> QED BY <2>1, <2>2
<1> QED BY <1>4, <1>5, <1>6, <1>7, <1>9, <1>10

-----------------------------------------------------------------------------
(***************************************************************************)
(* The operations that start a commit.                                     *)
(***************************************************************************)
\* What every commit starts from, whatever is committed.
LEMMA CommitBegins ==
    ASSUME Inv, step = "none", NEW state, Sound(state), next' = state, step' = "open",
           memory' = disk, CountersOK',
           \A s \in Sessions :
               /\ guarded[s] > now
               /\ disk.keys[Request[s].sender] = state.keys[Request[s].sender]
               => state.replay[s] >= guarded[s],
           UNCHANGED <<disk, now, guarded, answered>>
    PROVE  /\ StoresSound' /\ ReplayWindowClosed' /\ CommitProtects' /\ AnswersUnique'
<1> USE DEF Inv
<1>1. StoresSound'
  BY DEF StoresSound
<1>2. ReplayWindowClosed' /\ CommitProtects'
  BY DEF ReplayWindowClosed, CommitProtects
<1>3. AnswersUnique'
  BY DEF AnswersUnique
<1> QED BY <1>1, <1>2, <1>3

\* Reconciling keeps the protection of every session whose sender keeps its key: a
\* sender without one has nothing to protect.
LEMMA ReconciledProtects ==
    ASSUME Inv, NEW keys \in [Agents -> Keys \cup {NoKey}], NEW s \in Sessions, guarded[s] > now,
           disk.keys[Request[s].sender] = Reconciled(disk, keys).keys[Request[s].sender]
    PROVE  Reconciled(disk, keys).replay[s] >= guarded[s]
<1>1. disk.replay[s] >= guarded[s] /\ disk.replay[s] \in Nat /\ guarded[s] \in Nat /\ now \in Nat
  BY DEF Inv, ReplayWindowClosed, StoresSound, Sound, HasType, CountersOK
<1>2. disk.replay[s] # 0
  BY <1>1
<1>3. disk.keys[Request[s].sender] # NoKey /\ Request[s].sender \in Agents
  BY <1>2, RequestType DEF Inv, StoresSound, Sound, OwnersConfigured
<1>4. Reconciled(disk, keys).replay[s] = disk.replay[s]
  BY <1>3 DEF Reconciled
<1> QED BY <1>1, <1>4

LEMMA ReconciledSubset ==
    ASSUME NEW state, NEW keys
    PROVE  Reconciled(state, keys).subscriptions \subseteq state.subscriptions
BY DEF Reconciled

LEMMA ReceiveInv == ASSUME Inv, NEW s \in Sessions, Receive(s) PROVE Inv'
<1> USE DEF Inv
<1> DEFINE m == Marked(memory, s)
<1>1. /\ pc = "idle" /\ pc' = "marking" /\ request' = s /\ next' = m /\ step' = "open"
      /\ memory.keys[Request[s].sender] = Request[s].key /\ MayMark(memory, s)
      /\ UNCHANGED <<todo, deliveries, memory, disk, temporary, policy, configuration,
                     now, failures, crashes, reloads, guarded, consumed, answered>>
  BY DEF Receive, Commit, budgets, history
<1>2. step = "none" /\ memory = disk /\ todo = {} /\ deliveries = {}
  BY <1>1 DEF TaskOK, Committing, Looping
<1>3. memory.keys[Request[s].sender] # NoKey
  BY <1>1, RequestType, AbsentAssumption
<1>4. Sound(m)
  BY <1>1, <1>3, MarkedSound DEF StoresSound, CountersOK
<1>5. /\ m.keys = memory.keys /\ m.subscriptions = memory.subscriptions
      /\ m.replay = [Unexpired(memory.replay) EXCEPT ![s] = now + ReplayTtl]
  BY DEF Marked, StoresSound, Sound, HasType
<1>6. ASSUME NEW t \in Sessions, guarded[t] > now
      PROVE  m.replay[t] >= guarded[t]
  <2>1. /\ memory.replay[t] >= guarded[t] /\ memory.replay[t] \in Nat /\ guarded[t] \in Nat
        /\ now \in Nat
    BY <1>2, <1>6 DEF ReplayWindowClosed, StoresSound, Sound, HasType, CountersOK
  <2>2. Unexpired(memory.replay)[t] = memory.replay[t] /\ Unexpired(memory.replay)[t] # 0
    BY <1>6, <2>1 DEF Unexpired
  <2>3. t # s
    BY <1>1, <2>2 DEF MayMark
  <2>4. m.replay[t] = Unexpired(memory.replay)[t]
    BY <1>5, <2>3 DEF Unexpired
  <2> QED BY <2>1, <2>2, <2>4
<1> HIDE DEF m
<1>7. CountersOK'
  BY <1>1 DEF CountersOK
<1>8. StoresSound' /\ ReplayWindowClosed' /\ CommitProtects' /\ AnswersUnique'
  BY <1>1, <1>2, <1>4, <1>6, <1>7, CommitBegins
<1>9. TaskOK'
  BY <1>1, <1>2 DEF TaskOK, Activities, Committing, Serving, Looping
<1>10. SenderHasKey' /\ ClaimAuthorized' /\ DeliveriesAuthorized'
  BY <1>1, <1>2, <1>3, <1>5 DEF SenderHasKey, ClaimAuthorized, DeliveriesAuthorized
<1>11. Unanswered'
  BY <1>1, <1>2, <1>5 DEF Unanswered, Answered
<1> QED BY <1>7, <1>8, <1>9, <1>10, <1>11

LEMMA ActSetEnvironmentInv == ASSUME Inv, ActSetEnvironment PROVE Inv'
<1> USE DEF Inv
<1> DEFINE m == EnvironmentSet(memory, request)
<1>1. /\ pc = "acting" /\ pc' = "storing" /\ next' = m /\ step' = "open"
      /\ MaySetEnvironment(memory, request)
      /\ UNCHANGED <<request, todo, deliveries, memory, disk, temporary, policy, configuration,
                     now, failures, crashes, reloads, guarded, consumed, answered>>
  BY DEF ActSetEnvironment, Commit, budgets, history
<1>2. /\ step = "none" /\ memory = disk /\ todo = {} /\ deliveries = {} /\ request \in Sessions
      /\ memory.keys[Request[request].sender] # NoKey
  BY <1>1 DEF TaskOK, Committing, Looping, Serving, SenderHasKey
<1>3. Sound(m)
  BY <1>1, <1>2, EnvironmentSetSound DEF StoresSound
<1>4. m.keys = memory.keys /\ m.subscriptions = memory.subscriptions /\ m.replay = memory.replay
  BY DEF EnvironmentSet, StoresSound, Sound, HasType
<1> HIDE DEF m
<1>5. \A s \in Sessions : guarded[s] > now => m.replay[s] >= guarded[s]
  BY <1>2, <1>4 DEF ReplayWindowClosed
<1>6. CountersOK'
  BY <1>1 DEF CountersOK
<1>7. StoresSound' /\ ReplayWindowClosed' /\ CommitProtects' /\ AnswersUnique'
  BY <1>1, <1>2, <1>3, <1>5, <1>6, CommitBegins
<1>8. TaskOK'
  BY <1>1, <1>2 DEF TaskOK, Activities, Committing, Serving, Looping
<1>9. SenderHasKey' /\ ClaimAuthorized' /\ DeliveriesAuthorized'
  BY <1>1, <1>2, <1>4 DEF SenderHasKey, ClaimAuthorized, DeliveriesAuthorized
<1>10. Unanswered'
  BY <1>1, <1>2, <1>4 DEF Unanswered, Answered
<1> QED BY <1>6, <1>7, <1>8, <1>9, <1>10

LEMMA ActSubscribeInv == ASSUME Inv, ActSubscribe PROVE Inv'
<1> USE DEF Inv
<1> DEFINE m == Subscribed(memory, request)
<1>1. /\ pc = "acting" /\ pc' = "storing" /\ next' = m /\ step' = "open"
      /\ Request[request].operation \in {"Subscribe", "SubscribePermanent"}
      /\ MaySubscribe(memory, request)
      /\ UNCHANGED <<request, todo, deliveries, memory, disk, temporary, policy, configuration,
                     now, failures, crashes, reloads, guarded, consumed, answered>>
  BY DEF ActSubscribe, Commit, budgets, history
<1>2. /\ step = "none" /\ memory = disk /\ todo = {} /\ deliveries = {} /\ request \in Sessions
      /\ memory.keys[Request[request].sender] # NoKey
  BY <1>1 DEF TaskOK, Committing, Looping, Serving, SenderHasKey
<1>3. Sound(m)
  BY <1>1, <1>2, SubscribedSound DEF StoresSound
<1>4. /\ m.keys = memory.keys /\ m.replay = memory.replay
      /\ m.subscriptions \subseteq memory.subscriptions \cup {Subscription(request)}
  BY DEF Subscribed, StoresSound, Sound, HasType
<1> HIDE DEF m
<1>5. \A s \in Sessions : guarded[s] > now => m.replay[s] >= guarded[s]
  BY <1>2, <1>4 DEF ReplayWindowClosed
<1>6. CountersOK'
  BY <1>1 DEF CountersOK
<1>7. StoresSound' /\ ReplayWindowClosed' /\ CommitProtects' /\ AnswersUnique'
  BY <1>1, <1>2, <1>3, <1>5, <1>6, CommitBegins
<1>8. TaskOK'
  BY <1>1, <1>2 DEF TaskOK, Activities, Committing, Serving, Looping
<1>9. SenderHasKey' /\ ClaimAuthorized' /\ DeliveriesAuthorized'
  BY <1>1, <1>2, <1>4 DEF SenderHasKey, ClaimAuthorized, DeliveriesAuthorized
<1>10. Unanswered'
  <2>1. ~Answered(request) /\ Subscription(request).by = request
    BY <1>1, <1>2, SubscriptionType DEF Unanswered
  <2>2. \A x \in m.subscriptions : x.by \in OneShots => ~Answered(x.by)
    BY <1>2, <1>4, <2>1 DEF Unanswered
  <2>3. \A x \in disk.subscriptions : x.by \in OneShots => ~Answered(x.by)
    BY DEF Unanswered
  <2>4. \A t : Answered(t)' <=> Answered(t)
    BY <1>1 DEF Answered
  <2> QED BY <1>1, <1>2, <2>1, <2>2, <2>3, <2>4 DEF Unanswered
<1> QED BY <1>6, <1>7, <1>8, <1>9, <1>10

\* The one-shot that is claimed matched: its subscriber may receive, and nothing has
\* answered it yet.
LEMMA PublishOneShotInv == ASSUME Inv, NEW x \in todo, PublishOneShot(x) PROVE Inv'
<1> USE DEF Inv
<1> DEFINE m == Claimed(memory, x)
<1>1. /\ pc = "publishing" /\ pc' = "claiming" /\ next' = m /\ step' = "open"
      /\ Matches(x) /\ memory.keys[x.subscriber] # NoKey /\ x \in memory.subscriptions
      /\ UNCHANGED <<request, todo, deliveries, memory, disk, temporary, policy, configuration,
                     now, failures, crashes, reloads, guarded, consumed, answered>>
  BY DEF PublishOneShot, First, Commit, budgets, history
<1>2. step = "none" /\ memory = disk /\ request \in Sessions
  BY <1>1 DEF TaskOK, Committing, Serving
<1>3. Sound(m)
  BY ClaimedSound DEF StoresSound
<1>4. /\ m.keys = memory.keys /\ m.replay = memory.replay /\ m.environments = memory.environments
      /\ m.subscriptions = memory.subscriptions \ {x}
  BY DEF Claimed, StoresSound, Sound, HasType
<1> HIDE DEF m
<1>5. \A s \in Sessions : guarded[s] > now => m.replay[s] >= guarded[s]
  BY <1>2, <1>4 DEF ReplayWindowClosed
<1>6. CountersOK'
  BY <1>1 DEF CountersOK
<1>7. StoresSound' /\ ReplayWindowClosed' /\ CommitProtects' /\ AnswersUnique'
  BY <1>1, <1>2, <1>3, <1>5, <1>6, CommitBegins
<1>8. TaskOK'
  BY <1>1, <1>2 DEF TaskOK, Activities, Committing, Serving, Looping
<1>9. Authorized(x)
  BY <1>1 DEF Authorized, Matches, HasValidEnvironment
<1>10. SenderHasKey' /\ ClaimAuthorized' /\ DeliveriesAuthorized'
  BY <1>1, <1>4, <1>9 DEF SenderHasKey, ClaimAuthorized, DeliveriesAuthorized, Authorized,
                           HasValidEnvironment, StoredEnvironment, Valid
<1>11. Unanswered'
  <2>1. \A y \in disk.subscriptions \cup m.subscriptions : y.by \in OneShots => ~Answered(y.by)
    BY <1>2, <1>4 DEF Unanswered
  <2>2. \A t : Answered(t)' <=> Answered(t)
    BY <1>1 DEF Answered
  <2>3. \A y \in deliveries :
            y.by \in OneShots => ~Answered(y.by) /\ \A z \in disk.subscriptions : z.by # y.by
    BY DEF Unanswered
  <2> QED BY <1>1, <1>2, <2>1, <2>2, <2>3 DEF Unanswered
<1> QED BY <1>6, <1>7, <1>8, <1>10, <1>11

LEMMA StartInv == ASSUME Inv, Start PROVE Inv'
<1> USE DEF Inv
<1> DEFINE m == Reconciled(disk, configuration.keys)
<1>1. /\ pc = "down" /\ pc' = "starting" /\ next' = m /\ step' = "open" /\ memory' = disk
      /\ FitsLimits(configuration.keys) /\ policy' = configuration.policy
      /\ UNCHANGED <<request, todo, deliveries, disk, temporary, configuration,
                     now, failures, crashes, reloads, guarded, consumed, answered>>
  BY DEF Start, Commit, budgets, history
<1>2. step = "none" /\ todo = {} /\ deliveries = {} /\ request = NoSession
  BY <1>1 DEF TaskOK, Committing, Looping, Serving
<1>3. configuration \in Configurations /\ configuration.keys \in [Agents -> Keys \cup {NoKey}]
  BY ConfigurationType DEF CountersOK
<1>4. Sound(m) /\ m.subscriptions \subseteq disk.subscriptions
  BY <1>1, <1>3, ReconciledSound, ReconciledSubset DEF StoresSound
<1>5. \A s \in Sessions :
          /\ guarded[s] > now
          /\ disk.keys[Request[s].sender] = m.keys[Request[s].sender]
          => m.replay[s] >= guarded[s]
  BY <1>3, ReconciledProtects
<1> HIDE DEF m
<1>6. CountersOK'
  BY <1>1 DEF CountersOK
<1>7. StoresSound' /\ ReplayWindowClosed' /\ CommitProtects' /\ AnswersUnique'
  BY <1>1, <1>2, <1>4, <1>5, <1>6, CommitBegins
<1>8. TaskOK'
  BY <1>1, <1>2 DEF TaskOK, Activities, Committing, Serving, Looping
<1>9. SenderHasKey' /\ ClaimAuthorized' /\ DeliveriesAuthorized'
  BY <1>1, <1>2 DEF SenderHasKey, ClaimAuthorized, DeliveriesAuthorized
<1>10. Unanswered'
  BY <1>1, <1>2, <1>4 DEF Unanswered, Answered
<1> QED BY <1>6, <1>7, <1>8, <1>9, <1>10

LEMMA ReloadInv == ASSUME Inv, Reload PROVE Inv'
<1> USE DEF Inv
<1> DEFINE m == Reconciled(disk, configuration.keys)
<1>1. /\ pc = "idle" /\ pc' = "reloading" /\ next' = Reconciled(memory, configuration.keys)
      /\ step' = "open" /\ FitsLimits(configuration.keys)
      /\ UNCHANGED <<request, todo, deliveries, memory, disk, temporary, policy, configuration,
                     now, failures, crashes, reloads, guarded, consumed, answered>>
  BY DEF Reload, Commit, budgets, history
<1>2. step = "none" /\ memory = disk /\ todo = {} /\ deliveries = {} /\ request = NoSession
  BY <1>1 DEF TaskOK, Committing, Looping, Serving
<1>3. configuration \in Configurations /\ configuration.keys \in [Agents -> Keys \cup {NoKey}]
  BY ConfigurationType DEF CountersOK
<1>4. next' = m /\ Sound(m) /\ m.subscriptions \subseteq disk.subscriptions
  BY <1>1, <1>2, <1>3, ReconciledSound, ReconciledSubset DEF StoresSound
<1>5. \A s \in Sessions :
          /\ guarded[s] > now
          /\ disk.keys[Request[s].sender] = m.keys[Request[s].sender]
          => m.replay[s] >= guarded[s]
  BY <1>3, ReconciledProtects
<1> HIDE DEF m
<1>6. CountersOK'
  BY <1>1 DEF CountersOK
<1>7. StoresSound' /\ ReplayWindowClosed' /\ CommitProtects' /\ AnswersUnique'
  BY <1>1, <1>2, <1>4, <1>5, <1>6, CommitBegins
<1>8. TaskOK'
  BY <1>1, <1>2 DEF TaskOK, Activities, Committing, Serving, Looping
<1>9. SenderHasKey' /\ ClaimAuthorized' /\ DeliveriesAuthorized'
  BY <1>1, <1>2 DEF SenderHasKey, ClaimAuthorized, DeliveriesAuthorized
<1>10. Unanswered'
  BY <1>1, <1>2, <1>4 DEF Unanswered, Answered
<1> QED BY <1>6, <1>7, <1>8, <1>9, <1>10

-----------------------------------------------------------------------------
(***************************************************************************)
(* The rest of process, the operator and the clock.                        *)
(***************************************************************************)
\* A session let through is protected by the entry that is now on disk, and whatever
\* answered it before does not count any more.
LEMMA MarkPublishedInv == ASSUME Inv, MarkPublished PROVE Inv'
<1> USE DEF Inv
<1>1. /\ step = "publish" /\ pc = "marking" /\ pc' = "acting" /\ memory' = next
      /\ next' = EmptyState /\ step' = "none"
      /\ guarded' = [guarded EXCEPT ![request] = next.replay[request]]
      /\ consumed' = consumed \ {request} /\ answered' = {p \in answered : p[1] # request}
      /\ UNCHANGED <<request, todo, deliveries, disk, temporary, policy, configuration,
                     now, failures, crashes, reloads>>
  BY DEF MarkPublished, Published, budgets
<1>2. disk = next /\ request \in Sessions /\ todo = {} /\ deliveries = {}
  BY <1>1 DEF TaskOK, Serving, Looping
<1>3. next.keys = memory.keys /\ memory.keys[Request[request].sender] # NoKey
  BY <1>1 DEF SenderHasKey
<1>4. StoresSound'
  BY <1>1, EmptySound DEF StoresSound
<1>5. guarded' \in [Sessions -> Nat]
  BY <1>1, <1>2 DEF CountersOK, StoresSound, Sound, HasType
<1>6. CountersOK'
  BY <1>1, <1>5 DEF CountersOK
<1>7. TaskOK'
  BY <1>1, <1>2 DEF TaskOK, Activities, Committing, Serving, Looping
<1>8. SenderHasKey' /\ CommitProtects' /\ ClaimAuthorized' /\ DeliveriesAuthorized'
  BY <1>1, <1>2, <1>3 DEF SenderHasKey, CommitProtects, ClaimAuthorized, DeliveriesAuthorized
<1>9. ReplayWindowClosed'
  <2>1. \A s \in Sessions : guarded'[s] = IF s = request THEN disk.replay[s] ELSE guarded[s]
    BY <1>1, <1>2 DEF CountersOK
  <2>2. \A s \in Sessions : disk.replay[s] >= disk.replay[s]
    BY DEF StoresSound, Sound, HasType
  <2> QED BY <1>1, <2>1, <2>2 DEF ReplayWindowClosed
<1>10. \A s : Answered(s)' => Answered(s) /\ s # request
  BY <1>1 DEF Answered
<1>11. EmptyState.subscriptions = {}
  BY DEF EmptyState
<1>12. Unanswered'
  BY <1>1, <1>2, <1>10, <1>11 DEF Unanswered
<1>13. AnswersUnique'
  BY <1>1 DEF AnswersUnique
<1> QED BY <1>4, <1>6, <1>7, <1>8, <1>9, <1>12, <1>13

\* A claimed one-shot joins the deliveries when no store holds it any more.
LEMMA ClaimPublishedInv == ASSUME Inv, ClaimPublished PROVE Inv'
<1> USE DEF Inv
<1> DEFINE claimed == memory.subscriptions \ next.subscriptions
<1>1. /\ step = "publish" /\ pc = "claiming" /\ pc' = "publishing" /\ memory' = next
      /\ next' = EmptyState /\ step' = "none"
      /\ todo' = todo \ claimed /\ deliveries' = deliveries \cup claimed
      /\ UNCHANGED <<request, disk, temporary, policy, configuration,
                     now, failures, crashes, reloads, guarded, consumed, answered>>
  BY DEF ClaimPublished, Published, budgets, history
<1>2. disk = next /\ request \in Sessions
  BY <1>1 DEF TaskOK, Serving
<1>3. next.keys = memory.keys /\ next.environments = memory.environments
  BY <1>1 DEF SenderHasKey, ClaimAuthorized
<1>4. \A x \in claimed : x \in Subscriptions /\ x = Subscription(x.by) /\ Authorized(x)
  BY <1>1 DEF StoresSound, Sound, HasType, ClaimAuthorized
<1>5. \A x \in claimed : \A y \in next.subscriptions : y.by # x.by
  BY <1>4 DEF StoresSound, Sound
<1>6. \A x \in claimed : x.by \in OneShots => ~Answered(x.by)
  BY <1>1 DEF Unanswered
<1>7. todo \ claimed \subseteq next.subscriptions
  BY DEF TaskOK
<1> HIDE DEF claimed
<1>8. StoresSound'
  BY <1>1, EmptySound DEF StoresSound
<1>9. CountersOK'
  BY <1>1, <1>4 DEF CountersOK
<1>10. TaskOK'
  BY <1>1, <1>2, <1>7 DEF TaskOK, Activities, Committing, Serving, Looping
<1>11. SenderHasKey' /\ CommitProtects' /\ ClaimAuthorized' /\ ReplayWindowClosed'
  BY <1>1 DEF SenderHasKey, CommitProtects, ClaimAuthorized, ReplayWindowClosed
<1>12. \A x : Authorized(x)' <=> Authorized(x)
  BY <1>1, <1>3 DEF Authorized, HasValidEnvironment, StoredEnvironment, Valid
<1>13. DeliveriesAuthorized'
  <2>1. \A x \in deliveries \cup claimed : Authorized(x)
    BY <1>4 DEF DeliveriesAuthorized, Authorized
  <2>2. \A x \in deliveries' : Authorized(x)'
    BY <1>1, <1>12, <2>1
  <2> QED BY <2>2 DEF DeliveriesAuthorized, Authorized
<1>14. \A t : Answered(t)' <=> Answered(t)
  BY <1>1 DEF Answered
<1>15. EmptyState.subscriptions = {}
  BY DEF EmptyState
<1>16. Unanswered'
  <2>1. \A x \in deliveries \cup claimed :
            x.by \in OneShots => ~Answered(x.by) /\ \A y \in disk.subscriptions : y.by # x.by
    BY <1>2, <1>5, <1>6 DEF Unanswered
  <2>2. \A x \in disk.subscriptions : x.by \in OneShots => ~Answered(x.by)
    BY DEF Unanswered
  <2> QED BY <1>1, <1>14, <1>15, <2>1, <2>2 DEF Unanswered
<1>17. AnswersUnique'
  BY <1>1 DEF AnswersUnique
<1> QED BY <1>8, <1>9, <1>10, <1>11, <1>13, <1>16, <1>17

\* A step of a publication that leaves the store alone, and delivers at most to a
\* permanent subscription that matched.
LEMMA LoopStep ==
    ASSUME Inv, pc \in {"acting", "publishing"}, pc' = "publishing", DeliveriesAuthorized',
           todo' \subseteq memory.subscriptions,
           \A x \in deliveries' :
               \/ x \in deliveries
               \/ x \in memory.subscriptions /\ x.kind = "SubscribePermanent",
           UNCHANGED <<request, memory, disk, temporary, next, step, policy, configuration,
                       now, failures, crashes, reloads, guarded, consumed, answered>>
    PROVE  Inv'
<1> USE DEF Inv
<1>1. step = "none" /\ request \in Sessions /\ memory = disk
  BY DEF TaskOK, Committing, Serving
<1>2. \A x \in memory.subscriptions : x \in Subscriptions /\ x = Subscription(x.by)
  BY DEF StoresSound, Sound, HasType
<1>3. StoresSound' /\ TaskOK'
  BY <1>1 DEF StoresSound, TaskOK, Activities, Committing, Serving, Looping
<1>4. \A x \in todo' \cup deliveries' : x \in Subscriptions
  BY <1>2 DEF CountersOK
<1>5. CountersOK'
  BY <1>4 DEF CountersOK
<1>6. SenderHasKey' /\ CommitProtects' /\ ClaimAuthorized' /\ ReplayWindowClosed'
  BY <1>1 DEF SenderHasKey, CommitProtects, ClaimAuthorized, ReplayWindowClosed
<1>7. \A t : Answered(t)' <=> Answered(t)
  BY DEF Answered
<1>8. \A x \in memory.subscriptions : x.kind = "SubscribePermanent" => x.by \notin OneShots
  BY <1>2 DEF OneShots, Subscription
<1>9. \A x \in deliveries' :
          x.by \in OneShots => ~Answered(x.by) /\ \A y \in disk.subscriptions : y.by # x.by
  BY <1>8 DEF Unanswered
<1>10. \A x \in disk.subscriptions \cup next.subscriptions : x.by \in OneShots => ~Answered(x.by)
  BY DEF Unanswered
<1>11. Unanswered'
  BY <1>7, <1>9, <1>10 DEF Unanswered
<1>12. AnswersUnique'
  BY DEF AnswersUnique
<1> QED BY <1>3, <1>5, <1>6, <1>11, <1>12

LEMMA ActPublishInv == ASSUME Inv, ActPublish PROVE Inv'
<1>1. /\ pc = "acting" /\ pc' = "publishing"
      /\ todo' = {x \in memory.subscriptions : x.type = Request[request].type}
      /\ UNCHANGED <<request, deliveries, memory, disk, temporary, next, step, policy,
                     configuration, now, failures, crashes, reloads, guarded, consumed, answered>>
  BY DEF ActPublish, file, budgets, history
<1>2. deliveries = {}
  BY <1>1 DEF Inv, TaskOK, Looping
<1>3. DeliveriesAuthorized'
  BY <1>1, <1>2 DEF DeliveriesAuthorized
<1> QED BY <1>1, <1>3, LoopStep

LEMMA PublishSkipInv == ASSUME Inv, NEW x \in todo, PublishSkip(x) PROVE Inv'
<1>1. /\ pc = "publishing" /\ pc' = pc /\ todo' = todo \ {x}
      /\ UNCHANGED <<request, deliveries, memory, disk, temporary, next, step, policy,
                     configuration, now, failures, crashes, reloads, guarded, consumed, answered>>
  BY DEF PublishSkip, First, file, budgets, history
<1>2. DeliveriesAuthorized'
  BY <1>1 DEF Inv, DeliveriesAuthorized, HasValidEnvironment, StoredEnvironment, Valid
<1>3. todo' \subseteq memory.subscriptions
  BY <1>1 DEF Inv, TaskOK
<1> QED BY <1>1, <1>2, <1>3, LoopStep

LEMMA PublishPermanentInv == ASSUME Inv, NEW x \in todo, PublishPermanent(x) PROVE Inv'
<1>1. /\ pc = "publishing" /\ pc' = pc /\ todo' = todo \ {x} /\ deliveries' = deliveries \cup {x}
      /\ x.kind = "SubscribePermanent" /\ x \in memory.subscriptions
      /\ UNCHANGED <<request, memory, disk, temporary, next, step, policy,
                     configuration, now, failures, crashes, reloads, guarded, consumed, answered>>
  BY DEF PublishPermanent, First, file, budgets, history
<1>2. Authorized(x)
  BY DEF PublishPermanent, Authorized, Matches, HasValidEnvironment
<1>3. DeliveriesAuthorized'
  BY <1>1, <1>2 DEF Inv, DeliveriesAuthorized, Authorized, HasValidEnvironment,
                    StoredEnvironment, Valid
<1>4. todo' \subseteq memory.subscriptions
  BY <1>1 DEF Inv, TaskOK
<1> QED BY <1>1, <1>3, <1>4, LoopStep

\* The passing of time, a new configuration file and a stuttering step.
LEMMA IdleStep ==
    ASSUME Inv, CountersOK', now' >= now,
           UNCHANGED <<pc, request, todo, deliveries, memory, disk, temporary, next, step, policy,
                       guarded, consumed, answered>>
    PROVE  Inv'
<1> USE DEF Inv
<1>1. StoresSound' /\ TaskOK' /\ SenderHasKey'
  BY DEF StoresSound, TaskOK, SenderHasKey
<1>2. \A s \in Sessions : guarded[s] > now' => guarded[s] > now
  BY DEF CountersOK
<1>3. ReplayWindowClosed' /\ CommitProtects'
  BY <1>2 DEF ReplayWindowClosed, CommitProtects
<1>4. ClaimAuthorized' /\ DeliveriesAuthorized'
  BY DEF ClaimAuthorized, DeliveriesAuthorized, Authorized, HasValidEnvironment,
         StoredEnvironment, Valid
<1>5. Unanswered' /\ AnswersUnique'
  BY DEF Unanswered, AnswersUnique, Answered
<1> QED BY <1>1, <1>3, <1>4, <1>5

LEMMA ConfigureInv == ASSUME Inv, NEW c \in Configurations, Configure(c) PROVE Inv'
<1>1. CountersOK' /\ now' >= now
  BY DEF Configure, Inv, CountersOK, history
<1> QED BY <1>1, IdleStep DEF Configure, history, file

LEMMA TickInv == ASSUME Inv, Tick PROVE Inv'
<1>1. CountersOK' /\ now' >= now
  BY DEF Tick, Inv, CountersOK, history
<1> QED BY <1>1, IdleStep DEF Tick, history, file

LEMMA StutterInv == ASSUME Inv, UNCHANGED vars PROVE Inv'
<1>1. CountersOK' /\ now' >= now
  BY DEF vars, Inv, CountersOK, history, budgets
<1> QED BY <1>1, IdleStep DEF vars, history, file

-----------------------------------------------------------------------------
(***************************************************************************)
(* The theorems.                                                           *)
(***************************************************************************)
LEMMA InitInv == ASSUME Init PROVE Inv
<1> USE DEF Init
<1>1. StoresSound
  BY EmptySound DEF StoresSound
<1>2. TaskOK
  BY DEF TaskOK, Activities, Committing, Serving, Looping
<1>3. CountersOK
  BY DEF CountersOK
<1>4. SenderHasKey /\ ReplayWindowClosed /\ CommitProtects
  BY DEF SenderHasKey, ReplayWindowClosed, CommitProtects
<1>5. ClaimAuthorized /\ DeliveriesAuthorized
  BY DEF ClaimAuthorized, DeliveriesAuthorized
<1>6. Unanswered /\ AnswersUnique
  BY DEF Unanswered, AnswersUnique, Answered, EmptyState
<1> QED BY <1>1, <1>2, <1>3, <1>4, <1>5, <1>6 DEF Inv

LEMMA NextInv == ASSUME Inv, [Next]_vars PROVE Inv'
<1>1. CASE CommitStep
  BY <1>1, OpenTemporaryInv, WriteTemporaryInv, RenameTemporaryInv DEF CommitStep
<1>2. CASE FileFailure \/ Crash \/ Tick \/ UNCHANGED vars
  BY <1>2, FileFailureInv, CrashInv, TickInv, StutterInv
<1>3. CASE \E s \in Sessions : Receive(s)
  BY <1>3, ReceiveInv
<1>4. CASE MarkPublished \/ ActSetEnvironment \/ ActSubscribe \/ StorePublished
  BY <1>4, MarkPublishedInv, ActSetEnvironmentInv, ActSubscribeInv, StorePublishedInv
<1>5. CASE ActPublish \/ ActRejected \/ ClaimPublished \/ PublishDone
  BY <1>5, ActPublishInv, ActRejectedInv, ClaimPublishedInv, PublishDoneInv
<1>6. CASE \E x \in todo : PublishSkip(x) \/ PublishPermanent(x) \/ PublishOneShot(x)
  BY <1>6, PublishSkipInv, PublishPermanentInv, PublishOneShotInv
<1>7. CASE \E x \in todo : DeliveryFailure(x)
  BY <1>7, DeliveryFailureInv
<1>8. CASE Start \/ StartPublished \/ Reload \/ ReloadPublished
  BY <1>8, StartInv, StartPublishedInv, ReloadInv, ReloadPublishedInv
<1>9. CASE \E c \in Configurations : Configure(c)
  BY <1>9, ConfigureInv
<1> QED BY <1>1, <1>2, <1>3, <1>4, <1>5, <1>6, <1>7, <1>8, <1>9 DEF Next, ProcessStep

LEMMA AlwaysInv == Spec => []Inv
<1>1. Init => Inv
  BY InitInv
<1>2. Inv /\ [Next]_vars => Inv'
  BY NextInv
<1> QED BY <1>1, <1>2, PTL DEF Spec

\* The store keeps its shape and never outgrows its limits, in memory or on disk, so a
\* restart always finds a snapshot that decodes (check_and_mark, put_subscription,
\* put_environment and reconcile_agents against decode_state).
THEOREM TypeCorrect == Spec => []TypeOK
<1>1. Inv => TypeOK
  <2> SUFFICES ASSUME Inv PROVE TypeOK
    OBVIOUS
  <2>1. request \in Sessions \cup {NoSession}
    BY DEF Inv, TaskOK
  <2> QED BY <2>1 DEF Inv, TypeOK, TaskOK, CountersOK, StoresSound, Sound
<1> QED BY <1>1, AlwaysInv, PTL

\* What cad serves from is what a restart would read back, except between the rename of
\* the snapshot and the publication of the new state in memory, however commits fail.
THEOREM DurableMatches == Spec => []DurableMatchesMemory
<1>1. Inv => DurableMatchesMemory
  BY DEF Inv, TaskOK, DurableMatchesMemory
<1> QED BY <1>1, AlwaysInv, PTL

\* A session that was let through stays in the snapshot until its time to live is over,
\* through failed commits, reloads, crashes and restarts, while its sender keeps its key.
THEOREM ReplayClosed == Spec => []ReplayWindowClosed
<1>1. Inv => ReplayWindowClosed
  BY DEF Inv
<1> QED BY <1>1, AlwaysInv, PTL

\* A one-shot subscription answers at most one publication, and is out of the snapshot
\* by the time it does, whatever fails in between.
THEOREM OneShotOnce == Spec => []OneShotAnsweredOnce
<1>1. Inv => OneShotAnsweredOnce
  BY DEF Inv, OneShotAnsweredOnce, Unanswered, AnswersUnique, Answered, OneShots
<1> QED BY <1>1, AlwaysInv, PTL

\* Nothing is stored for an Agent without a key, so the loop of a publication never
\* meets a subscriber it cannot encrypt for.
THEOREM StoredByConfigured == Spec => []StoredByConfiguredAgent
<1>1. Inv => StoredByConfiguredAgent
  BY DEF Inv, StoredByConfiguredAgent, StoresSound, Sound, OwnersConfigured
<1> QED BY <1>1, AlwaysInv, PTL

\* Every subscription the loop of a publication has still to visit is in the store and
\* its subscriber has a key: neither the lookup of the key nor the claim of a one-shot
\* finds it missing, since no reload interleaves with process.
THEOREM LoopFindsEntries ==
    Spec => [](\A x \in todo : x \in memory.subscriptions /\ memory.keys[x.subscriber] # NoKey)
<1>1. Inv => \A x \in todo : x \in memory.subscriptions /\ memory.keys[x.subscriber] # NoKey
  <2> SUFFICES ASSUME Inv, NEW x \in todo
               PROVE  x \in memory.subscriptions /\ memory.keys[x.subscriber] # NoKey
    OBVIOUS
  <2>1. x \in memory.subscriptions
    BY DEF Inv, TaskOK
  <2>2. x.subscriber \in Agents
    BY <2>1 DEF Inv, StoresSound, Sound, HasType, Subscriptions
  <2> QED BY <2>1, <2>2 DEF Inv, StoresSound, Sound, OwnersConfigured
<1> QED BY <1>1, AlwaysInv, PTL

\* Every delivery goes to an Agent with a key and an environment valid under the policy
\* in force, although both were stored under an earlier one.
THEOREM DeliveriesAllowed == Spec => []DeliveriesAuthorized
<1>1. Inv => DeliveriesAuthorized
  BY DEF Inv
<1> QED BY <1>1, AlwaysInv, PTL
=============================================================================
