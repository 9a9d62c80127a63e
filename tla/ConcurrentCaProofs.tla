------------------------- MODULE ConcurrentCaProofs -------------------------
(***************************************************************************)
(* Proofs about ConcurrentCa: any number of callers, any requests and any  *)
(* limits, whatever policies, keys and times come in between.              *)
(***************************************************************************)
EXTENDS ConcurrentCa, EnvironmentPolicyProofs, FiniteSetTheorems

-----------------------------------------------------------------------------
(***************************************************************************)
(* The inductive invariant.                                                *)
(***************************************************************************)
Fields == {"at", "session", "now", "own", "other", "todo", "deliveries", "policies",
           "snapshot", "disturbed"}
Publishes == {"snapshot", "visit", "authorize", "seal", "claim"}

\* The entry a publication visits next.
Least(todo) ==
    CHOOSE x \in todo :
        \A y \in todo : \/ x.subscriber < y.subscriber
                        \/ x.subscriber = y.subscriber /\ x.handler <= y.handler

\* Some policy that call r has met allows the delivery to x.
Justified(r, x) ==
    \E p \in r.policies :
        AuthorizedByApprovals(p, Request[r.session].sender, x.subscriber, Request[r.session].type)

\* What is known of a call r while policy p is in force.
CallOK(r, p) ==
    /\ DOMAIN r = Fields /\ r.at \in Positions
    /\ r.at # "idle" => r.session \in Sessions
    /\ r.at = "idle" => r = NoCall
    /\ r.at = "mark" => r.now \in Nat
    /\ r.at = "validate" => Request[r.session].operation # "Malformed"
    /\ r.at = "put" => Request[r.session].operation \in Subscribes
    /\ r.at \in Publishes => Request[r.session].operation = "Publish"
    /\ IsSequence(r.own) /\ IsSequence(r.other) /\ r.todo \subseteq Entries
    /\ r.policies \subseteq Policies
    /\ r.at # "idle" /\ Request[r.session].operation = "Publish" => p \in r.policies
    /\ r.at \in {"seal", "claim"} /\ r.todo # {} => Justified(r, Least(r.todo))
    /\ \A x \in r.deliveries : Justified(r, x)

CallsOK ==
    /\ policy \in Policies /\ DOMAIN call = Callers /\ call = [c \in Callers |-> call[c]]
    /\ \A c \in Callers : CallOK(call[c], policy)

StoreOK ==
    /\ DOMAIN environments = Agents /\ environments = [a \in Agents |-> environments[a]]
    /\ \A a \in Agents : IsSequence(environments[a])
    /\ subscriptions \subseteq Entries
    /\ replay \in [Sessions -> Nat] /\ clock \in Nat

HistoryOK ==
    /\ puts \in [Entries -> Nat] /\ answers \in [Entries -> Nat]
    /\ guarded \in [Sessions -> Nat] /\ reached \in Nat

Inv == CallsOK /\ StoreOK /\ HistoryOK /\ OneShotPerPut /\ ReplayUntilExpiry

-----------------------------------------------------------------------------
(***************************************************************************)
(* Entries and calls.                                                      *)
(***************************************************************************)
\* A stored subscription belongs to an Agent and has a handler.
LEMMA EntryType ==
    ASSUME NEW e \in Entries
    PROVE  e.subscriber \in Nat /\ e.subscriber \in Agents /\ e.handler \in Nat
<1>1. PICK s \in Sessions : e = Entry(s)
  BY DEF Entries
<1>2. e.subscriber = Request[s].sender /\ e.handler = Request[s].handler
  BY <1>1 DEF Entry
<1> QED BY <1>2, AgentAssumption, RequestAssumption

\* The loop of a publication always finds the entry it visits next.
LEMMA LeastExists ==
    ASSUME NEW T, T \subseteq Entries, T # {}
    PROVE  Least(T) \in T
<1> DEFINE Sub == {x.subscriber : x \in T}
<1>1. Sub \subseteq Nat /\ Sub # {}
  BY EntryType
<1>2. PICK n \in Sub : \A k \in Sub : n <= k
  BY <1>1, LeastNatural
<1> DEFINE Han == {x.handler : x \in {y \in T : y.subscriber = n}}
<1>3. Han \subseteq Nat /\ Han # {}
  BY <1>2, EntryType
<1>4. PICK h \in Han : \A k \in Han : h <= k
  BY <1>3, LeastNatural
<1>5. PICK x \in T : x.subscriber = n /\ x.handler = h
  BY <1>4
<1>6. ASSUME NEW y \in T
      PROVE  \/ x.subscriber < y.subscriber
             \/ x.subscriber = y.subscriber /\ x.handler <= y.handler
  <2>1. y.subscriber \in Nat /\ y.handler \in Nat /\ x.subscriber \in Nat /\ x.handler \in Nat
    BY EntryType
  <2>2. n <= y.subscriber
    BY <1>2
  <2>3. y.subscriber = n => h <= y.handler
    BY <1>4
  <2>4. CASE y.subscriber = n
    BY <1>5, <2>3, <2>4
  <2>5. CASE y.subscriber # n
    BY <1>1, <1>5, <2>1, <2>2, <2>5
  <2> QED BY <2>4, <2>5
<1> QED BY <1>5, <1>6 DEF Least

LEMMA NoCallOK == ASSUME NEW p PROVE CallOK(NoCall, p)
<1>1. IsSequence(NoEnvironment)
  BY DEF NoEnvironment, IsSequence
<1> QED BY <1>1 DEF CallOK, NoCall, Fields, Publishes, Positions

\* A step that changes one call.
LEMMA OneCall ==
    ASSUME CallsOK, NEW c \in Callers, NEW r, CallOK(r, policy),
           call' = [call EXCEPT ![c] = r], policy' = policy
    PROVE  CallsOK'
<1>1. \A d \in Callers : call'[d] = IF d = c THEN r ELSE call[d]
  BY DEF CallsOK
<1>2. DOMAIN call' = Callers /\ call' = [d \in Callers |-> call'[d]]
  BY DEF CallsOK
<1>3. \A d \in Callers : CallOK(call'[d], policy)
  BY <1>1 DEF CallsOK
<1> QED BY <1>2, <1>3 DEF CallsOK

\* Noting what happened does not make a call less well formed.
LEMMA Disturbed ==
    ASSUME NEW r, NEW p, CallOK(r, p)
    PROVE  CallOK(IF r # NoCall /\ Request[r.session].operation = "Publish"
                  THEN [r EXCEPT !.disturbed = TRUE] ELSE r, p)
<1>1. CASE r # NoCall /\ Request[r.session].operation = "Publish"
  <2> DEFINE q == [r EXCEPT !.disturbed = TRUE]
  <2>1. /\ DOMAIN q = Fields /\ q.at = r.at /\ q.session = r.session /\ q.now = r.now
        /\ q.own = r.own /\ q.other = r.other /\ q.todo = r.todo
        /\ q.deliveries = r.deliveries /\ q.policies = r.policies
    BY DEF CallOK, Fields
  <2>2. r.at # "idle"
    BY <1>1 DEF CallOK
  <2>3. \A x : Justified(q, x) <=> Justified(r, x)
    BY <2>1 DEF Justified
  <2>4. CallOK(q, p)
    BY <2>1, <2>2, <2>3 DEF CallOK
  <2> QED BY <1>1, <2>4
<1>2. CASE ~(r # NoCall /\ Request[r.session].operation = "Publish")
  BY <1>2
<1> QED BY <1>1, <1>2

LEMMA DisturbingCall ==
    ASSUME CallsOK, NEW c \in Callers, NEW r, CallOK(r, policy), Disturbs(c, r), policy' = policy
    PROVE  CallsOK'
<1>1. \A d \in Callers \ {c} : CallOK(call'[d], policy)
  BY Disturbed DEF Disturbs, Publishing, R, CallsOK
<1>2. call'[c] = r
  BY DEF Disturbs
<1>3. DOMAIN call' = Callers /\ call' = [d \in Callers |-> call'[d]]
  BY DEF Disturbs
<1> QED BY <1>1, <1>2, <1>3 DEF CallsOK

\* A step of one caller that touches neither the store nor the policy.
LEMMA Quiet ==
    ASSUME Inv, CallsOK', UNCHANGED <<store, budgets, history>>
    PROVE  Inv'
<1>1. StoreOK' /\ HistoryOK'
  BY DEF Inv, StoreOK, HistoryOK, store, budgets, history
<1>2. OneShotPerPut' /\ ReplayUntilExpiry'
  BY DEF Inv, OneShotPerPut, ReplayUntilExpiry, store, history
<1> QED BY <1>1, <1>2 DEF Inv

\* A call that returns leaves the others as they are.
LEMMA ReturnOK ==
    ASSUME CallsOK, NEW c \in Callers, Returns(c), policy' = policy
    PROVE  CallsOK'
BY NoCallOK, OneCall DEF Returns

\* What is known of the call of c.
LEMMA CallOf ==
    ASSUME CallsOK, NEW c \in Callers
    PROVE  CallOK(call[c], policy) /\ (call[c].at = "idle" <=> call[c] = NoCall)
BY DEF CallsOK, CallOK, NoCall

-----------------------------------------------------------------------------
(***************************************************************************)
(* Authentication and replay protection preserve the invariant.            *)
(***************************************************************************)
LEMMA BeginInv == ASSUME Inv, NEW c \in Callers, NEW s \in Sessions, Begin(c, s) PROVE Inv'
<1> DEFINE ps == IF Request[s].operation = "Publish" THEN {policy} ELSE {}
           q  == [NoCall EXCEPT !.at = "mark", !.session = s, !.now = clock, !.policies = ps]
<1>1. call' = [call EXCEPT ![c] = q] /\ UNCHANGED <<store, policy, budgets, history>>
  BY DEF Begin
<1>2. /\ DOMAIN q = Fields /\ q.at = "mark" /\ q.session = s /\ q.now = clock
      /\ q.own = NoEnvironment /\ q.other = NoEnvironment /\ q.todo = {}
      /\ q.deliveries = {} /\ q.policies = ps
  BY DEF NoCall, Fields
<1>3. IsSequence(NoEnvironment)
  BY DEF NoEnvironment, IsSequence
<1>4. policy \in Policies /\ clock \in Nat
  BY DEF Inv, CallsOK, StoreOK
<1>5. ps \subseteq Policies /\ (Request[s].operation = "Publish" => policy \in ps)
  BY <1>4
<1> HIDE DEF ps, q
<1>6. CallOK(q, policy)
  BY <1>2, <1>3, <1>4, <1>5 DEF CallOK, Publishes, Positions
<1>7. CallsOK'
  BY <1>1, <1>6, OneCall DEF Inv
<1> QED BY <1>1, <1>7, Quiet

\* The cache keeps what the time it is asked about has not reached.
LEMMA UnexpiredKept ==
    ASSUME Inv, NEW now \in Nat, Reaches(now)
    PROVE  /\ reached' \in Nat /\ Unexpired(now) \in [Sessions -> Nat]
           /\ \A s \in Sessions : guarded[s] > reached' => Unexpired(now)[s] = guarded[s]
<1>1. reached \in Nat /\ guarded \in [Sessions -> Nat] /\ replay \in [Sessions -> Nat]
  BY DEF Inv, StoreOK, HistoryOK
<1>2. reached' \in Nat /\ reached' >= reached /\ reached' >= now
  BY <1>1 DEF Reaches
<1>3. Unexpired(now) \in [Sessions -> Nat]
  BY <1>1 DEF Unexpired
<1>4. ASSUME NEW s \in Sessions, guarded[s] > reached'
      PROVE  Unexpired(now)[s] = guarded[s]
  <2>1. guarded[s] \in Nat /\ replay[s] \in Nat
    BY <1>1
  <2>2. guarded[s] > reached /\ guarded[s] > now
    BY <1>1, <1>2, <1>4, <2>1
  <2>3. replay[s] = guarded[s]
    BY <2>2 DEF Inv, ReplayUntilExpiry
  <2> QED BY <2>2, <2>3 DEF Unexpired
<1> QED BY <1>2, <1>3, <1>4

LEMMA MarkInv == ASSUME Inv, NEW c \in Callers, Mark(c) PROVE Inv'
<1> DEFINE r == call[c]
           q == [r EXCEPT !.at = "act", !.now = 0]
<1>1. CallOK(r, policy) /\ r.at = "mark"
  BY CallOf DEF Inv, Mark
<1>2. r.session \in Sessions /\ r.now \in Nat
  BY <1>1 DEF CallOK
<1>3. /\ DOMAIN q = Fields /\ q.at = "act" /\ q.session = r.session
      /\ q.own = r.own /\ q.other = r.other /\ q.todo = r.todo
      /\ q.deliveries = r.deliveries /\ q.policies = r.policies
  BY <1>1 DEF CallOK, Fields
<1>4. call' = [call EXCEPT ![c] = q]
  BY DEF Mark, Inv, CallsOK
<1>5. \A x : Justified(q, x) <=> Justified(r, x)
  BY <1>3 DEF Justified
<1> HIDE DEF q
<1>6. CallOK(q, policy)
  BY <1>1, <1>3, <1>5 DEF CallOK, Publishes, Positions
<1>7. CallsOK'
  BY <1>4, <1>6, OneCall DEF Mark, Inv
<1> DEFINE end == r.now + ReplayTtl
<1>8. /\ replay' = [Unexpired(r.now) EXCEPT ![r.session] = end]
      /\ guarded' = [guarded EXCEPT ![r.session] = end] /\ Reaches(r.now)
      /\ UNCHANGED <<environments, subscriptions, clock, puts, answers>>
  BY DEF Mark, budgets
<1>9. end \in Nat
  BY <1>2, LimitAssumption
<1> HIDE DEF end
<1>10. /\ reached' \in Nat /\ Unexpired(r.now) \in [Sessions -> Nat]
       /\ \A s \in Sessions : guarded[s] > reached' => Unexpired(r.now)[s] = guarded[s]
  BY <1>2, <1>8, UnexpiredKept
<1>11. guarded \in [Sessions -> Nat]
  BY DEF Inv, HistoryOK
<1>12. replay' \in [Sessions -> Nat] /\ guarded' \in [Sessions -> Nat]
  BY <1>8, <1>9, <1>10, <1>11
<1>13. ReplayUntilExpiry'
  <2>1. SUFFICES ASSUME NEW s \in Sessions, guarded'[s] > reached' PROVE replay'[s] = guarded'[s]
    BY DEF ReplayUntilExpiry
  <2>2. CASE s = r.session
    BY <1>2, <1>8, <1>10, <1>11, <2>2
  <2>3. CASE s # r.session
    <3>1. guarded'[s] = guarded[s] /\ replay'[s] = Unexpired(r.now)[s]
      BY <1>8, <1>10, <1>11, <2>3
    <3> QED BY <1>10, <2>1, <3>1
  <2> QED BY <2>2, <2>3
<1>14. StoreOK' /\ HistoryOK'
  BY <1>8, <1>10, <1>12 DEF Inv, StoreOK, HistoryOK
<1>15. OneShotPerPut'
  BY <1>8 DEF Inv, OneShotPerPut
<1> QED BY <1>7, <1>13, <1>14, <1>15 DEF Inv

LEMMA MarkRefusedInv == ASSUME Inv, NEW c \in Callers, MarkRefused(c) PROVE Inv'
<1>1. call[c].at = "mark" /\ call[c].now \in Nat
  BY CallOf DEF Inv, MarkRefused, CallOK
<1>2. /\ replay' = Unexpired(call[c].now) /\ Reaches(call[c].now) /\ Returns(c)
      /\ UNCHANGED <<environments, subscriptions, policy, clock, puts, answers, guarded>>
  BY DEF MarkRefused, budgets
<1>3. CallsOK'
  BY <1>2, ReturnOK DEF Inv
<1>4. /\ reached' \in Nat /\ replay' \in [Sessions -> Nat]
      /\ \A s \in Sessions : guarded[s] > reached' => replay'[s] = guarded[s]
  BY <1>1, <1>2, UnexpiredKept
<1>5. StoreOK' /\ HistoryOK'
  BY <1>2, <1>4 DEF Inv, StoreOK, HistoryOK
<1>6. OneShotPerPut' /\ ReplayUntilExpiry'
  BY <1>2, <1>4 DEF Inv, OneShotPerPut, ReplayUntilExpiry
<1> QED BY <1>3, <1>5, <1>6 DEF Inv

-----------------------------------------------------------------------------
(***************************************************************************)
(* The operations, up to what they store or visit.                         *)
(***************************************************************************)
LEMMA ActInv == ASSUME Inv, NEW c \in Callers, Act(c) PROVE Inv'
<1> DEFINE r   == call[c]
           own == IF R(c).operation = "SetEnvironment" THEN R(c).environment
                  ELSE environments[R(c).sender]
           q   == [r EXCEPT !.at = "validate", !.own = own]
<1>1. CallOK(r, policy) /\ r.at = "act" /\ R(c).operation # "Malformed"
  BY CallOf DEF Inv, Act
<1>2. call' = [call EXCEPT ![c] = q] /\ UNCHANGED <<store, policy, budgets, history>>
  BY DEF Act, Inv, CallsOK
<1>3. IsSequence(own)
  <2>1. r.session \in Sessions
    BY <1>1 DEF CallOK
  <2> QED BY <2>1, RequestAssumption DEF R, Inv, StoreOK
<1>4. /\ DOMAIN q = Fields /\ q.at = "validate" /\ q.session = r.session
      /\ q.own = own /\ q.other = r.other /\ q.todo = r.todo
      /\ q.deliveries = r.deliveries /\ q.policies = r.policies
  BY <1>1 DEF CallOK, Fields
<1>5. \A x : Justified(q, x) <=> Justified(r, x)
  BY <1>4 DEF Justified
<1> HIDE DEF q, own
<1>6. CallOK(q, policy)
  BY <1>1, <1>3, <1>4, <1>5 DEF CallOK, Publishes, Positions, R
<1>7. CallsOK'
  BY <1>2, <1>6, OneCall DEF Inv
<1> QED BY <1>2, <1>7, Quiet

LEMMA ActRefusedInv == ASSUME Inv, NEW c \in Callers, ActRefused(c) PROVE Inv'
BY ReturnOK, Quiet DEF Inv, ActRefused

\* A call that goes on where it may be, with the same data.
LEMMA GoesOK ==
    ASSUME CallsOK, NEW c \in Callers, call[c] # NoCall, NEW at, Goes(c, at), policy' = policy,
           at \in Positions \ {"idle", "mark", "validate"},
           at = "put" => R(c).operation \in Subscribes,
           at \in Publishes => R(c).operation = "Publish",
           at \in {"seal", "claim"} => Justified(call[c], Visited(c))
    PROVE  CallsOK'
<1> DEFINE r == call[c]
           q == [r EXCEPT !.at = at]
<1>1. CallOK(r, policy) /\ r.at # "idle"
  BY CallOf
<1>2. call' = [call EXCEPT ![c] = q]
  BY DEF Goes, CallsOK
<1>3. /\ DOMAIN q = Fields /\ q.at = at /\ q.session = r.session
      /\ q.own = r.own /\ q.other = r.other /\ q.todo = r.todo
      /\ q.deliveries = r.deliveries /\ q.policies = r.policies
  BY <1>1 DEF CallOK, Fields
<1>4. \A x : Justified(q, x) <=> Justified(r, x)
  BY <1>3 DEF Justified
<1>5. Visited(c) = Least(r.todo)
  BY DEF Visited, Least
<1> HIDE DEF q
<1>6. CallOK(q, policy)
  BY <1>1, <1>3, <1>4, <1>5 DEF CallOK, R
<1> QED BY <1>2, <1>6, OneCall

LEMMA ValidateInv == ASSUME Inv, NEW c \in Callers, Validate(c) PROVE Inv'
<1> DEFINE at == CASE R(c).operation = "SetEnvironment" -> "store"
                   [] R(c).operation = "Publish" -> "snapshot"
                   [] OTHER -> "put"
<1>1. call[c].at = "validate" /\ (Goes(c, at) \/ Returns(c))
      /\ UNCHANGED <<store, policy, budgets, history>>
  BY DEF Validate
<1>2. call[c].session \in Sessions /\ R(c).operation # "Malformed" /\ call[c] # NoCall
  BY <1>1, CallOf DEF Inv, CallOK, R, NoCall
<1>3. R(c).operation \in Subscribes \cup {"SetEnvironment", "Publish"}
  BY <1>2, RequestAssumption DEF Operations, R
<1>4. /\ at \in {"store", "snapshot", "put"}
      /\ at = "put" => R(c).operation \in Subscribes
      /\ at = "snapshot" => R(c).operation = "Publish"
  BY <1>3
<1> HIDE DEF at
<1>5. CASE Goes(c, at)
  <2>1. CallsOK'
    BY <1>1, <1>2, <1>4, <1>5, GoesOK DEF Inv, Publishes, Positions
  <2> QED BY <1>1, <2>1, Quiet
<1>6. CASE Returns(c)
  BY <1>1, <1>6, ReturnOK, Quiet DEF Inv
<1> QED BY <1>1, <1>5, <1>6

LEMMA StoreEnvironmentInv == ASSUME Inv, NEW c \in Callers, StoreEnvironment(c) PROVE Inv'
<1>1. UNCHANGED <<keys, subscriptions, replay, policy, budgets, history>>
  BY DEF StoreEnvironment
<1>2. CASE MaySetEnvironment(R(c).sender)
  <2>1. /\ environments' = [environments EXCEPT ![R(c).sender] = call[c].own]
        /\ Disturbs(c, NoCall)
    BY <1>2 DEF StoreEnvironment
  <2>2. CallsOK'
    BY <1>1, <2>1, NoCallOK, DisturbingCall DEF Inv
  <2>3. IsSequence(call[c].own)
    BY CallOf DEF Inv, CallOK
  <2>4. StoreOK'
    BY <1>1, <2>1, <2>3 DEF Inv, StoreOK, budgets
  <2>5. HistoryOK' /\ OneShotPerPut' /\ ReplayUntilExpiry'
    BY <1>1 DEF Inv, HistoryOK, OneShotPerPut, ReplayUntilExpiry, history
  <2> QED BY <2>2, <2>4, <2>5 DEF Inv
<1>3. CASE ~MaySetEnvironment(R(c).sender)
  <2>1. Returns(c) /\ UNCHANGED environments
    BY <1>3 DEF StoreEnvironment
  <2> QED BY <1>1, <2>1, ReturnOK, Quiet DEF Inv, store
<1> QED BY <1>2, <1>3

LEMMA PutInv == ASSUME Inv, NEW c \in Callers, Put(c) PROVE Inv'
<1> DEFINE e == Entry(call[c].session)
<1>1. /\ call[c].at = "put" /\ subscriptions' = {x \in subscriptions : ~SameSlot(x, e)} \cup {e}
      /\ puts' = [puts EXCEPT ![e] = @ + 1] /\ Disturbs(c, NoCall)
      /\ UNCHANGED <<environments, replay, policy, clock, answers, guarded, reached>>
  BY DEF Put, budgets
<1>2. e \in Entries
  <2>1. call[c].session \in Sessions /\ Request[call[c].session].operation \in Subscribes
    BY <1>1, CallOf DEF Inv, CallOK
  <2> QED BY <2>1 DEF Entries
<1> HIDE DEF e
<1>3. puts \in [Entries -> Nat] /\ answers \in [Entries -> Nat] /\ subscriptions \subseteq Entries
  BY DEF Inv, HistoryOK, StoreOK
<1>4. CallsOK'
  BY <1>1, NoCallOK, DisturbingCall DEF Inv
<1>5. StoreOK' /\ HistoryOK'
  BY <1>1, <1>2, <1>3 DEF Inv, StoreOK, HistoryOK
<1>6. OneShotPerPut'
  <2>1. SUFFICES ASSUME NEW f \in Entries, f.kind = "Subscribe"
                 PROVE  answers[f] + (IF f \in subscriptions' THEN 1 ELSE 0) <= puts'[f]
    BY <1>1 DEF OneShotPerPut
  <2>2. answers[f] + (IF f \in subscriptions THEN 1 ELSE 0) <= puts[f]
    BY <2>1 DEF Inv, OneShotPerPut
  <2>3. answers[f] \in Nat /\ puts[f] \in Nat
    BY <1>3
  <2>4. CASE f = e
    <3>1. puts'[f] = puts[f] + 1
      BY <1>1, <1>3, <2>4
    <3> QED BY <2>2, <2>3, <3>1
  <2>5. CASE f # e
    <3>1. puts'[f] = puts[f] /\ (f \in subscriptions' => f \in subscriptions)
      BY <1>1, <1>3, <2>5
    <3> QED BY <2>2, <2>3, <3>1
  <2> QED BY <2>4, <2>5
<1>7. ReplayUntilExpiry'
  BY <1>1 DEF Inv, ReplayUntilExpiry
<1> QED BY <1>4, <1>5, <1>6, <1>7 DEF Inv

LEMMA PutRefusedInv == ASSUME Inv, NEW c \in Callers, PutRefused(c) PROVE Inv'
BY ReturnOK, Quiet DEF Inv, PutRefused

LEMMA SnapshotInv == ASSUME Inv, NEW c \in Callers, Snapshot(c) PROVE Inv'
<1> DEFINE r      == call[c]
           bucket == {x \in subscriptions : x.type = R(c).type}
           q      == [r EXCEPT !.at = "visit", !.todo = bucket, !.snapshot = bucket]
<1>1. CallOK(r, policy) /\ r.at = "snapshot"
  BY CallOf DEF Inv, Snapshot
<1>2. call' = [call EXCEPT ![c] = q] /\ UNCHANGED <<store, policy, budgets, history>>
  BY DEF Snapshot, Inv, CallsOK
<1>3. bucket \subseteq Entries
  BY DEF Inv, StoreOK
<1>4. /\ DOMAIN q = Fields /\ q.at = "visit" /\ q.session = r.session
      /\ q.own = r.own /\ q.other = r.other /\ q.todo = bucket
      /\ q.deliveries = r.deliveries /\ q.policies = r.policies
  BY <1>1 DEF CallOK, Fields
<1>5. \A x : Justified(q, x) <=> Justified(r, x)
  BY <1>4 DEF Justified
<1> HIDE DEF q, bucket
<1>6. CallOK(q, policy)
  BY <1>1, <1>3, <1>4, <1>5 DEF CallOK, Publishes, Positions
<1>7. CallsOK'
  BY <1>2, <1>6, OneCall DEF Inv
<1> QED BY <1>2, <1>7, Quiet

-----------------------------------------------------------------------------
(***************************************************************************)
(* The loop of a publication over its snapshot.                            *)
(***************************************************************************)
\* Passing over an entry.
LEMMA SkipOK ==
    ASSUME CallsOK, NEW c \in Callers, call[c].at \in Publishes, Skips(c), policy' = policy
    PROVE  CallsOK'
<1> DEFINE r == call[c]
           q == [r EXCEPT !.at = "visit", !.todo = @ \ {Visited(c)}, !.other = NoEnvironment]
<1>1. CallOK(r, policy)
  BY CallOf
<1>2. call' = [call EXCEPT ![c] = q]
  BY DEF Skips, CallsOK
<1>3. IsSequence(NoEnvironment)
  BY DEF NoEnvironment, IsSequence
<1>4. /\ DOMAIN q = Fields /\ q.at = "visit" /\ q.session = r.session
      /\ q.own = r.own /\ q.other = NoEnvironment /\ q.todo = r.todo \ {Visited(c)}
      /\ q.deliveries = r.deliveries /\ q.policies = r.policies
  BY <1>1 DEF CallOK, Fields
<1>5. \A x : Justified(q, x) <=> Justified(r, x)
  BY <1>4 DEF Justified
<1> HIDE DEF q
<1>6. CallOK(q, policy)
  BY <1>1, <1>3, <1>4, <1>5 DEF CallOK, Publishes, Positions
<1> QED BY <1>2, <1>6, OneCall

\* The entry a publication visits is one of the store's.
LEMMA VisitedEntry ==
    ASSUME CallsOK, NEW c \in Callers, call[c].todo # {}
    PROVE  Visited(c) \in call[c].todo /\ Visited(c) \in Entries /\ Visited(c) = Least(call[c].todo)
<1>1. call[c].todo \subseteq Entries
  BY CallOf DEF CallOK
<1>2. Visited(c) = Least(call[c].todo)
  BY DEF Visited, Least
<1> QED BY <1>1, <1>2, LeastExists

LEMMA VisitInv == ASSUME Inv, NEW c \in Callers, Visit(c) PROVE Inv'
<1> DEFINE r   == call[c]
           sub == environments[Visited(c).subscriber]
           q   == [r EXCEPT !.at = "authorize", !.other = sub]
<1>1. CallOK(r, policy) /\ r.at = "visit" /\ r.todo # {}
  BY CallOf DEF Inv, Visit, Visiting
<1>2. UNCHANGED <<store, policy, budgets, history>>
  BY DEF Visit
<1>3. CASE PredicatesHold(c, sub)
  <2>1. call' = [call EXCEPT ![c] = q]
    BY <1>3 DEF Visit, Inv, CallsOK
  <2>2. IsSequence(sub)
    BY <1>1, VisitedEntry, EntryType DEF Inv, StoreOK
  <2>3. /\ DOMAIN q = Fields /\ q.at = "authorize" /\ q.session = r.session
        /\ q.own = r.own /\ q.other = sub /\ q.todo = r.todo
        /\ q.deliveries = r.deliveries /\ q.policies = r.policies
    BY <1>1 DEF CallOK, Fields
  <2>4. \A x : Justified(q, x) <=> Justified(r, x)
    BY <2>3 DEF Justified
  <2> HIDE DEF q, sub
  <2>5. CallOK(q, policy)
    BY <1>1, <2>2, <2>3, <2>4 DEF CallOK, Publishes, Positions
  <2>6. CallsOK'
    BY <1>2, <2>1, <2>5, OneCall DEF Inv
  <2> QED BY <1>2, <2>6, Quiet
<1>4. CASE ~PredicatesHold(c, sub)
  <2>1. Skips(c)
    BY <1>4 DEF Visit
  <2>2. CallsOK'
    BY <1>1, <1>2, <2>1, SkipOK DEF Inv, Publishes
  <2> QED BY <1>2, <2>2, Quiet
<1> QED BY <1>3, <1>4

LEMMA AuthorizeInv == ASSUME Inv, NEW c \in Callers, Authorize(c) PROVE Inv'
<1> DEFINE r == call[c]
<1>1. CallOK(r, policy) /\ r.at = "authorize" /\ r.todo # {}
  BY CallOf DEF Inv, Authorize, Visiting
<1>2. UNCHANGED <<store, policy, budgets, history>>
  BY DEF Authorize
<1>3. R(c).operation = "Publish" /\ policy \in r.policies /\ r.session \in Sessions
      /\ IsSequence(r.own) /\ IsSequence(r.other)
  BY <1>1 DEF CallOK, Publishes, R
<1>4. CASE Authorized(c)
  <2>1. Goes(c, "seal")
    BY <1>4 DEF Authorize
  <2>2. R(c).type \in Types /\ Grounded(policy)
    BY <1>3, RequestAssumption, PolicyAssumption DEF R, Inv, CallsOK
  <2>3. AuthorizedByApprovals(policy, R(c).sender, Visited(c).subscriber, R(c).type)
    BY <1>3, <1>4, <2>2, DecidesByApprovals DEF Authorized
  <2>4. Justified(r, Visited(c))
    BY <1>3, <2>3 DEF Justified, R
  <2>5. r # NoCall
    BY <1>1 DEF NoCall
  <2>6. CallsOK'
    BY <1>2, <1>3, <2>1, <2>4, <2>5, GoesOK DEF Inv, Positions
  <2> QED BY <1>2, <2>6, Quiet
<1>5. CASE ~Authorized(c)
  <2>1. Skips(c)
    BY <1>5 DEF Authorize
  <2>2. CallsOK'
    BY <1>1, <1>2, <2>1, SkipOK DEF Inv, Publishes
  <2> QED BY <1>2, <2>2, Quiet
<1> QED BY <1>4, <1>5

LEMMA SealInv == ASSUME Inv, NEW c \in Callers, Seal(c) PROVE Inv'
<1>1. /\ call[c].at = "seal" /\ call[c].todo # {} /\ Goes(c, "claim")
      /\ UNCHANGED <<store, policy, budgets, history>>
  BY DEF Seal, Visiting
<1>2. R(c).operation = "Publish" /\ Justified(call[c], Visited(c)) /\ call[c] # NoCall
  BY <1>1, CallOf, VisitedEntry DEF Inv, CallOK, Publishes, R, NoCall
<1>3. CallsOK'
  BY <1>1, <1>2, GoesOK DEF Inv, Positions
<1> QED BY <1>1, <1>3, Quiet

LEMMA SealFailsInv == ASSUME Inv, NEW c \in Callers, SealFails(c) PROVE Inv'
BY ReturnOK, Quiet DEF Inv, SealFails

\* The delivery that is added was authorized when the entry was visited.
LEMMA AnsweredOK ==
    ASSUME CallsOK, NEW c \in Callers, call[c].at = "claim", call[c].todo # {}
    PROVE  CallOK(Answered(c), policy)
<1> DEFINE r == call[c]
           q == Answered(c)
<1>1. CallOK(r, policy) /\ Justified(r, Visited(c))
  BY CallOf, VisitedEntry DEF CallOK
<1>2. IsSequence(NoEnvironment)
  BY DEF NoEnvironment, IsSequence
<1>3. /\ DOMAIN q = Fields /\ q.at = "visit" /\ q.session = r.session
      /\ q.own = r.own /\ q.other = NoEnvironment /\ q.todo = r.todo \ {Visited(c)}
      /\ q.deliveries = r.deliveries \cup {Visited(c)} /\ q.policies = r.policies
  BY <1>1 DEF CallOK, Fields, Answered
<1>4. \A x : Justified(q, x) <=> Justified(r, x)
  BY <1>3 DEF Justified
<1> HIDE DEF q
<1>5. CallOK(q, policy)
  BY <1>1, <1>2, <1>3, <1>4 DEF CallOK, Publishes, Positions
<1> QED BY <1>5 DEF q

LEMMA ClaimInv == ASSUME Inv, NEW c \in Callers, Claim(c) PROVE Inv'
<1> DEFINE e == Visited(c)
<1>1. /\ call[c].at = "claim" /\ call[c].todo # {} /\ e \in subscriptions
      /\ UNCHANGED <<keys, environments, replay, policy, budgets, puts, guarded, reached>>
  BY DEF Claim, Visiting
<1>2. CallOK(Answered(c), policy) /\ e \in Entries
  BY <1>1, AnsweredOK, VisitedEntry DEF Inv
<1>3. puts \in [Entries -> Nat] /\ answers \in [Entries -> Nat] /\ subscriptions \subseteq Entries
  BY DEF Inv, HistoryOK, StoreOK
<1>4. CASE e.kind = "Subscribe"
  <2>1. /\ subscriptions' = subscriptions \ {e} /\ answers' = [answers EXCEPT ![e] = @ + 1]
        /\ Disturbs(c, Answered(c))
    BY <1>4 DEF Claim
  <2>2. CallsOK'
    BY <1>1, <1>2, <2>1, DisturbingCall DEF Inv
  <2> HIDE DEF e
  <2>3. StoreOK' /\ HistoryOK'
    BY <1>1, <1>2, <1>3, <2>1 DEF Inv, StoreOK, HistoryOK, budgets
  <2>4. OneShotPerPut'
    <3>1. SUFFICES ASSUME NEW f \in Entries, f.kind = "Subscribe"
                   PROVE  answers'[f] + (IF f \in subscriptions' THEN 1 ELSE 0) <= puts[f]
      BY <1>1 DEF OneShotPerPut
    <3>2. answers[f] + (IF f \in subscriptions THEN 1 ELSE 0) <= puts[f]
      BY <3>1 DEF Inv, OneShotPerPut
    <3>3. answers[f] \in Nat /\ puts[f] \in Nat
      BY <1>3
    <3>4. CASE f = e
      <4>1. answers'[f] = answers[f] + 1 /\ f \notin subscriptions' /\ f \in subscriptions
        BY <1>1, <1>3, <2>1, <3>4
      <4> QED BY <3>2, <3>3, <4>1
    <3>5. CASE f # e
      <4>1. answers'[f] = answers[f] /\ (f \in subscriptions' <=> f \in subscriptions)
        BY <1>3, <2>1, <3>5
      <4> QED BY <3>2, <3>3, <4>1
    <3> QED BY <3>4, <3>5
  <2>5. ReplayUntilExpiry'
    BY <1>1 DEF Inv, ReplayUntilExpiry
  <2> QED BY <2>2, <2>3, <2>4, <2>5 DEF Inv
<1>5. CASE e.kind # "Subscribe"
  <2>1. call' = [call EXCEPT ![c] = Answered(c)] /\ UNCHANGED <<subscriptions, answers>>
    BY <1>5 DEF Claim
  <2>2. CallsOK'
    BY <1>1, <1>2, <2>1, OneCall DEF Inv
  <2> QED BY <1>1, <2>1, <2>2, Quiet DEF store, history
<1> QED BY <1>4, <1>5

LEMMA ClaimMissedInv == ASSUME Inv, NEW c \in Callers, ClaimMissed(c) PROVE Inv'
<1>1. call[c].at = "claim" /\ Skips(c) /\ UNCHANGED <<store, policy, budgets, history>>
  BY DEF ClaimMissed, Visiting
<1>2. CallsOK'
  BY <1>1, SkipOK DEF Inv, Publishes
<1> QED BY <1>1, <1>2, Quiet

LEMMA FinishInv == ASSUME Inv, NEW c \in Callers, Finish(c) PROVE Inv'
BY ReturnOK, Quiet DEF Inv, Finish

-----------------------------------------------------------------------------
(***************************************************************************)
(* The administrator and the clock.                                        *)
(***************************************************************************)
LEMMA ProvisionInv == ASSUME Inv, NEW a \in Agents, NEW k \in Keys, Provision(a, k) PROVE Inv'
<1>1. UNCHANGED <<environments, subscriptions, replay, policy, clock, call, history>>
  BY DEF Provision
<1>2. CallsOK' /\ StoreOK' /\ HistoryOK'
  BY <1>1 DEF Inv, CallsOK, StoreOK, HistoryOK, history
<1>3. OneShotPerPut' /\ ReplayUntilExpiry'
  BY <1>1 DEF Inv, OneShotPerPut, ReplayUntilExpiry, history
<1> QED BY <1>2, <1>3 DEF Inv

\* A publication that meets one policy more keeps what the others justified.
LEMMA MeetsPolicy ==
    ASSUME NEW r, NEW p, NEW candidate \in Policies, CallOK(r, p),
           r # NoCall, Request[r.session].operation = "Publish"
    PROVE  CallOK([r EXCEPT !.policies = @ \cup {candidate}, !.disturbed = TRUE], candidate)
<1> DEFINE q == [r EXCEPT !.policies = @ \cup {candidate}, !.disturbed = TRUE]
<1>1. /\ DOMAIN q = Fields /\ q.at = r.at /\ q.session = r.session /\ q.now = r.now
      /\ q.own = r.own /\ q.other = r.other /\ q.todo = r.todo
      /\ q.deliveries = r.deliveries /\ q.policies = r.policies \cup {candidate}
  BY DEF CallOK, Fields
<1>2. r.at # "idle"
  BY DEF CallOK
<1>3. \A x : Justified(r, x) => Justified(q, x)
  BY <1>1 DEF Justified
<1> HIDE DEF q
<1>4. CallOK(q, candidate)
  BY <1>1, <1>2, <1>3 DEF CallOK
<1> QED BY <1>4 DEF q

LEMMA ReplaceInv == ASSUME Inv, NEW candidate \in Policies, Replace(candidate) PROVE Inv'
<1>1. /\ policy' = candidate /\ UNCHANGED <<store, clock, history>>
      /\ call' = [c \in Callers |->
                     IF Publishing(c)
                     THEN [call[c] EXCEPT !.policies = @ \cup {candidate}, !.disturbed = TRUE]
                     ELSE call[c]]
  BY DEF Replace
<1>2. ASSUME NEW c \in Callers PROVE CallOK(call'[c], candidate)
  <2>1. CallOK(call[c], policy)
    BY CallOf DEF Inv
  <2>2. CASE Publishing(c)
    <3>1. call'[c] = [call[c] EXCEPT !.policies = @ \cup {candidate}, !.disturbed = TRUE]
      BY <1>1, <2>2
    <3> QED BY <2>1, <2>2, <3>1, MeetsPolicy DEF Publishing, R
  <2>3. CASE ~Publishing(c)
    <3>1. call'[c] = call[c]
      BY <1>1, <2>3
    <3>2. call[c].at # "idle" => Request[call[c].session].operation # "Publish"
      BY <2>3 DEF Publishing, R, NoCall
    <3> QED BY <2>1, <3>1, <3>2 DEF CallOK
  <2> QED BY <2>2, <2>3
<1>3. CallsOK'
  BY <1>1, <1>2 DEF CallsOK
<1>4. StoreOK' /\ HistoryOK'
  BY <1>1 DEF Inv, StoreOK, HistoryOK, store, history
<1>5. OneShotPerPut' /\ ReplayUntilExpiry'
  BY <1>1 DEF Inv, OneShotPerPut, ReplayUntilExpiry, store, history
<1> QED BY <1>3, <1>4, <1>5 DEF Inv

LEMMA SetClockInv == ASSUME Inv, NEW time \in Times, SetClock(time) PROVE Inv'
<1>1. clock' \in Nat /\ UNCHANGED <<store, policy, call, history>>
  BY LimitAssumption DEF SetClock
<1>2. CallsOK' /\ StoreOK' /\ HistoryOK'
  BY <1>1 DEF Inv, CallsOK, StoreOK, HistoryOK, store, history
<1>3. OneShotPerPut' /\ ReplayUntilExpiry'
  BY <1>1 DEF Inv, OneShotPerPut, ReplayUntilExpiry, store, history
<1> QED BY <1>2, <1>3 DEF Inv

-----------------------------------------------------------------------------
(***************************************************************************)
(* One-shots, replays and policies.                                        *)
(***************************************************************************)
LEMMA InitInv == Init => Inv
<1> SUFFICES ASSUME Init PROVE Inv
  OBVIOUS
<1>1. CallsOK
  BY NoCallOK, PolicyAssumption DEF Init, CallsOK
<1>2. StoreOK
  BY InitialAssumption DEF Init, StoreOK
<1>3. HistoryOK /\ OneShotPerPut /\ ReplayUntilExpiry
  BY DEF Init, HistoryOK, OneShotPerPut, ReplayUntilExpiry
<1> QED BY <1>1, <1>2, <1>3 DEF Inv

LEMMA NextInv == Inv /\ [Next]_vars => Inv'
<1> SUFFICES ASSUME Inv, [Next]_vars PROVE Inv'
  OBVIOUS
<1>1. ASSUME NEW c \in Callers, Process(c) PROVE Inv'
  BY <1>1, BeginInv, MarkInv, MarkRefusedInv, ActInv, ActRefusedInv, ValidateInv,
     StoreEnvironmentInv, PutInv, PutRefusedInv, SnapshotInv, VisitInv, AuthorizeInv,
     SealInv, SealFailsInv, ClaimInv, ClaimMissedInv, FinishInv DEF Process
<1>2. CASE UNCHANGED vars
  <2>1. CallsOK'
    BY <1>2 DEF Inv, CallsOK, vars
  <2> QED BY <1>2, <2>1, Quiet DEF vars
<1> QED BY <1>1, <1>2, ProvisionInv, ReplaceInv, SetClockInv DEF Next

\* The calls of process, the store and the history stay related as Inv says, in every behaviour.
THEOREM Invariance == Spec => []Inv
BY InitInv, NextInv, PTL DEF Spec

\* A one-shot subscription is answered at most once for every time it was put, however many
\* publications claim it at once (claim_subscription of MemoryStore).
THEOREM OneShots == Spec => []OneShotPerPut
<1>1. Inv => OneShotPerPut
  BY DEF Inv
<1> QED BY <1>1, Invariance, PTL

\* ReplayCache keeps refusing a session until it has been asked about a time past its
\* expiry, whatever times the callers bring and in whatever order.
THEOREM Replays == Spec => []ReplayUntilExpiry
<1>1. Inv => ReplayUntilExpiry
  BY DEF Inv
<1> QED BY <1>1, Invariance, PTL

\* Every delivery process hands out is allowed by the approvals of one policy that was in
\* force during the publication (DynamicEnvironmentPolicy::authorize_delivery).
THEOREM OnePolicy == Spec => []DeliveriesOfOnePolicy
<1>1. Inv => DeliveriesOfOnePolicy
  BY DEF Inv, CallsOK, CallOK, Justified, DeliveriesOfOnePolicy, R
<1> QED BY <1>1, Invariance, PTL

-----------------------------------------------------------------------------
(***************************************************************************)
(* The limits of the store.                                                *)
(***************************************************************************)
Within(S, limit) == IsFiniteSet(S) /\ Cardinality(S) <= limit

Provisioned == {a \in Agents : keys[a] # NoKey}
Declared    == {a \in Agents : environments[a] # NoEnvironment}

\* A table that is within its limit is finite, whatever the sets of Agents and sessions.
LimitsInv ==
    /\ keys \in [Agents -> Keys \cup {NoKey}]
    /\ Within(Provisioned, AgentLimit)
    /\ Within(Declared, EnvironmentLimit)
    /\ Within(subscriptions, SubscriptionLimit)
    /\ Within(Live(replay), ReplayLimit)

\* A table keeps its limit when it shrinks, when an entry of it is replaced, and when one is
\* added while there is room.
LEMMA TableKept ==
    ASSUME NEW S, NEW T, NEW limit \in Nat, Within(S, limit)
    PROVE  /\ T \subseteq S => Within(T, limit)
           /\ \A x : /\ T \subseteq S \cup {x} /\ (x \in S \/ Cardinality(S) < limit)
                     => Within(T, limit)
           /\ \A x, y : T \subseteq (S \ {y}) \cup {x} /\ y \in S => Within(T, limit)
<1>1. IsFiniteSet(S) /\ Cardinality(S) <= limit /\ Cardinality(S) \in Nat
  BY FS_CardinalityType DEF Within
<1>2. ASSUME NEW U, Within(U, limit), T \subseteq U PROVE Within(T, limit)
  <2>1. IsFiniteSet(U) /\ Cardinality(U) <= limit BY <1>2 DEF Within
  <2>2. IsFiniteSet(T) /\ Cardinality(T) <= Cardinality(U) BY <1>2, <2>1, FS_Subset
  <2>3. Cardinality(T) \in Nat /\ Cardinality(U) \in Nat BY <2>1, <2>2, FS_CardinalityType
  <2> QED BY <2>1, <2>2, <2>3 DEF Within
<1>3. ASSUME NEW x, x \in S \/ Cardinality(S) < limit PROVE Within(S \cup {x}, limit)
  <2>1. /\ IsFiniteSet(S \cup {x})
        /\ Cardinality(S \cup {x}) = IF x \in S THEN Cardinality(S) ELSE Cardinality(S) + 1
    BY <1>1, FS_AddElement
  <2>2. Cardinality(S \cup {x}) <= limit BY <1>1, <1>3, <2>1
  <2> QED BY <2>1, <2>2 DEF Within
<1>4. ASSUME NEW x, NEW y \in S PROVE Within((S \ {y}) \cup {x}, limit)
  <2> DEFINE U == S \ {y}
  <2>1. IsFiniteSet(U) /\ Cardinality(U) = Cardinality(S) - 1 BY <1>1, FS_RemoveElement
  <2> HIDE DEF U
  <2>2. /\ IsFiniteSet(U \cup {x})
        /\ Cardinality(U \cup {x}) = IF x \in U THEN Cardinality(U) ELSE Cardinality(U) + 1
    BY <2>1, FS_AddElement
  <2>3. Cardinality(U \cup {x}) <= limit BY <1>1, <2>1, <2>2
  <2> QED BY <2>2, <2>3 DEF Within, U
<1> QED BY <1>2, <1>3, <1>4

\* What each step does to each table.
LEMMA TableSteps ==
    ASSUME [Next]_vars
    PROVE  /\ keys' = keys \/ \E a \in Agents, key \in Keys : Provision(a, key)
           /\ environments' = environments \/ \E c \in Callers : StoreEnvironment(c)
           /\ subscriptions' = subscriptions \/ \E c \in Callers : Put(c) \/ Claim(c)
           /\ replay' = replay \/ \E c \in Callers : Mark(c) \/ MarkRefused(c)
BY DEF Next, Process, Begin, Mark, MarkRefused, Act, ActRefused, Validate, StoreEnvironment,
       Put, PutRefused, Snapshot, Visit, Authorize, Seal, SealFails, Claim, ClaimMissed,
       Finish, Provision, Replace, SetClock, store, vars

\* A new Agent is provisioned only while there is room.
LEMMA ProvisionLimit ==
    ASSUME LimitsInv, NEW a \in Agents, NEW key \in Keys, Provision(a, key)
    PROVE  keys' \in [Agents -> Keys \cup {NoKey}] /\ Within(Provisioned', AgentLimit)
<1>1. keys' = [keys EXCEPT ![a] = key] /\ keys \in [Agents -> Keys \cup {NoKey}]
  BY DEF Provision, LimitsInv
<1>2. a \in Provisioned \/ Cardinality(Provisioned) < AgentLimit BY DEF Provision, Provisioned
<1>3. Provisioned' \subseteq Provisioned \cup {a} BY <1>1 DEF Provisioned
<1>4. Within(Provisioned, AgentLimit) /\ AgentLimit \in Nat BY LimitAssumption DEF LimitsInv
<1>5. Within(Provisioned', AgentLimit) BY <1>2, <1>3, <1>4, TableKept
<1> QED BY <1>1, <1>5

\* The first environment of an Agent is stored only while there is room.
LEMMA StoreLimit ==
    ASSUME Inv, LimitsInv, NEW c \in Callers, StoreEnvironment(c)
    PROVE  Within(Declared', EnvironmentLimit)
<1>1. Within(Declared, EnvironmentLimit) /\ EnvironmentLimit \in Nat
  BY LimitAssumption DEF LimitsInv
<1>2. CASE MaySetEnvironment(R(c).sender)
  <2>1. /\ environments' = [environments EXCEPT ![R(c).sender] = call[c].own]
        /\ environments = [a \in Agents |-> environments[a]]
    BY <1>2 DEF StoreEnvironment, Inv, StoreOK
  <2>2. call[c].session \in Sessions BY CallOf DEF StoreEnvironment, Inv, CallOK
  <2>3. R(c).sender \in Agents BY <2>2, RequestAssumption DEF R
  <2>4. Declared' \subseteq Declared \cup {R(c).sender} BY <2>1 DEF Declared
  <2>5. R(c).sender \in Declared \/ Cardinality(Declared) < EnvironmentLimit
    BY <1>2, <2>3 DEF MaySetEnvironment, Declared
  <2> QED BY <1>1, <2>4, <2>5, TableKept
<1>3. CASE ~MaySetEnvironment(R(c).sender)
  <2>1. environments' = environments BY <1>3 DEF StoreEnvironment
  <2> QED BY <1>1, <2>1 DEF Declared
<1> QED BY <1>2, <1>3

\* A subscription replaces the one in its slot, or there is room.
LEMMA PutLimit ==
    ASSUME LimitsInv, NEW c \in Callers, Put(c) \/ Claim(c)
    PROVE  Within(subscriptions', SubscriptionLimit)
<1>1. Within(subscriptions, SubscriptionLimit) /\ SubscriptionLimit \in Nat
  BY LimitAssumption DEF LimitsInv
<1>2. CASE Put(c)
  <2> DEFINE e == Entry(call[c].session)
  <2>1. /\ subscriptions' = {x \in subscriptions : ~SameSlot(x, e)} \cup {e} /\ MayPut(e)
    BY <1>2 DEF Put
  <2> HIDE DEF e
  <2>2. CASE \E x \in subscriptions : SameSlot(x, e)
    <3>1. PICK y \in subscriptions : SameSlot(y, e) BY <2>2
    <3>2. subscriptions' \subseteq (subscriptions \ {y}) \cup {e} BY <2>1, <3>1
    <3> QED BY <1>1, <3>2, TableKept
  <2>3. CASE Cardinality(subscriptions) < SubscriptionLimit
    <3>1. subscriptions' \subseteq subscriptions \cup {e} BY <2>1
    <3> QED BY <1>1, <2>3, <3>1, TableKept
  <2> QED BY <2>1, <2>2, <2>3 DEF MayPut
<1>3. CASE Claim(c)
  <2>1. subscriptions' \subseteq subscriptions BY <1>3 DEF Claim
  <2> QED BY <1>1, <2>1, TableKept
<1> QED BY <1>2, <1>3

\* A session is remembered only while there is room among those that have not expired.
LEMMA MarkLimit ==
    ASSUME Inv, LimitsInv, NEW c \in Callers, Mark(c) \/ MarkRefused(c)
    PROVE  Within(Live(replay'), ReplayLimit)
<1>1. Within(Live(replay), ReplayLimit) /\ ReplayLimit \in Nat
  BY LimitAssumption DEF LimitsInv
<1> DEFINE live == Unexpired(call[c].now)
<1>2. replay \in [Sessions -> Nat] BY DEF Inv, StoreOK
<1>3. live \in [Sessions -> Nat] /\ Live(live) \subseteq Live(replay)
  BY <1>2 DEF Unexpired, Live
<1>4. Within(Live(live), ReplayLimit) BY <1>1, <1>3, TableKept
<1>5. CASE Mark(c)
  <2>1. /\ replay' = [live EXCEPT ![call[c].session] = call[c].now + ReplayTtl]
        /\ Cardinality(Live(live)) < ReplayLimit
    BY <1>5 DEF Mark
  <2> HIDE DEF live
  <2>2. Live(replay') \subseteq Live(live) \cup {call[c].session} BY <1>3, <2>1 DEF Live
  <2> DEFINE S == Live(live)
             T == Live(replay')
  <2>3. Within(S, ReplayLimit) /\ Cardinality(S) < ReplayLimit BY <1>4, <2>1
  <2>4. T \subseteq S \cup {call[c].session} BY <2>2
  <2> HIDE DEF S, T
  <2>5. Within(T, ReplayLimit) BY <1>1, <2>3, <2>4, TableKept
  <2> QED BY <2>5 DEF T
<1>6. CASE MarkRefused(c)
  <2>1. replay' = live BY <1>6 DEF MarkRefused
  <2> QED BY <1>4, <2>1
<1> QED BY <1>5, <1>6

\* No step takes a table past its limit.
LEMMA LimitsNext ==
    ASSUME Inv, LimitsInv, [Next]_vars PROVE LimitsInv'
<1>1. keys' \in [Agents -> Keys \cup {NoKey}] /\ Within(Provisioned', AgentLimit)
  <2>1. CASE keys' = keys BY <2>1 DEF LimitsInv, Provisioned
  <2> QED BY <2>1, TableSteps, ProvisionLimit
<1>2. Within(Declared', EnvironmentLimit)
  <2>1. CASE environments' = environments BY <2>1 DEF LimitsInv, Declared
  <2> QED BY <2>1, TableSteps, StoreLimit
<1>3. Within(subscriptions', SubscriptionLimit)
  <2>1. CASE subscriptions' = subscriptions BY <2>1 DEF LimitsInv
  <2> QED BY <2>1, TableSteps, PutLimit
<1>4. Within(Live(replay'), ReplayLimit)
  <2>1. CASE replay' = replay BY <2>1 DEF LimitsInv
  <2> QED BY <2>1, TableSteps, MarkLimit
<1>5. Within(Live(replay), ReplayLimit)' BY <1>4 DEF Live
<1> QED BY <1>1, <1>2, <1>3, <1>5 DEF LimitsInv

\* MemoryStore and the replay cache keep to their limits however the callers interleave: each
\* limit is checked under the lock that the entry is added under.
THEOREM TypeCorrect == Spec => []TypeOK
<1>1. Init => LimitsInv
  <2> SUFFICES ASSUME Init PROVE LimitsInv OBVIOUS
  <2>1. Live(replay) = {} /\ subscriptions = {} BY DEF Init, Live
  <2>2. Within({}, SubscriptionLimit) /\ Within({}, ReplayLimit)
    BY FS_EmptySet, LimitAssumption DEF Within
  <2>3. Within(Provisioned, AgentLimit) /\ Within(Declared, EnvironmentLimit)
    BY InitialAssumption DEF Init, Within, Provisioned, Declared
  <2> QED BY <2>1, <2>2, <2>3, InitialAssumption DEF LimitsInv, Init
<1>2. Inv /\ LimitsInv /\ [Next]_vars => LimitsInv' BY LimitsNext
<1>3. Inv /\ LimitsInv => TypeOK
  <2> SUFFICES ASSUME Inv, LimitsInv PROVE TypeOK OBVIOUS
  <2>1. ASSUME NEW c \in Callers
        PROVE  call[c].at \in Positions /\ call[c].session \in Sessions \cup {NoSession}
    <3>1. CallOK(call[c], policy) BY CallOf DEF Inv
    <3> QED BY <3>1 DEF CallOK, NoCall
  <2>2. /\ DOMAIN environments = Agents /\ replay \in [Sessions -> Nat]
        /\ \A x \in subscriptions : x \in Entries
    BY DEF Inv, StoreOK
  <2> QED BY <2>1, <2>2 DEF TypeOK, LimitsInv, Within, Provisioned, Declared
<1> QED BY <1>1, <1>2, <1>3, Invariance, PTL DEF Spec

-----------------------------------------------------------------------------
(***************************************************************************)
(* The deliveries of an undisturbed publication.                           *)
(***************************************************************************)
\* The predicates of call r and of entry x hold of the environments of the two sides.
Matches(r, x, env) ==
    /\ Evaluate(x.clauses, r.own)
    /\ env[x.subscriber] # NoEnvironment
    /\ Evaluate(Request[r.session].clauses, env[x.subscriber])

\* What UndisturbedPublicationComplete asks of an entry that is answered.
Due(r, x, env, p) ==
    /\ Matches(r, x, env)
    /\ ValidEnvironment(p, x.subscriber, env[x.subscriber])
    /\ AuthorizedByApprovals(p, Request[r.session].sender, x.subscriber, Request[r.session].type)

\* A call r that nothing has disturbed has answered what is due of the entries it has visited;
\* the others are still stored, and what it knows of the one it visits still holds.
Progress(r, env, p, stored) ==
    /\ r.at \notin Publishes \ {"snapshot"} => r.deliveries = {}
    /\ r.at \in Publishes /\ ~r.disturbed =>
          /\ ValidEnvironment(p, Request[r.session].sender, r.own)
          /\ r.at # "snapshot" =>
                /\ r.todo \subseteq r.snapshot /\ r.todo \subseteq stored
                /\ r.deliveries = {x \in r.snapshot \ r.todo : Due(r, x, env, p)}
          /\ r.at \in {"authorize", "seal", "claim"} =>
                /\ r.todo # {} /\ r.other = env[Least(r.todo).subscriber]
                /\ Matches(r, Least(r.todo), env)
          /\ r.at \in {"seal", "claim"} => Due(r, Least(r.todo), env, p)

ProgressInv == \A c \in Callers : Progress(call[c], environments, policy, subscriptions)

\* A call that has returned.
LEMMA NoProgress == ASSUME NEW env, NEW p, NEW stored PROVE Progress(NoCall, env, p, stored)
BY DEF Progress, NoCall, Publishes

\* A step of caller c that changes nothing the other calls depend on.
LEMMA QuietProgress ==
    ASSUME Inv, ProgressInv, NEW c \in Callers, NEW q, call' = [call EXCEPT ![c] = q],
           UNCHANGED <<environments, policy, subscriptions>>,
           Progress(q, environments, policy, subscriptions)
    PROVE  ProgressInv'
<1>1. \A d \in Callers : call'[d] = IF d = c THEN q ELSE call[d] BY DEF Inv, CallsOK
<1>2. \A d \in Callers : Progress(call'[d], environments, policy, subscriptions)
  BY <1>1 DEF ProgressInv
<1>3. /\ environments' = environments /\ policy' = policy /\ subscriptions' = subscriptions
  OBVIOUS
<1> QED BY <1>2, <1>3 DEF ProgressInv

\* A call that is disturbed owes nothing any more, and one that is no publication never did.
LEMMA DisturbedProgress ==
    ASSUME NEW r, NEW p, CallOK(r, p), NEW env, NEW q, NEW stored, Progress(r, env, p, stored),
           NEW envNow, NEW now, NEW storedNow,
           \/ /\ r = NoCall \/ Request[r.session].operation # "Publish"
              /\ q = r
           \/ q.disturbed = TRUE /\ q.at = r.at /\ q.deliveries = r.deliveries
    PROVE  Progress(q, envNow, now, storedNow)
<1>1. CASE /\ r = NoCall \/ Request[r.session].operation # "Publish"
           /\ q = r
  <2>1. r.at \notin Publishes BY <1>1 DEF CallOK, NoCall, Publishes
  <2> QED BY <1>1, <2>1 DEF Progress
<1>2. CASE q.disturbed = TRUE /\ q.at = r.at /\ q.deliveries = r.deliveries
  BY <1>2 DEF Progress
<1> QED BY <1>1, <1>2

\* A step of caller c that changes what the others depend on.
LEMMA LoudProgress ==
    ASSUME Inv, ProgressInv, NEW c \in Callers, NEW q, Disturbs(c, q),
           Progress(q, environments', policy', subscriptions')
    PROVE  ProgressInv'
<1> SUFFICES ASSUME NEW d \in Callers
             PROVE  Progress(call'[d], environments', policy', subscriptions')
  BY DEF ProgressInv
<1>1. CASE d = c
  <2>1. call'[d] = q BY <1>1 DEF Disturbs
  <2> QED BY <2>1
<1>2. CASE d # c
  <2> DEFINE r == call[d]
             n == call'[d]
  <2>1. CallOK(r, policy) /\ Progress(r, environments, policy, subscriptions)
    BY CallOf DEF Inv, ProgressInv
  <2>2. CASE Publishing(d)
    <3>1. n = [r EXCEPT !.disturbed = TRUE] BY <1>2, <2>2 DEF Disturbs
    <3>2. n.disturbed = TRUE /\ n.at = r.at /\ n.deliveries = r.deliveries
      BY <2>1, <3>1 DEF CallOK, Fields
    <3> QED BY <2>1, <3>2, DisturbedProgress
  <2>3. CASE ~Publishing(d)
    <3>1. n = r BY <1>2, <2>3 DEF Disturbs
    <3>2. r = NoCall \/ Request[r.session].operation # "Publish" BY <2>3 DEF Publishing, R
    <3> QED BY <2>1, <3>1, <3>2, DisturbedProgress
  <2> QED BY <2>2, <2>3
<1> QED BY <1>1, <1>2

\* A call returns, or it goes on before its snapshot.
LEMMA EarlyProgress ==
    ASSUME Inv, ProgressInv, NEW c \in Callers, UNCHANGED <<environments, policy, subscriptions>>,
           \/ Returns(c)
           \/ \E s \in Sessions : Begin(c, s)
           \/ Mark(c) \/ Act(c)
    PROVE  ProgressInv'
<1>1. CASE Returns(c)
  BY <1>1, NoProgress, QuietProgress DEF Returns
<1>2. ASSUME NEW s \in Sessions, Begin(c, s) PROVE ProgressInv'
  <2> DEFINE ps == IF Request[s].operation = "Publish" THEN {policy} ELSE {}
             q  == [NoCall EXCEPT !.at = "mark", !.session = s, !.now = clock, !.policies = ps]
  <2>1. call' = [call EXCEPT ![c] = q] BY <1>2 DEF Begin
  <2>2. q.at = "mark" /\ q.deliveries = {} BY DEF NoCall
  <2> HIDE DEF q
  <2>3. Progress(q, environments, policy, subscriptions) BY <2>2 DEF Progress, Publishes
  <2> QED BY <2>1, <2>3, QuietProgress
<1>3. ASSUME Mark(c) \/ Act(c) PROVE ProgressInv'
  <2> DEFINE r == call[c]
             q == call'[c]
  <2>1. CallOK(r, policy) /\ r.at \in {"mark", "act"} BY <1>3, CallOf DEF Inv, Mark, Act
  <2>2. r.deliveries = {} BY <2>1 DEF ProgressInv, Progress, Publishes
  <2>3. /\ q.at \in {"act", "validate"} /\ q.deliveries = r.deliveries
        /\ call' = [call EXCEPT ![c] = q]
    <3>1. CASE Mark(c)
      <4>1. call' = [call EXCEPT ![c] = [r EXCEPT !.at = "act", !.now = 0]]
        BY <3>1 DEF Mark, Inv, CallsOK
      <4>2. q = [r EXCEPT !.at = "act", !.now = 0] BY <4>1 DEF Inv, CallsOK
      <4>3. q.at = "act" /\ q.deliveries = r.deliveries BY <2>1, <4>2 DEF CallOK, Fields
      <4> QED BY <4>1, <4>2, <4>3
    <3>2. CASE Act(c)
      <4> DEFINE own == IF R(c).operation = "SetEnvironment" THEN R(c).environment
                        ELSE environments[R(c).sender]
      <4>1. call' = [call EXCEPT ![c] = [r EXCEPT !.at = "validate", !.own = own]]
        BY <3>2 DEF Act, Inv, CallsOK
      <4> HIDE DEF own
      <4>2. q = [r EXCEPT !.at = "validate", !.own = own] BY <4>1 DEF Inv, CallsOK
      <4>3. q.at = "validate" /\ q.deliveries = r.deliveries BY <2>1, <4>2 DEF CallOK, Fields
      <4> QED BY <4>1, <4>2, <4>3
    <3> QED BY <1>3, <3>1, <3>2
  <2> HIDE DEF q
  <2>4. Progress(q, environments, policy, subscriptions)
    BY <2>2, <2>3 DEF Progress, Publishes
  <2> QED BY <2>3, <2>4, QuietProgress
<1> QED BY <1>1, <1>2, <1>3

\* What a call holds when only its position changes.
LEMMA GoesFields ==
    ASSUME Inv, NEW c \in Callers, NEW at, Goes(c, at)
    PROVE  \E q : /\ call' = [call EXCEPT ![c] = q] /\ q.at = at /\ q.session = call[c].session
                  /\ q.own = call[c].own /\ q.other = call[c].other /\ q.todo = call[c].todo
                  /\ q.deliveries = call[c].deliveries /\ q.snapshot = call[c].snapshot
                  /\ q.disturbed = call[c].disturbed
<1> DEFINE q == [call[c] EXCEPT !.at = at]
<1>1. call' = [call EXCEPT ![c] = q] BY DEF Goes, Inv, CallsOK
<1>2. CallOK(call[c], policy) BY CallOf DEF Inv
<1>3. /\ q.at = at /\ q.session = call[c].session
      /\ q.own = call[c].own /\ q.other = call[c].other /\ q.todo = call[c].todo
      /\ q.deliveries = call[c].deliveries /\ q.snapshot = call[c].snapshot
      /\ q.disturbed = call[c].disturbed
  BY <1>2 DEF CallOK, Fields
<1> QED BY <1>1, <1>3

\* The publisher's environment is valid from here on, until something disturbs the call.
LEMMA ValidateProgress ==
    ASSUME Inv, ProgressInv, NEW c \in Callers, Validate(c) PROVE ProgressInv'
<1>1. call[c].at = "validate" /\ UNCHANGED <<environments, policy, subscriptions>>
  BY DEF Validate, store
<1>2. CASE ~ValidEnvironment(policy, R(c).sender, call[c].own)
  BY <1>1, <1>2, EarlyProgress DEF Validate
<1>3. CASE ValidEnvironment(policy, R(c).sender, call[c].own)
  <2> DEFINE at == CASE R(c).operation = "SetEnvironment" -> "store"
                     [] R(c).operation = "Publish" -> "snapshot"
                     [] OTHER -> "put"
  <2>1. Goes(c, at) BY <1>3 DEF Validate
  <2>2. at \in {"store", "snapshot", "put"} OBVIOUS
  <2> HIDE DEF at
  <2>3. PICK q : /\ call' = [call EXCEPT ![c] = q] /\ q.at = at /\ q.session = call[c].session
                 /\ q.own = call[c].own /\ q.deliveries = call[c].deliveries
    BY <2>1, GoesFields
  <2>4. q.deliveries = {} BY <1>1, <2>3 DEF ProgressInv, Progress, Publishes
  <2>5. ValidEnvironment(policy, Request[q.session].sender, q.own) BY <1>3, <2>3 DEF R
  <2>6. Progress(q, environments, policy, subscriptions)
    BY <2>2, <2>3, <2>4, <2>5 DEF Progress, Publishes
  <2> QED BY <1>1, <2>3, <2>6, QuietProgress
<1> QED BY <1>2, <1>3

\* The snapshot is what has to be visited.
LEMMA SnapshotProgress ==
    ASSUME Inv, ProgressInv, NEW c \in Callers, Snapshot(c) PROVE ProgressInv'
<1> DEFINE r      == call[c]
           bucket == {x \in subscriptions : x.type = R(c).type}
           q      == [r EXCEPT !.at = "visit", !.todo = bucket, !.snapshot = bucket]
<1>1. r.at = "snapshot" /\ CallOK(r, policy) /\ UNCHANGED <<environments, policy, subscriptions>>
  BY CallOf DEF Snapshot, store, Inv
<1>2. call' = [call EXCEPT ![c] = q] BY DEF Snapshot, Inv, CallsOK
<1>3. /\ q.at = "visit" /\ q.session = r.session /\ q.own = r.own /\ q.todo = bucket
      /\ q.snapshot = bucket /\ q.deliveries = r.deliveries /\ q.disturbed = r.disturbed
  BY <1>1 DEF CallOK, Fields
<1>4. bucket \subseteq subscriptions OBVIOUS
<1> HIDE DEF bucket, q
<1>5. r.deliveries = {} BY <1>1 DEF ProgressInv, Progress
<1>6. ~r.disturbed => ValidEnvironment(policy, Request[r.session].sender, r.own)
  BY <1>1 DEF ProgressInv, Progress, Publishes
<1>7. Progress(q, environments, policy, subscriptions)
  BY <1>3, <1>4, <1>5, <1>6 DEF Progress, Publishes
<1> QED BY <1>1, <1>2, <1>7, QuietProgress

\* The loop has dealt with one more entry: it was due and answered, or it was not due.
LEMMA VisitedProgress ==
    ASSUME NEW r, NEW q, NEW env, NEW p, NEW stored, NEW storedNow,
           Progress(r, env, p, stored), r.at \in Publishes \ {"snapshot"}, q.at = "visit",
           NEW v, q.session = r.session, q.own = r.own, q.todo = r.todo \ {v},
           q.snapshot = r.snapshot, q.disturbed = r.disturbed,
           ~r.disturbed =>
               /\ v \in r.todo /\ r.todo \ {v} \subseteq storedNow
               /\ \/ Due(r, v, env, p) /\ q.deliveries = r.deliveries \cup {v}
                  \/ ~Due(r, v, env, p) /\ q.deliveries = r.deliveries
    PROVE  Progress(q, env, p, storedNow)
<1>1. CASE r.disturbed
  BY <1>1 DEF Progress, Publishes
<1>2. CASE ~r.disturbed
  <2>1. /\ ValidEnvironment(p, Request[r.session].sender, r.own)
        /\ r.todo \subseteq r.snapshot /\ r.deliveries = {x \in r.snapshot \ r.todo : Due(r, x, env, p)}
    BY <1>2 DEF Progress
  <2>2. \A x : Due(q, x, env, p) <=> Due(r, x, env, p) BY DEF Due, Matches
  <2>3. r.snapshot \ q.todo = (r.snapshot \ r.todo) \cup {v} BY <1>2, <2>1
  <2>4. q.deliveries = {x \in r.snapshot \ q.todo : Due(r, x, env, p)} BY <1>2, <2>1, <2>3
  <2>5. q.deliveries = {x \in q.snapshot \ q.todo : Due(q, x, env, p)} BY <2>2, <2>4
  <2>6. q.todo \subseteq q.snapshot /\ q.todo \subseteq storedNow BY <1>2, <2>1
  <2> QED BY <2>1, <2>5, <2>6 DEF Progress, Publishes
<1> QED BY <1>1, <1>2

\* An entry that is not due is passed over.
LEMMA SkipProgress ==
    ASSUME Inv, ProgressInv, NEW c \in Callers, UNCHANGED <<environments, policy, subscriptions>>,
           call[c].at \in Publishes \ {"snapshot"}, call[c].todo # {}, Skips(c),
           ~call[c].disturbed => ~Due(call[c], Visited(c), environments, policy)
    PROVE  ProgressInv'
<1> DEFINE r == call[c]
           q == [r EXCEPT !.at = "visit", !.todo = @ \ {Visited(c)}, !.other = NoEnvironment]
<1>1. call' = [call EXCEPT ![c] = q] BY DEF Skips, Inv, CallsOK
<1>2. CallOK(r, policy) /\ Progress(r, environments, policy, subscriptions)
  BY CallOf DEF Inv, ProgressInv
<1>3. /\ q.at = "visit" /\ q.session = r.session /\ q.own = r.own /\ q.todo = r.todo \ {Visited(c)}
      /\ q.snapshot = r.snapshot /\ q.deliveries = r.deliveries /\ q.disturbed = r.disturbed
  BY <1>2 DEF CallOK, Fields
<1>4. Visited(c) \in r.todo BY VisitedEntry DEF Inv
<1>5. ~r.disturbed => r.todo \subseteq subscriptions BY <1>2 DEF Progress
<1> HIDE DEF q
<1>6. Progress(q, environments, policy, subscriptions)
  BY <1>2, <1>3, <1>4, <1>5, VisitedProgress
<1> QED BY <1>1, <1>6, QuietProgress

\* The predicates are evaluated on the environments that are stored now.
LEMMA VisitProgress ==
    ASSUME Inv, ProgressInv, NEW c \in Callers, Visit(c) PROVE ProgressInv'
<1> DEFINE r   == call[c]
           sub == environments[Visited(c).subscriber]
           q   == [r EXCEPT !.at = "authorize", !.other = sub]
<1>1. /\ CallOK(r, policy) /\ r.at = "visit" /\ r.todo # {}
      /\ UNCHANGED <<environments, policy, subscriptions>>
  BY CallOf DEF Inv, Visit, Visiting, store
<1>2. PredicatesHold(c, sub) <=> Matches(r, Visited(c), environments)
  BY DEF PredicatesHold, Matches, R
<1>3. Visited(c) = Least(r.todo) BY <1>1, VisitedEntry DEF Inv
<1>4. CASE PredicatesHold(c, sub)
  <2>1. call' = [call EXCEPT ![c] = q] BY <1>4 DEF Visit, Inv, CallsOK
  <2>2. /\ q.at = "authorize" /\ q.session = r.session /\ q.own = r.own /\ q.other = sub
        /\ q.todo = r.todo /\ q.snapshot = r.snapshot /\ q.deliveries = r.deliveries
        /\ q.disturbed = r.disturbed
    BY <1>1 DEF CallOK, Fields
  <2>3. sub = environments[Least(q.todo).subscriber] BY <1>3, <2>2
  <2> HIDE DEF q, sub
  <2>4. Matches(q, Least(q.todo), environments) BY <1>2, <1>3, <1>4, <2>2 DEF Matches
  <2>5. \A x : Due(q, x, environments, policy) <=> Due(r, x, environments, policy)
    BY <2>2 DEF Due, Matches
  <2>6. ~r.disturbed =>
           /\ ValidEnvironment(policy, Request[r.session].sender, r.own)
           /\ r.todo \subseteq r.snapshot /\ r.todo \subseteq subscriptions
           /\ r.deliveries = {x \in r.snapshot \ r.todo : Due(r, x, environments, policy)}
    BY <1>1 DEF ProgressInv, Progress, Publishes
  <2>7. ~r.disturbed =>
           q.deliveries = {x \in q.snapshot \ q.todo : Due(q, x, environments, policy)}
    BY <2>2, <2>5, <2>6
  <2>8. Progress(q, environments, policy, subscriptions)
    BY <1>1, <2>2, <2>3, <2>4, <2>6, <2>7 DEF Progress, Publishes
  <2> QED BY <1>1, <2>1, <2>8, QuietProgress
<1>5. CASE ~PredicatesHold(c, sub)
  <2>1. Skips(c) BY <1>5 DEF Visit
  <2>2. ~Due(r, Visited(c), environments, policy) BY <1>2, <1>5 DEF Due
  <2> QED BY <1>1, <2>1, <2>2, SkipProgress DEF Publishes
<1> QED BY <1>4, <1>5

\* An entry that was found due moves on through seal to its claim.
LEMMA MovesProgress ==
    ASSUME Inv, ProgressInv, NEW c \in Callers, UNCHANGED <<environments, policy, subscriptions>>,
           call[c].at \in {"authorize", "seal"}, NEW at \in {"seal", "claim"}, Goes(c, at),
           ~call[c].disturbed => Due(call[c], Least(call[c].todo), environments, policy)
    PROVE  ProgressInv'
<1> DEFINE r == call[c]
<1>1. PICK q : /\ call' = [call EXCEPT ![c] = q] /\ q.at = at /\ q.session = r.session
               /\ q.own = r.own /\ q.other = r.other /\ q.todo = r.todo
               /\ q.deliveries = r.deliveries /\ q.snapshot = r.snapshot
               /\ q.disturbed = r.disturbed
  BY GoesFields
<1>2. \A x : /\ Due(q, x, environments, policy) <=> Due(r, x, environments, policy)
             /\ Matches(q, x, environments) <=> Matches(r, x, environments)
  BY <1>1 DEF Due, Matches
<1>3. ~r.disturbed =>
         /\ ValidEnvironment(policy, Request[r.session].sender, r.own)
         /\ r.todo \subseteq r.snapshot /\ r.todo \subseteq subscriptions
         /\ r.deliveries = {x \in r.snapshot \ r.todo : Due(r, x, environments, policy)}
         /\ r.todo # {} /\ r.other = environments[Least(r.todo).subscriber]
         /\ Matches(r, Least(r.todo), environments)
  BY DEF ProgressInv, Progress, Publishes
<1>4. ~r.disturbed =>
         q.deliveries = {x \in q.snapshot \ q.todo : Due(q, x, environments, policy)}
  BY <1>1, <1>2, <1>3
<1>5. ~r.disturbed => /\ Due(q, Least(q.todo), environments, policy)
                      /\ Matches(q, Least(q.todo), environments)
  BY <1>1, <1>2, <1>3
<1>6. Progress(q, environments, policy, subscriptions)
  BY <1>1, <1>3, <1>4, <1>5 DEF Progress, Publishes
<1> QED BY <1>1, <1>6, QuietProgress

\* The decision under one lock is the one by approvals, on the environments that are stored.
LEMMA AuthorizeProgress ==
    ASSUME Inv, ProgressInv, NEW c \in Callers, Authorize(c) PROVE ProgressInv'
<1> DEFINE r == call[c]
           v == Visited(c)
<1>1. /\ CallOK(r, policy) /\ r.at = "authorize" /\ r.todo # {}
      /\ UNCHANGED <<environments, policy, subscriptions>>
  BY CallOf DEF Inv, Authorize, Visiting, store
<1>2. v = Least(r.todo) BY <1>1, VisitedEntry DEF Inv
<1>3. Authorized(c) <=> /\ ValidEnvironment(policy, R(c).sender, r.own)
                        /\ ValidEnvironment(policy, v.subscriber, r.other)
                        /\ AuthorizedByApprovals(policy, R(c).sender, v.subscriber, R(c).type)
  <2>1. IsSequence(r.own) /\ IsSequence(r.other) /\ r.session \in Sessions
    BY <1>1 DEF CallOK
  <2>2. R(c).type \in Types /\ Grounded(policy)
    BY <2>1, RequestAssumption, PolicyAssumption DEF R, Inv, CallsOK
  <2> QED BY <2>1, <2>2, DecidesByApprovals DEF Authorized
<1> HIDE DEF v
<1>4. ~r.disturbed => (Authorized(c) <=> Due(r, v, environments, policy))
  <2> SUFFICES ASSUME ~r.disturbed
               PROVE  Authorized(c) <=> Due(r, v, environments, policy)
    OBVIOUS
  <2>1. /\ ValidEnvironment(policy, R(c).sender, r.own)
        /\ r.other = environments[v.subscriber] /\ Matches(r, v, environments)
    BY <1>1, <1>2 DEF ProgressInv, Progress, Publishes, R
  <2> QED BY <1>3, <2>1 DEF Due, R
<1>5. CASE Authorized(c)
  <2>1. Goes(c, "seal") BY <1>5 DEF Authorize
  <2> QED BY <1>1, <1>2, <1>4, <1>5, <2>1, MovesProgress
<1>6. CASE ~Authorized(c)
  <2>1. Skips(c) BY <1>6 DEF Authorize
  <2> QED BY <1>1, <1>4, <1>6, <2>1, SkipProgress DEF Publishes, v
<1> QED BY <1>5, <1>6

\* A claim: an undisturbed call finds the entry, which it alone could have removed.
LEMMA ClaimProgress ==
    ASSUME Inv, ProgressInv, NEW c \in Callers, Claim(c) \/ ClaimMissed(c) PROVE ProgressInv'
<1> DEFINE r == call[c]
           v == Visited(c)
           q == Answered(c)
<1>1. /\ CallOK(r, policy) /\ r.at = "claim" /\ r.todo # {}
      /\ UNCHANGED <<environments, policy>>
  BY CallOf DEF Inv, Claim, ClaimMissed, Visiting, store
<1>2. v = Least(r.todo) /\ v \in r.todo BY <1>1, VisitedEntry DEF Inv
<1>3. Progress(r, environments, policy, subscriptions) BY DEF ProgressInv
<1>4. ~r.disturbed => Due(r, v, environments, policy) /\ r.todo \subseteq subscriptions
  BY <1>1, <1>2, <1>3 DEF Progress, Publishes
<1>5. /\ q.at = "visit" /\ q.session = r.session /\ q.own = r.own /\ q.todo = r.todo \ {v}
      /\ q.snapshot = r.snapshot /\ q.deliveries = r.deliveries \cup {v}
      /\ q.disturbed = r.disturbed
  BY <1>1 DEF CallOK, Fields, Answered
<1> HIDE DEF q
<1>6. ASSUME NEW now, subscriptions \ {v} \subseteq now
      PROVE  Progress(q, environments, policy, now)
  <2>1. ~r.disturbed => r.todo \ {v} \subseteq now BY <1>4, <1>6
  <2>2. r.at \in Publishes \ {"snapshot"} BY <1>1 DEF Publishes
  <2> QED BY <1>2, <1>3, <1>4, <1>5, <2>1, <2>2, VisitedProgress
<1>7. CASE ClaimMissed(c)
  <2>1. Skips(c) /\ v \notin subscriptions /\ subscriptions' = subscriptions
    BY <1>7 DEF ClaimMissed, store
  <2>2. r.disturbed BY <1>2, <1>4, <2>1
  <2> QED BY <1>1, <2>1, <2>2, SkipProgress DEF Publishes
<1>8. CASE Claim(c) /\ v.kind = "Subscribe"
  <2>1. subscriptions' = subscriptions \ {v} /\ Disturbs(c, q) BY <1>8 DEF Claim, q
  <2>2. Progress(q, environments', policy', subscriptions') BY <1>1, <1>6, <2>1
  <2> QED BY <2>1, <2>2, LoudProgress
<1>9. CASE Claim(c) /\ v.kind # "Subscribe"
  <2>1. subscriptions' = subscriptions /\ call' = [call EXCEPT ![c] = q] BY <1>9 DEF Claim, q
  <2>2. Progress(q, environments, policy, subscriptions) BY <1>6
  <2> QED BY <1>1, <2>1, <2>2, QuietProgress
<1> QED BY <1>7, <1>8, <1>9

\* A policy that is replaced disturbs every publication.
LEMMA ReplaceProgress ==
    ASSUME Inv, ProgressInv, NEW candidate \in Policies, Replace(candidate) PROVE ProgressInv'
<1> SUFFICES ASSUME NEW d \in Callers
             PROVE  Progress(call'[d], environments', policy', subscriptions')
  BY DEF ProgressInv
<1> DEFINE r == call[d]
           n == call'[d]
<1>1. CallOK(r, policy) /\ Progress(r, environments, policy, subscriptions)
  BY CallOf DEF Inv, ProgressInv
<1>2. CASE Publishing(d)
  <2>1. n = [r EXCEPT !.policies = @ \cup {candidate}, !.disturbed = TRUE]
    BY <1>2 DEF Replace
  <2>2. n.disturbed = TRUE /\ n.at = r.at /\ n.deliveries = r.deliveries
    BY <1>1, <2>1 DEF CallOK, Fields
  <2> QED BY <1>1, <2>2, DisturbedProgress
<1>3. CASE ~Publishing(d)
  <2>1. n = r BY <1>3 DEF Replace
  <2>2. r = NoCall \/ Request[r.session].operation # "Publish" BY <1>3 DEF Publishing, R
  <2> QED BY <1>1, <2>1, <2>2, DisturbedProgress
<1> QED BY <1>2, <1>3

\* Every step keeps the progress of the publications that it does not disturb.
LEMMA ProgressNext ==
    ASSUME Inv, ProgressInv, [Next]_vars PROVE ProgressInv'
<1>1. ASSUME NEW c \in Callers,
             \/ (\E s \in Sessions : Begin(c, s)) \/ Mark(c) \/ MarkRefused(c)
             \/ Act(c) \/ ActRefused(c) \/ PutRefused(c) \/ SealFails(c) \/ Finish(c)
      PROVE  ProgressInv'
  <2>1. UNCHANGED <<environments, policy, subscriptions>>
    BY <1>1 DEF Begin, Mark, MarkRefused, Act, ActRefused, PutRefused, SealFails, Finish, store
  <2> QED BY <1>1, <2>1, EarlyProgress DEF MarkRefused, ActRefused, PutRefused, SealFails, Finish
<1>2. ASSUME NEW c \in Callers, StoreEnvironment(c) PROVE ProgressInv'
  <2>1. CASE MaySetEnvironment(R(c).sender)
    BY <1>2, <2>1, NoProgress, LoudProgress DEF StoreEnvironment
  <2>2. CASE ~MaySetEnvironment(R(c).sender)
    BY <1>2, <2>2, EarlyProgress DEF StoreEnvironment
  <2> QED BY <2>1, <2>2
<1>3. ASSUME NEW c \in Callers, Put(c) PROVE ProgressInv'
  BY <1>3, NoProgress, LoudProgress DEF Put
<1>4. ASSUME NEW c \in Callers, Seal(c) PROVE ProgressInv'
  <2>1. /\ call[c].at = "seal" /\ Goes(c, "claim")
        /\ UNCHANGED <<environments, policy, subscriptions>>
    BY <1>4 DEF Seal, Visiting, store
  <2>2. ~call[c].disturbed => Due(call[c], Least(call[c].todo), environments, policy)
    BY <2>1 DEF ProgressInv, Progress, Publishes
  <2> QED BY <2>1, <2>2, MovesProgress
<1>5. ASSUME NEW c \in Callers, Process(c) PROVE ProgressInv'
  BY <1>1, <1>2, <1>3, <1>4, <1>5, ValidateProgress, SnapshotProgress, VisitProgress,
     AuthorizeProgress, ClaimProgress DEF Process
<1>6. ASSUME UNCHANGED <<call, environments, policy, subscriptions>> PROVE ProgressInv'
  BY <1>6 DEF ProgressInv
<1>7. ASSUME NEW a \in Agents, NEW key \in Keys, Provision(a, key) PROVE ProgressInv'
  BY <1>6, <1>7 DEF Provision
<1>8. ASSUME NEW time \in Times, SetClock(time) PROVE ProgressInv'
  BY <1>6, <1>8 DEF SetClock, store
<1>9. CASE UNCHANGED vars BY <1>6, <1>9 DEF vars, store
<1> QED BY <1>5, <1>7, <1>8, <1>9, ReplaceProgress DEF Next

\* A publication that no store call and no new policy disturbed answers exactly the matching
\* subscriptions that the policy allows, however its steps interleave with those of others.
THEOREM UndisturbedComplete == Spec => []UndisturbedPublicationComplete
<1>1. Init => ProgressInv BY NoProgress DEF Init, ProgressInv
<1>2. Inv /\ ProgressInv /\ [Next]_vars => ProgressInv' BY ProgressNext
<1>3. ProgressInv => UndisturbedPublicationComplete
  <2> SUFFICES ASSUME ProgressInv, NEW c \in Callers,
                      call[c].at = "visit", call[c].todo = {}, ~call[c].disturbed
               PROVE  call[c].deliveries =
                          {x \in call[c].snapshot : Due(call[c], x, environments, policy)}
    BY DEF UndisturbedPublicationComplete, Due, Matches, R
  <2> QED BY DEF ProgressInv, Progress, Publishes
<1> QED BY <1>1, <1>2, <1>3, Invariance, PTL DEF Spec
=============================================================================
