--------------------------- MODULE CaPolicyProofs ---------------------------
(***************************************************************************)
(* What an Agent can prepare, what build_policy can accept and what the CA *)
(* can store, for every configuration, every universe of values and any    *)
(* limits.                                                                 *)
(***************************************************************************)
EXTENDS CaPolicy, EnvironmentPolicyProofs, FiniteSetTheorems

(***************************************************************************)
(* Payloads.                                                               *)
(***************************************************************************)
\* The environments an Agent may sign are made of values the codec knows.
LEMMA UniverseMember == \A pair \in Universe : IsMember("environment", pair)
BY DataAssumption DEF IsMember

LEMMA EnvironmentSequence ==
    ASSUME NEW env \in Environments
    PROVE  /\ env \in Seq(Universe) /\ IsSequence(env)
           /\ \A i \in DOMAIN env : IsMember("environment", env[i]) /\ OfDomain(env[i].id)
<1> DEFINE P == {pair \in Universe : OfDomain(pair.id)}
<1>1. \E n \in Nat : env \in [1..n -> P]
  <2>1. MaxAttributes \in Nat BY PayloadLimitAssumption
  <2>2. (\E n \in 0..MaxAttributes : env \in [1..n -> P]) \/ env \in [1..(MaxAttributes + 1) -> P]
    <3> DEFINE Sq(n) == [1..n -> P]
    <3>1. Environments = (UNION {Sq(n) : n \in 0..MaxAttributes})
                             \cup {e \in Sq(MaxAttributes + 1) : UniqueAttributes(e)}
      BY DEF Environments
    <3> HIDE DEF Sq
    <3>2. (\E n \in 0..MaxAttributes : env \in Sq(n)) \/ env \in Sq(MaxAttributes + 1)
      <4>1. \/ env \in UNION {Sq(n) : n \in 0..MaxAttributes}
            \/ env \in {e \in Sq(MaxAttributes + 1) : UniqueAttributes(e)}
        BY <3>1
      <4> QED BY <4>1, Zenon
    <3> QED BY <3>2 DEF Sq
  <2>3. CASE \E n \in 0..MaxAttributes : env \in [1..n -> P] BY <2>1, <2>3
  <2>4. CASE env \in [1..(MaxAttributes + 1) -> P] BY <2>1, <2>4
  <2> QED BY <2>2, <2>3, <2>4
<1>2. PICK n \in Nat : env \in [1..n -> P] BY <1>1
<1>3. env \in Seq(Universe) BY <1>2
<1>4. Len(env) \in Nat /\ DOMAIN env = 1..Len(env) BY <1>3, LenProperties
<1>5. \A i \in DOMAIN env : env[i] \in Universe /\ OfDomain(env[i].id) BY <1>2
<1> QED BY <1>3, <1>4, <1>5, UniverseMember DEF IsSequence

\* A payload that the CA accepts is the encoding of the one environment it holds: neither a
\* shortened nor a prolonged encoding passes.
LEMMA PayloadHolds ==
    ASSUME NEW env \in Environments, NEW payload \in Payloads(env), NEW e \in EnvironmentIn(payload)
    PROVE  /\ EnvironmentIn(payload) = {e} /\ e = env
           /\ EncodeEnvironment(env) = Encoded(payload) /\ payload # <<>>
<1> DEFINE w == << 1 >> \o EncodeAttributes(env)
           Op == [kind |-> "SetEnvironment", attributes |-> env]
<1>1. env \in Seq(Universe) /\ \A i \in DOMAIN env : IsMember("environment", env[i])
  BY EnvironmentSequence
<1>2. w \in Seq(Symbols) /\ Len(w) \in Nat /\ Len(w) >= 2
  BY <1>1, EnvironmentWord
<1>3. payload = w \/ payload = SubSeq(w, 1, Len(w) - 1) \/ payload = Append(w, Trailer)
  BY DEF Payloads
<1> HIDE DEF w
<1>4. /\ payload \in Seq(Symbols) /\ payload # <<>> /\ Agrees(payload, 1, w)
      /\ Len(payload) = Len(w) => payload = w
  <2>1. CASE payload = w
    <3>1. payload # <<>> BY <1>2, <2>1
    <3> QED BY <1>2, <2>1, <3>1, AgreesSelf
  <2>2. CASE payload = SubSeq(w, 1, Len(w) - 1)
    <3>1. /\ payload \in Seq(Symbols) /\ Len(payload) = Len(w) - 1
          /\ \A i \in 1..(Len(w) - 1) : payload[i] = w[i]
      BY <1>2, <2>2
    <3>2. payload # <<>> /\ Len(payload) # Len(w) BY <1>2, <3>1
    <3>3. \A i \in 1..Len(w) : 1 + i - 1 = i /\ (i <= Len(payload) => i \in 1..(Len(w) - 1))
      BY <1>2, <3>1
    <3> QED BY <3>1, <3>2, <3>3 DEF Agrees
  <2>3. CASE payload = Append(w, Trailer)
    <3>1. Trailer \in Symbols BY DataAssumption DEF Symbols
    <3>2. /\ payload \in Seq(Symbols) /\ payload # <<>> /\ Len(payload) = Len(w) + 1
          /\ \A i \in 1..Len(w) : payload[i] = w[i]
      BY <1>2, <2>3, <3>1, AppendProperties
    <3>3. Len(payload) # Len(w) BY <1>2, <3>2
    <3>4. \A i \in 1..Len(w) : 1 + i - 1 = i BY <1>2
    <3> QED BY <3>2, <3>3, <3>4 DEF Agrees
  <2> QED BY <1>3, <2>1, <2>2, <2>3
<1>5. IF Len(env) <= MaxAttributes /\ Acceptable("environment", env) /\ Len(payload) = Len(w)
      THEN ParseOperation(payload) = [error |-> "None", operation |-> Op]
      ELSE ParseOperation(payload).error # "None"
  BY <1>1, <1>4, ParsesEnvironment DEF w
<1>6. ParseOperation(payload).error = "None" BY DEF EnvironmentIn
<1>7. /\ Len(env) <= MaxAttributes /\ Acceptable("environment", env) /\ payload = w
      /\ ParseOperation(payload) = [error |-> "None", operation |-> Op]
  BY <1>4, <1>5, <1>6
<1>8. EnvironmentIn(payload) = {env} BY <1>7 DEF EnvironmentIn
<1>9. EncodeEnvironment(env) = Encoded(payload) BY <1>1, <1>7, AcceptableEncodes DEF w
<1> QED BY <1>4, <1>8, <1>9

(***************************************************************************)
(* build_policy.                                                           *)
(***************************************************************************)
\* What the steps of build_policy need to know of the fields of a policy.
Shape(p) ==
    /\ DOMAIN p = {"rules", "allowed", "approvals", "isolation", "requirements"}
    /\ p.rules = [x \in Attributes |-> p.rules[x]]
    /\ p.isolation = [t \in Types |-> p.isolation[t]]
    /\ p.requirements = [pair \in Types \X Attributes |-> p.requirements[pair]]

PolicyInv == Shape(policy) /\ Grounded(policy)

LEMMA EmptyGrounded == Shape(EmptyPolicy) /\ Grounded(EmptyPolicy)
BY DEF Shape, Grounded, EmptyPolicy

\* Registering an attribute changes no rule that an isolation or a requirement rests on.
LEMMA RegisteredGrounded ==
    ASSUME NEW p, Shape(p), Grounded(p), NEW id, NEW kind, NEW authority,
           MayRegister(p, id, kind, authority), NEW values
    PROVE  LET q == [Registered(p, id, kind, authority) EXCEPT !.allowed[id] = @ \cup values]
           IN  Shape(q) /\ Grounded(q)
<1> DEFINE q == [Registered(p, id, kind, authority) EXCEPT !.allowed[id] = @ \cup values]
<1>1. /\ DOMAIN q = {"rules", "allowed", "approvals", "isolation", "requirements"}
      /\ q.rules = [p.rules EXCEPT ![id] = Rule(kind, authority)]
      /\ q.isolation = p.isolation /\ q.requirements = p.requirements
  BY DEF Shape, Registered
<1> HIDE DEF q
<1>2. Shape(q)
  BY <1>1 DEF Shape
<1>3. \A x \in Attributes : p.rules[x].authority = "CaIssued" => q.rules[x].authority = "CaIssued"
  <2>1. SUFFICES ASSUME NEW x \in Attributes, p.rules[x].authority = "CaIssued"
                 PROVE  q.rules[x].authority = "CaIssued"
    OBVIOUS
  <2>2. CASE x = id
    <3>1. p.rules[x] # NoRule
      BY <2>1 DEF NoRule, Rule
    <3>2. p.rules[x] = Rule(kind, authority)
      BY <2>2, <3>1 DEF MayRegister
    <3>3. q.rules[x] = Rule(kind, authority)
      BY <1>1, <2>2 DEF Shape
    <3> QED BY <2>1, <3>2, <3>3
  <2>3. CASE x # id
    <3>1. q.rules[x] = p.rules[x]
      BY <1>1, <2>3 DEF Shape
    <3> QED BY <2>1, <3>1
  <2> QED BY <2>2, <2>3
<1>4. Grounded(q)
  BY <1>1, <1>3 DEF Grounded
<1> QED BY <1>2, <1>4 DEF q

\* approve changes neither rules nor isolations nor requirements.
LEMMA ApprovedGrounded ==
    ASSUME NEW p, Shape(p), Grounded(p), NEW a, NEW id, NEW value
    PROVE  Shape(Approved(p, a, id, value)) /\ Grounded(Approved(p, a, id, value))
<1> DEFINE q == Approved(p, a, id, value)
<1>1. /\ DOMAIN q = {"rules", "allowed", "approvals", "isolation", "requirements"}
      /\ q.rules = p.rules /\ q.isolation = p.isolation /\ q.requirements = p.requirements
  BY DEF Shape, Approved
<1> HIDE DEF q
<1>2. Shape(q)
  BY <1>1 DEF Shape
<1>3. Grounded(q)
  BY <1>1 DEF Grounded
<1> QED BY <1>2, <1>3 DEF q

\* isolate takes only attributes that the CA issues.
LEMMA IsolatedGrounded ==
    ASSUME NEW p, Shape(p), Grounded(p), NEW e \in IsolationEntries,
           MayIsolate(p, e.type, e.attributes)
    PROVE  Shape(Isolated(p, e.type, e.attributes)) /\ Grounded(Isolated(p, e.type, e.attributes))
<1> DEFINE q   == Isolated(p, e.type, e.attributes)
           ids == {e.attributes[i] : i \in DOMAIN e.attributes}
<1>1. /\ DOMAIN q = {"rules", "allowed", "approvals", "isolation", "requirements"}
      /\ q.rules = p.rules /\ q.requirements = p.requirements
      /\ q.isolation = [p.isolation EXCEPT ![e.type] = ids]
  BY DEF Shape, Isolated
<1>2. \A x \in ids : x \in Attributes /\ p.rules[x].authority = "CaIssued"
  BY EntryAssumption DEF MayIsolate
<1> HIDE DEF q, ids
<1>3. Shape(q)
  BY <1>1 DEF Shape
<1>4. \A t \in Types : q.isolation[t] = IF t = e.type THEN ids ELSE p.isolation[t]
  BY <1>1 DEF Shape
<1>5. Grounded(q)
  BY <1>1, <1>2, <1>4 DEF Grounded
<1> QED BY <1>3, <1>5 DEF q

\* allow_subscriber_value takes only values of attributes that the CA issues.
LEMMA RequiredGrounded ==
    ASSUME NEW p, Shape(p), Grounded(p), NEW e \in RequirementEntries,
           \A v \in e.values : MayRequire(p, e.type, e.attribute, v)
    PROVE  LET q == [p EXCEPT !.requirements[<<e.type, e.attribute>>] = @ \cup e.values]
           IN  Shape(q) /\ Grounded(q)
<1> DEFINE q    == [p EXCEPT !.requirements[<<e.type, e.attribute>>] = @ \cup e.values]
           pair == <<e.type, e.attribute>>
<1>1. /\ DOMAIN q = {"rules", "allowed", "approvals", "isolation", "requirements"}
      /\ q.rules = p.rules /\ q.isolation = p.isolation
      /\ q.requirements = [p.requirements EXCEPT ![pair] = @ \cup e.values]
  BY DEF Shape
<1>2. e.values # {} => p.rules[e.attribute].authority = "CaIssued"
  BY DEF MayRequire
<1> HIDE DEF q
<1>3. Shape(q)
  BY <1>1 DEF Shape
<1>4. ASSUME NEW t \in Types, NEW x \in Attributes, q.requirements[<<t, x>>] # {}
      PROVE  p.rules[x].authority = "CaIssued"
  <2>1. CASE p.requirements[<<t, x>>] # {}
    BY <2>1 DEF Grounded
  <2>2. CASE p.requirements[<<t, x>>] = {}
    <3>1. <<t, x>> = pair /\ e.values # {}
      BY <1>1, <1>4, <2>2 DEF Shape
    <3>2. x = e.attribute
      BY <3>1
    <3> QED BY <1>2, <3>1, <3>2
  <2> QED BY <2>1, <2>2
<1>5. Grounded(q)
  BY <1>1, <1>4 DEF Grounded
<1> QED BY <1>3, <1>5 DEF q

\* Each entry of a configuration keeps the policy grounded; an error starts from nothing.
LEMMA BuildInv == ASSUME PolicyInv, BuildPolicy PROVE PolicyInv'
<1>1. ASSUME NEW e \in AttributeEntries, ConfigureAttribute(e) PROVE PolicyInv'
  <2> DEFINE q == [Registered(policy, e.id, e.kind, e.authority)
                    EXCEPT !.allowed[e.id] = @ \cup e.allowed]
  <2>1. \/ policy' = EmptyPolicy
        \/ policy' = q /\ MayRegister(policy, e.id, e.kind, e.authority)
    BY <1>1 DEF ConfigureAttribute, Configured
  <2> QED BY <2>1, EmptyGrounded, RegisteredGrounded DEF PolicyInv
<1>2. ASSUME NEW e \in ApprovalEntries, ConfigureApproval(e) PROVE PolicyInv'
  BY <1>2, EmptyGrounded, ApprovedGrounded DEF ConfigureApproval, Configured, PolicyInv
<1>3. ASSUME NEW e \in IsolationEntries, ConfigureIsolation(e) PROVE PolicyInv'
  BY <1>3, EmptyGrounded, IsolatedGrounded DEF ConfigureIsolation, Configured, PolicyInv
<1>4. ASSUME NEW e \in RequirementEntries, ConfigureRequirement(e) PROVE PolicyInv'
  BY <1>4, EmptyGrounded, RequiredGrounded DEF ConfigureRequirement, Configured, PolicyInv
<1>5. CASE Install
  BY <1>5 DEF Install, PolicyInv
<1> QED BY <1>1, <1>2, <1>3, <1>4, <1>5 DEF BuildPolicy

\* The rules of a policy.
Rules == {Rule(k, a) : k \in Kinds, a \in Authorities} \cup {NoRule}

Typing(p) ==
    /\ DOMAIN p = {"rules", "allowed", "approvals", "isolation", "requirements"}
    /\ p.rules \in [Attributes -> Rules]
    /\ p.isolation \in [Types -> SUBSET Attributes]
    /\ p.approvals = [pair \in Agents \X Attributes |-> p.approvals[pair]]
    /\ DOMAIN p.requirements = Types \X Attributes

\* An approved value is one that the rule and the allow list of its attribute admit.
Admitted(p, a, x) ==
    LET v == p.approvals[<<a, x>>]
    IN  v # NoValue => /\ IsValue(v) /\ ~TooLong(v)
                       /\ p.rules[x] = Rule(v.kind, "CaIssued")
                       /\ p.allowed[x] # {} => v \in p.allowed[x]

\* build_policy reads every attribute before the first approval.
Unapproved(p) == \A a \in Agents, x \in Attributes : p.approvals[<<a, x>>] = NoValue

\* While attributes are read nothing is approved, so a rule or an allow list that changes
\* cannot leave an approval behind that it does not admit.
ConfigInv ==
    /\ Typing(policy)
    /\ \A a \in Agents, x \in Attributes : Admitted(policy, a, x)
    /\ phase = 1 => Unapproved(policy)
    /\ phase \in 0..5 /\ entries \in 0..MaxEntries

\* One lemma for each call that build_policy makes.
LEMMA EmptyTyping ==
    Typing(EmptyPolicy) /\ Unapproved(EmptyPolicy)
<1>1. Unapproved(EmptyPolicy) BY DEF Unapproved, EmptyPolicy
<1>2. NoRule \in Rules BY DEF Rules
<1>3. Typing(EmptyPolicy) BY <1>2 DEF Typing, EmptyPolicy
<1> QED BY <1>1, <1>3

LEMMA UnapprovedAdmitted ==
    ASSUME NEW p, Unapproved(p) PROVE \A a \in Agents, x \in Attributes : Admitted(p, a, x)
BY DEF Unapproved, Admitted

LEMMA RegisteredTyping ==
    ASSUME NEW p, Typing(p), Unapproved(p), NEW e \in AttributeEntries
    PROVE  LET q == [Registered(p, e.id, e.kind, e.authority)
                        EXCEPT !.allowed[e.id] = @ \cup e.allowed]
           IN  Typing(q) /\ Unapproved(q)
<1> DEFINE q == [Registered(p, e.id, e.kind, e.authority) EXCEPT !.allowed[e.id] = @ \cup e.allowed]
<1>1. /\ DOMAIN q = {"rules", "allowed", "approvals", "isolation", "requirements"}
      /\ q.rules = [p.rules EXCEPT ![e.id] = Rule(e.kind, e.authority)]
      /\ q.isolation = p.isolation /\ q.requirements = p.requirements
      /\ q.approvals = p.approvals
  BY DEF Typing, Registered
<1> HIDE DEF q
<1>2. Rule(e.kind, e.authority) \in Rules BY EntryAssumption DEF Rules
<1>3. q.rules \in [Attributes -> Rules] BY <1>1, <1>2 DEF Typing
<1>4. Typing(q) BY <1>1, <1>3 DEF Typing
<1>5. Unapproved(q) BY <1>1 DEF Unapproved
<1> QED BY <1>4, <1>5 DEF q

LEMMA ApprovedTyping ==
    ASSUME NEW p, Typing(p), NEW e \in ApprovalEntries, ~TooLong(e.value),
           MayApprove(p, e.agent, e.attribute, e.value),
           \A a \in Agents, x \in Attributes : Admitted(p, a, x)
    PROVE  LET q == Approved(p, e.agent, e.attribute, e.value)
           IN  Typing(q) /\ \A a \in Agents, x \in Attributes : Admitted(q, a, x)
<1> DEFINE q == Approved(p, e.agent, e.attribute, e.value)
           pair == <<e.agent, e.attribute>>
<1>1. /\ DOMAIN q = {"rules", "allowed", "approvals", "isolation", "requirements"}
      /\ q.rules = p.rules /\ q.isolation = p.isolation /\ q.requirements = p.requirements
      /\ q.allowed = p.allowed /\ q.approvals = [p.approvals EXCEPT ![pair] = e.value]
  BY DEF Typing, Approved
<1>2. e.agent \in Agents /\ e.attribute \in Attributes /\ IsValue(e.value) BY EntryAssumption
<1>3. /\ p.rules[e.attribute] = Rule(e.value.kind, "CaIssued")
      /\ p.allowed[e.attribute] # {} => e.value \in p.allowed[e.attribute]
  <2>1. /\ p.rules[e.attribute] # NoRule /\ p.rules[e.attribute].authority = "CaIssued"
        /\ p.rules[e.attribute].kind = e.value.kind
        /\ p.allowed[e.attribute] # {} => e.value \in p.allowed[e.attribute]
    BY DEF MayApprove, ConfiguredValue
  <2>2. p.rules[e.attribute] \in Rules BY <1>2 DEF Typing
  <2>3. PICK k \in Kinds, a \in Authorities : p.rules[e.attribute] = Rule(k, a)
    BY <2>1, <2>2 DEF Rules
  <2>4. k = e.value.kind /\ a = "CaIssued"
    BY <2>1, <2>3 DEF Rule
  <2> QED BY <2>1, <2>3, <2>4
<1> HIDE DEF q
<1>4. q.approvals = [x \in Agents \X Attributes |-> q.approvals[x]] BY <1>1 DEF Typing
<1>5. Typing(q) BY <1>1, <1>4 DEF Typing
<1>6. ASSUME NEW a \in Agents, NEW x \in Attributes PROVE Admitted(q, a, x)
  <2>1. CASE <<a, x>> = pair
    <3>1. a = e.agent /\ x = e.attribute BY <2>1
    <3>2. q.approvals[<<a, x>>] = e.value BY <1>1, <2>1 DEF Typing
    <3> QED BY <1>1, <1>2, <1>3, <3>1, <3>2 DEF Admitted
  <2>2. CASE <<a, x>> # pair
    <3>1. q.approvals[<<a, x>>] = p.approvals[<<a, x>>] BY <1>1, <2>2 DEF Typing
    <3>2. Admitted(p, a, x) OBVIOUS
    <3> QED BY <1>1, <3>1, <3>2 DEF Admitted
  <2> QED BY <2>1, <2>2
<1> QED BY <1>5, <1>6 DEF q

LEMMA IsolatedTyping ==
    ASSUME NEW p, Typing(p), NEW e \in IsolationEntries
    PROVE  LET q == Isolated(p, e.type, e.attributes)
           IN  Typing(q) /\ q.rules = p.rules /\ q.allowed = p.allowed /\ q.approvals = p.approvals
<1> DEFINE q == Isolated(p, e.type, e.attributes)
           ids == {e.attributes[i] : i \in DOMAIN e.attributes}
<1>1. /\ DOMAIN q = {"rules", "allowed", "approvals", "isolation", "requirements"}
      /\ q.rules = p.rules /\ q.requirements = p.requirements
      /\ q.allowed = p.allowed /\ q.approvals = p.approvals
      /\ q.isolation = [p.isolation EXCEPT ![e.type] = ids]
  BY DEF Typing, Isolated
<1>2. ids \in SUBSET Attributes BY EntryAssumption
<1> HIDE DEF q, ids
<1>3. q.isolation \in [Types -> SUBSET Attributes] BY <1>1, <1>2 DEF Typing
<1>4. Typing(q) BY <1>1, <1>3 DEF Typing
<1> QED BY <1>1, <1>4 DEF q

LEMMA RequiredTyping ==
    ASSUME NEW p, Typing(p), NEW e \in RequirementEntries
    PROVE  LET q == [p EXCEPT !.requirements[<<e.type, e.attribute>>] = @ \cup e.values]
           IN  Typing(q) /\ q.rules = p.rules /\ q.allowed = p.allowed /\ q.approvals = p.approvals
<1> DEFINE q == [p EXCEPT !.requirements[<<e.type, e.attribute>>] = @ \cup e.values]
<1>1. /\ DOMAIN q = {"rules", "allowed", "approvals", "isolation", "requirements"}
      /\ q.rules = p.rules /\ q.isolation = p.isolation
      /\ q.allowed = p.allowed /\ q.approvals = p.approvals
      /\ DOMAIN q.requirements = DOMAIN p.requirements
  BY DEF Typing
<1> HIDE DEF q
<1>2. Typing(q) BY <1>1 DEF Typing
<1> QED BY <1>1, <1>2 DEF q

\* build_policy keeps every approval admitted.
LEMMA ConfigStep == ASSUME ConfigInv, BuildPolicy PROVE ConfigInv'
<1> DEFINE A(p) == \A a \in Agents, x \in Attributes : Admitted(p, a, x)
<1>1. ASSUME NEW list \in 1..4, NEW accepted, NEW next,
             Reads(list), Configured(accepted, list, next),
             accepted => Typing(next) /\ A(next), accepted /\ list = 1 => Unapproved(next)
      PROVE  ConfigInv'
  <2>1. entries' \in 0..MaxEntries BY <1>1, LimitAssumption DEF Reads, ConfigInv
  <2>2. CASE accepted
    <3>1. phase' = list /\ policy' = next BY <1>1, <2>2 DEF Configured
    <3>2. Typing(policy') /\ A(policy') BY <1>1, <2>2, <3>1
    <3>3. phase' = 1 => Unapproved(policy') BY <1>1, <2>2, <3>1
    <3>4. phase' \in 0..5 BY <3>1
    <3> QED BY <2>1, <3>2, <3>3, <3>4 DEF ConfigInv, Admitted, Typing, Unapproved
  <2>3. CASE ~accepted
    <3>1. phase' = 0 /\ policy' = EmptyPolicy BY <1>1, <2>3 DEF Configured
    <3>2. Typing(policy') /\ A(policy') /\ Unapproved(policy')
      BY <3>1, EmptyTyping, UnapprovedAdmitted
    <3> QED BY <2>1, <3>1, <3>2 DEF ConfigInv, Admitted, Typing, Unapproved
  <2> QED BY <2>2, <2>3
<1>2. ASSUME NEW e \in AttributeEntries, ConfigureAttribute(e) PROVE ConfigInv'
  <2> DEFINE q == [Registered(policy, e.id, e.kind, e.authority)
                    EXCEPT !.allowed[e.id] = @ \cup e.allowed]
  <2>1. Reads(1) /\ \E accepted : Configured(accepted, 1, q) BY <1>2 DEF ConfigureAttribute
  <2>2. phase = 1 BY <2>1 DEF Reads
  <2>3. Typing(q) /\ Unapproved(q) BY <2>2, RegisteredTyping DEF ConfigInv
  <2>4. A(q) BY <2>3, UnapprovedAdmitted
  <2> HIDE DEF q, A
  <2>5. 1 \in 1..4 OBVIOUS
  <2> QED BY <1>1, <2>1, <2>3, <2>4, <2>5
<1>3. ASSUME NEW e \in ApprovalEntries, ConfigureApproval(e) PROVE ConfigInv'
  <2> DEFINE q == Approved(policy, e.agent, e.attribute, e.value)
             accepted == /\ ~TooLong(e.value)
                         /\ MayApprove(policy, e.agent, e.attribute, e.value)
  <2>1. Reads(2) /\ Configured(accepted, 2, q) BY <1>3 DEF ConfigureApproval
  <2>2. accepted => Typing(q) /\ A(q) BY ApprovedTyping DEF ConfigInv
  <2> HIDE DEF q, A, accepted
  <2>3. 2 \in 1..4 /\ 2 # 1 OBVIOUS
  <2> QED BY <1>1, <2>1, <2>2, <2>3
<1>4. ASSUME NEW e \in IsolationEntries, ConfigureIsolation(e) PROVE ConfigInv'
  <2> DEFINE q == Isolated(policy, e.type, e.attributes)
  <2>1. Reads(3) /\ \E accepted : Configured(accepted, 3, q) BY <1>4 DEF ConfigureIsolation
  <2>2. /\ Typing(q) /\ q.rules = policy.rules
        /\ q.allowed = policy.allowed /\ q.approvals = policy.approvals
    BY IsolatedTyping DEF ConfigInv
  <2> HIDE DEF q
  <2>3. A(q) BY <2>2 DEF ConfigInv, Admitted
  <2> HIDE DEF A
  <2>4. 3 \in 1..4 /\ 3 # 1 OBVIOUS
  <2> QED BY <1>1, <2>1, <2>2, <2>3, <2>4
<1>5. ASSUME NEW e \in RequirementEntries, ConfigureRequirement(e) PROVE ConfigInv'
  <2> DEFINE q == [policy EXCEPT !.requirements[<<e.type, e.attribute>>] = @ \cup e.values]
  <2>1. Reads(4) /\ \E accepted : Configured(accepted, 4, q) BY <1>5 DEF ConfigureRequirement
  <2>2. /\ Typing(q) /\ q.rules = policy.rules
        /\ q.allowed = policy.allowed /\ q.approvals = policy.approvals
    BY RequiredTyping DEF ConfigInv
  <2> HIDE DEF q
  <2>3. A(q) BY <2>2 DEF ConfigInv, Admitted
  <2> HIDE DEF A
  <2>4. 4 \in 1..4 /\ 4 # 1 OBVIOUS
  <2> QED BY <1>1, <2>1, <2>2, <2>3, <2>4
<1>6. CASE Install
  <2>1. policy' = policy /\ entries' = entries /\ phase' = 5 BY <1>6 DEF Install, Phases
  <2>2. Typing(policy') /\ A(policy') BY <2>1 DEF ConfigInv
  <2>3. phase' \in 0..5 /\ entries' \in 0..MaxEntries /\ phase' # 1 BY <2>1 DEF ConfigInv
  <2> QED BY <2>2, <2>3 DEF ConfigInv, Typing, Admitted, Unapproved
<1> QED BY <1>2, <1>3, <1>4, <1>5, <1>6 DEF BuildPolicy

(***************************************************************************)
(* The builders of an Agent.                                               *)
(***************************************************************************)
\* The values and the clauses that the builders see.
Values ==
    {pair.value : pair \in Universe}
    \cup UNION {{values[i] : i \in DOMAIN values} : values \in Boundaries}

Clauses == [attribute : Int, operator : {Operators[i] : i \in DOMAIN Operators}, value : Values]

\* What the builders keep: a list that the parser will accept, of values the compiler let
\* through, and a predicate that still starts with its boundary.
DraftInv ==
    /\ domain \in Domains
    /\ attributes \in Seq(Universe) /\ Len(attributes) <= MaxAttributes
    /\ Acceptable("environment", attributes)
    /\ \A i \in DOMAIN attributes : Typed(attributes[i])
    /\ boundary \in Boundaries \cup {<<>>}
    /\ clauses \in Seq(Clauses) /\ ~PredicateOversized(clauses)
    /\ boundary # <<>> =>
           /\ DOMAIN boundary = DOMAIN BoundaryIds(domain)
           /\ \A i \in DOMAIN boundary :
                  /\ i \in DOMAIN clauses
                  /\ clauses[i] = Clause(BoundaryIds(domain)[i], "Eq", boundary[i])

\* Clauses and boundaries are what the codec and the schemas know.
LEMMA ClauseMember == \A c \in Clauses : IsMember("predicate", c)
<1>1. SUFFICES ASSUME NEW c \in Clauses PROVE IsMember("predicate", c) OBVIOUS
<1>2. /\ c = Clause(c.attribute, c.operator, c.value) /\ c.attribute \in Int
      /\ \E i \in DOMAIN Operators : c.operator = Operators[i]
  BY DEF Clauses, Clause
<1>3. c.value \in Values BY DEF Clauses
<1>4. IsValue(c.value) BY <1>3, DataAssumption DEF Values
<1> QED BY <1>2, <1>4 DEF IsMember

LEMMA BoundaryIdsType ==
    ASSUME NEW d \in Domains
    PROVE  /\ BoundaryIds(d) \in Seq(Int) /\ Len(BoundaryIds(d)) \in {1, 2}
           /\ \A i \in DOMAIN BoundaryIds(d) :
                  SchemaEntry(d, BoundaryIds(d)[i]).authority = "CaIssued"
<1> DEFINE ids == BoundaryIds(d)
<1>1. Base(d) \in Int BY DEF Base, Domains
<1>2. \A k : Issued(k).authority = "CaIssued" BY DEF Issued, Rule
<1>3. /\ 1 \in DOMAIN Schema(d) /\ Schema(d)[1].authority = "CaIssued"
      /\ d = "robot_swarm" => 2 \in DOMAIN Schema(d) /\ Schema(d)[2].authority = "CaIssued"
  <2>1. /\ 1 \in DOMAIN SmartBuilding /\ SmartBuilding[1] = Issued("Bytes")
        /\ 1 \in DOMAIN MultiTenant /\ MultiTenant[1] = Issued("Bytes")
        /\ 1 \in DOMAIN RobotSwarm /\ RobotSwarm[1] = Issued("Bytes")
        /\ 2 \in DOMAIN RobotSwarm /\ RobotSwarm[2] = Issued("I64")
    BY DEF SmartBuilding, RobotSwarm, MultiTenant
  <2>2. CASE d = "smart_building" BY <1>2, <2>1, <2>2 DEF Schema
  <2>3. CASE d = "robot_swarm" BY <1>2, <2>1, <2>3 DEF Schema
  <2>4. CASE d = "multi_tenant" BY <1>2, <2>1, <2>4 DEF Schema
  <2> QED BY <2>2, <2>3, <2>4 DEF Domains
<1>4. \A i \in DOMAIN Schema(d) : i \in Int => SchemaEntry(d, Base(d) + i) = Schema(d)[i]
  BY <1>1 DEF SchemaEntry
<1>5. CASE d = "robot_swarm"
  <2>1. ids = <<Base(d) + 1, Base(d) + 2>> BY <1>5 DEF BoundaryIds
  <2>2. ids \in Seq(Int) /\ Len(ids) = 2 /\ DOMAIN ids = 1..2 BY <1>1, <2>1
  <2>3. ids[1] = Base(d) + 1 /\ ids[2] = Base(d) + 2 BY <2>1
  <2>4. \A i \in 1..2 : i = 1 \/ i = 2 OBVIOUS
  <2> HIDE DEF ids
  <2>5. /\ SchemaEntry(d, ids[1]).authority = "CaIssued"
        /\ SchemaEntry(d, ids[2]).authority = "CaIssued"
    BY <1>3, <1>4, <1>5, <2>3
  <2>6. \A i \in DOMAIN ids : SchemaEntry(d, ids[i]).authority = "CaIssued"
    BY <2>2, <2>4, <2>5
  <2> QED BY <2>2, <2>6 DEF ids
<1>6. CASE d # "robot_swarm"
  <2>1. ids = <<Base(d) + 1>> BY <1>6 DEF BoundaryIds
  <2>2. ids \in Seq(Int) /\ Len(ids) = 1 /\ DOMAIN ids = 1..1 BY <1>1, <2>1
  <2>3. ids[1] = Base(d) + 1 BY <2>1
  <2>4. \A i \in 1..1 : i = 1 OBVIOUS
  <2> HIDE DEF ids
  <2>5. SchemaEntry(d, ids[1]).authority = "CaIssued"
    BY <1>3, <1>4, <2>3
  <2>6. \A i \in DOMAIN ids : SchemaEntry(d, ids[i]).authority = "CaIssued"
    BY <2>2, <2>4, <2>5
  <2> QED BY <2>2, <2>6 DEF ids
<1> QED BY <1>5, <1>6

\* Each call of a builder keeps its list within what the parser accepts.
LEMMA AddsAttribute == ASSUME DraftInv, NEW pair \in Universe, AddAttribute(pair) PROVE DraftInv'
<1>1. /\ domain' = domain /\ boundary' = boundary /\ clauses' = clauses
      /\ attributes' = Append(attributes, pair) /\ Typed(pair)
      /\ ~TooLong(pair.value) /\ \A i \in DOMAIN attributes : attributes[i].id # pair.id
      /\ Len(attributes) < MaxAttributes
  BY DEF AddAttribute, MayAddAttribute
<1>2. /\ attributes \in Seq(Universe) /\ Acceptable("environment", attributes)
      /\ \A i \in DOMAIN attributes : Typed(attributes[i])
  BY DEF DraftInv
<1> DEFINE n == Len(attributes)
           s == Append(attributes, pair)
<1>3. /\ n \in Nat /\ DOMAIN attributes = 1..n /\ MaxAttributes \in Nat
      /\ s \in Seq(Universe) /\ Len(s) = n + 1 /\ DOMAIN s = 1..(n + 1)
      /\ \A i \in 1..n : s[i] = attributes[i]
      /\ s[n + 1] = pair
  BY <1>2, LenProperties, AppendProperties, PayloadLimitAssumption
<1> HIDE DEF n, s
<1>4. UniqueAttributes(attributes) /\ \A i \in DOMAIN attributes : ~TooLong(attributes[i].value)
  BY <1>2, AcceptableEncodes
<1>5. \A i \in DOMAIN s : ~TooLong(s[i].value) /\ Typed(s[i])
  BY <1>1, <1>2, <1>3, <1>4
<1>6. UniqueAttributes(s)
  <2>1. SUFFICES ASSUME NEW i \in DOMAIN s, NEW j \in DOMAIN s, s[i].id = s[j].id PROVE i = j
    BY DEF UniqueAttributes
  <2>2. (i \in 1..n \/ i = n + 1) /\ (j \in 1..n \/ j = n + 1) BY <1>3
  <2>3. CASE i \in 1..n /\ j \in 1..n BY <1>3, <1>4, <2>1, <2>3 DEF UniqueAttributes
  <2>4. CASE i \in 1..n /\ j = n + 1 BY <1>1, <1>3, <2>1, <2>4
  <2>5. CASE i = n + 1 /\ j \in 1..n BY <1>1, <1>3, <2>1, <2>5
  <2> QED BY <2>2, <2>3, <2>4, <2>5
<1>7. Acceptable("environment", s) BY <1>3, <1>5, <1>6, AcceptableEncodes
<1>8. attributes' = s /\ s \in Seq(Universe) /\ Len(s) <= MaxAttributes
  BY <1>1, <1>3 DEF s, n
<1>9. \A i \in DOMAIN s : SchemaEntry(domain', s[i].id).kind = s[i].value.kind
  BY <1>1, <1>5 DEF Typed
<1>10. domain' \in Domains /\ boundary' \in Boundaries \cup {<<>>}
  BY <1>1 DEF DraftInv
<1>11. clauses' \in Seq(Clauses) /\ ~PredicateOversized(clauses') BY <1>1 DEF DraftInv
<1>12. boundary' # <<>> =>
           /\ DOMAIN boundary' = DOMAIN BoundaryIds(domain')
           /\ \A i \in DOMAIN boundary' :
                  /\ i \in DOMAIN clauses'
                  /\ clauses'[i] = Clause(BoundaryIds(domain')[i], "Eq", boundary'[i])
  BY <1>1 DEF DraftInv
<1> QED BY <1>7, <1>8, <1>9, <1>10, <1>11, <1>12
     DEF DraftInv, Acceptable, MayFollow, Before, TooLong, Typed, PredicateOversized

LEMMA StartsPredicate ==
    ASSUME DraftInv, NEW values \in Boundaries, StartPredicate(values) PROVE DraftInv'
<1> DEFINE ids == BoundaryIds(domain)
           s == BoundaryClauses(domain, values)
<1>1. /\ domain' = domain /\ boundary' = values /\ attributes' = attributes /\ clauses' = s
      /\ DOMAIN values = DOMAIN ids /\ \A i \in DOMAIN values : ~TooLong(values[i])
  BY DEF StartPredicate, MayBound, MayAddClause
<1>2. domain \in Domains /\ domain' \in Domains BY <1>1 DEF DraftInv
<1>3. ids \in Seq(Int) /\ Len(ids) \in {1, 2} BY <1>2, BoundaryIdsType
<1>4. /\ DOMAIN s = DOMAIN ids
      /\ \A i \in DOMAIN ids : s[i] = Clause(ids[i], "Eq", values[i])
  BY DEF BoundaryClauses
<1>5. s = [i \in 1..Len(ids) |-> s[i]] BY <1>3 DEF BoundaryClauses
<1> HIDE DEF ids, s
<1>6. DOMAIN ids = 1..Len(ids) /\ Len(ids) \in Nat /\ \A i \in DOMAIN ids : ids[i] \in Int
  BY <1>3
<1>7. "Eq" \in {Operators[i] : i \in DOMAIN Operators} BY DEF Operators
<1>8. ASSUME NEW i \in DOMAIN ids PROVE s[i] \in Clauses /\ ~TooLong(s[i].value)
  <2>1. values[i] \in Values BY <1>1 DEF Values
  <2> QED BY <1>1, <1>4, <1>6, <1>7, <2>1 DEF Clauses, Clause
<1>9. s \in Seq(Clauses) /\ Len(s) = Len(ids) BY <1>5, <1>6, <1>8
<1>10. ~PredicateOversized(s)
  <2>1. MaxClauses \in Nat /\ MaxClauses >= 2 BY LimitAssumption, PayloadLimitAssumption
  <2>2. ~(Len(s) > MaxClauses) BY <1>3, <1>9, <2>1
  <2> QED BY <1>4, <1>8, <2>2 DEF PredicateOversized
<1>11. /\ DOMAIN values = DOMAIN BoundaryIds(domain')
       /\ \A i \in DOMAIN values :
              i \in DOMAIN s /\ s[i] = Clause(BoundaryIds(domain')[i], "Eq", values[i])
  BY <1>1, <1>4 DEF ids
<1>12. /\ attributes' \in Seq(Universe) /\ Len(attributes') <= MaxAttributes
       /\ Acceptable("environment", attributes')
       /\ \A i \in DOMAIN attributes' :
              SchemaEntry(domain', attributes'[i].id).kind = attributes'[i].value.kind
  BY <1>1 DEF DraftInv, Typed
<1> QED BY <1>1, <1>2, <1>9, <1>10, <1>11, <1>12
     DEF DraftInv, Acceptable, MayFollow, Before, TooLong, Typed, PredicateOversized

LEMMA AddsClause ==
    ASSUME DraftInv, NEW pair \in Universe, NEW o \in DOMAIN Operators,
           AddClause(pair, Operators[o])
    PROVE  DraftInv'
<1> DEFINE c == Clause(pair.id, Operators[o], pair.value)
           n == Len(clauses)
           s == Append(clauses, c)
<1>1. /\ domain' = domain /\ boundary' = boundary /\ attributes' = attributes /\ clauses' = s
      /\ ~TooLong(pair.value) /\ Len(clauses) < MaxClauses
  BY DEF AddClause, MayAddClause
<1>2. /\ clauses \in Seq(Clauses) /\ ~PredicateOversized(clauses) BY DEF DraftInv
<1>3. c \in Clauses /\ c.value = pair.value
  BY DataAssumption DEF Clauses, Clause, Values
<1> HIDE DEF c
<1>4. /\ n \in Nat /\ DOMAIN clauses = 1..n /\ MaxClauses \in Nat
      /\ s \in Seq(Clauses) /\ Len(s) = n + 1 /\ DOMAIN s = 1..(n + 1)
      /\ \A i \in 1..n : s[i] = clauses[i]
      /\ s[n + 1] = c
  BY <1>2, <1>3, LenProperties, AppendProperties, PayloadLimitAssumption
<1> HIDE DEF s
<1>5. ~PredicateOversized(s)
  <2>1. ~(Len(s) > MaxClauses) BY <1>1, <1>4
  <2>2. \A i \in DOMAIN s : ~TooLong(s[i].value)
    BY <1>1, <1>2, <1>3, <1>4 DEF PredicateOversized
  <2> QED BY <2>1, <2>2 DEF PredicateOversized
<1>6. domain' \in Domains /\ boundary' \in Boundaries \cup {<<>>} BY <1>1 DEF DraftInv
<1>7. boundary' # <<>> =>
           /\ DOMAIN boundary' = DOMAIN BoundaryIds(domain')
           /\ \A i \in DOMAIN boundary' :
                  i \in DOMAIN s /\ s[i] = Clause(BoundaryIds(domain')[i], "Eq", boundary'[i])
  BY <1>1, <1>4 DEF DraftInv
<1>8. /\ attributes' \in Seq(Universe) /\ Len(attributes') <= MaxAttributes
      /\ Acceptable("environment", attributes')
      /\ \A i \in DOMAIN attributes' :
              SchemaEntry(domain', attributes'[i].id).kind = attributes'[i].value.kind
  BY <1>1 DEF DraftInv, Typed
<1> QED BY <1>1, <1>4, <1>5, <1>6, <1>7, <1>8
     DEF DraftInv, Acceptable, MayFollow, Before, TooLong, Typed, PredicateOversized

(***************************************************************************)
(* The invariant of the specification and the theorems.                    *)
(***************************************************************************)
\* What the CA keeps for an Agent: the canonical encoding of one environment of the Agent.
Held(p, a, payload) ==
    \E e \in EnvironmentIn(payload) :
        /\ EnvironmentIn(payload) = {e} /\ e \in Seq(Universe)
        /\ EncodeEnvironment(e) = Encoded(payload)
        /\ ValidEnvironment(p, a, e)

StoredInv ==
    /\ stored = [a \in Agents |-> stored[a]]
    /\ \A a \in Agents : stored[a] # <<>> => phase = 5 /\ Held(policy, a, stored[a])

\* The inductive invariant.  What is stored can be traced back to the policy because no policy
\* is built after one is installed.
Inv == DraftInv /\ ConfigInv /\ PolicyInv /\ StoredInv

\* Steps that leave the builders, or the policy, alone.
LEMMA DraftUnchanged ==
    ASSUME DraftInv, domain' = domain, attributes' = attributes, boundary' = boundary,
           clauses' = clauses
    PROVE  DraftInv'
<1>1. /\ domain' \in Domains
      /\ attributes' \in Seq(Universe) /\ Len(attributes') <= MaxAttributes
      /\ Acceptable("environment", attributes')
      /\ boundary' \in Boundaries \cup {<<>>}
      /\ clauses' \in Seq(Clauses) /\ ~PredicateOversized(clauses')
  BY DEF DraftInv
<1>2. \A i \in DOMAIN attributes' :
          SchemaEntry(domain', attributes'[i].id).kind = attributes'[i].value.kind
  BY DEF DraftInv, Typed
<1>3. boundary' # <<>> =>
           /\ DOMAIN boundary' = DOMAIN BoundaryIds(domain')
           /\ \A i \in DOMAIN boundary' :
                  /\ i \in DOMAIN clauses'
                  /\ clauses'[i] = Clause(BoundaryIds(domain')[i], "Eq", boundary'[i])
  BY DEF DraftInv
<1> QED BY <1>1, <1>2, <1>3
     DEF DraftInv, Acceptable, MayFollow, Before, TooLong, Typed, PredicateOversized

LEMMA PolicyUnchanged ==
    ASSUME ConfigInv, PolicyInv, StoredInv, policy' = policy, phase' = phase, entries' = entries
    PROVE  ConfigInv' /\ PolicyInv' /\ (stored' = stored => StoredInv')
<1>1. ConfigInv'
  <2>1. Typing(policy') /\ \A a \in Agents, x \in Attributes : Admitted(policy', a, x)
    BY DEF ConfigInv
  <2>2. /\ phase' = 1 => Unapproved(policy')
        /\ phase' \in 0..5 /\ entries' \in 0..MaxEntries
    BY DEF ConfigInv
  <2> QED BY <2>1, <2>2 DEF ConfigInv, Typing, Admitted, Unapproved
<1>2. PolicyInv'
  <2>1. Shape(policy') /\ Grounded(policy') BY DEF PolicyInv
  <2> QED BY <2>1 DEF PolicyInv, Shape, Grounded
<1>3. ASSUME stored' = stored PROVE StoredInv'
  <2>1. /\ stored' = [a \in Agents |-> stored'[a]]
        /\ \A a \in Agents : stored'[a] # <<>> => phase' = 5 /\ Held(policy', a, stored'[a])
    BY <1>3 DEF StoredInv
  <2> QED BY <2>1 DEF StoredInv, Held, ValidEnvironment, ValidAttribute
<1> QED BY <1>1, <1>2, <1>3

\* Init and each part of Next.
LEMMA InitInv == ASSUME Init PROVE Inv
<1>1. DraftInv
  <2>1. Acceptable("environment", <<>>) /\ ~PredicateOversized(<<>>)
    BY PayloadLimitAssumption DEF Acceptable, PredicateOversized
  <2>2. attributes \in Seq(Universe) /\ clauses \in Seq(Clauses) /\ Len(attributes) <= MaxAttributes
    BY PayloadLimitAssumption DEF Init
  <2> QED BY <2>1, <2>2 DEF Init, DraftInv
<1>2. ConfigInv BY EmptyTyping, UnapprovedAdmitted, LimitAssumption DEF Init, ConfigInv
<1>3. PolicyInv BY EmptyGrounded DEF Init, PolicyInv
<1>4. StoredInv BY DEF Init, StoredInv
<1> QED BY <1>1, <1>2, <1>3, <1>4 DEF Inv

LEMMA PrepareStep == ASSUME Inv, Prepare PROVE Inv'
<1>1. policy' = policy /\ phase' = phase /\ entries' = entries /\ stored' = stored
  BY DEF Prepare, AddAttribute, StartPredicate, AddClause
<1>2. DraftInv'
  BY AddsAttribute, StartsPredicate, AddsClause DEF Inv, Prepare
<1> QED BY <1>1, <1>2, PolicyUnchanged DEF Inv

LEMMA BuildStep == ASSUME Inv, BuildPolicy PROVE Inv'
<1>1. /\ domain' = domain /\ attributes' = attributes /\ boundary' = boundary
      /\ clauses' = clauses /\ stored' = stored /\ phase \in 1..4
  <2>1. CASE \E list \in 1..4 : Reads(list) BY <2>1 DEF Reads, request
  <2>2. CASE Install BY <2>2 DEF Install, Phases, request
  <2>3. ASSUME ~Install PROVE \E list \in {1, 2, 3, 4} : Reads(list)
    BY <2>3 DEF BuildPolicy, ConfigureAttribute, ConfigureApproval, ConfigureIsolation,
                ConfigureRequirement
  <2> QED BY <2>1, <2>2, <2>3
<1>2. DraftInv' BY <1>1, DraftUnchanged DEF Inv
<1>3. ConfigInv' BY ConfigStep DEF Inv
<1>4. PolicyInv' BY BuildInv DEF Inv
<1>5. StoredInv'
  <2>1. \A a \in Agents : stored'[a] = <<>> BY <1>1 DEF Inv, StoredInv
  <2>2. stored' = [a \in Agents |-> stored'[a]] BY <1>1 DEF Inv, StoredInv
  <2> QED BY <2>1, <2>2 DEF StoredInv
<1> QED BY <1>2, <1>3, <1>4, <1>5 DEF Inv

LEMMA SetEnvironmentStep ==
    ASSUME Inv, NEW a \in Agents, NEW environment \in Environments,
           NEW payload \in Payloads(environment), SetEnvironment(a, payload)
    PROVE  Inv'
<1>1. /\ domain' = domain /\ attributes' = attributes /\ boundary' = boundary
      /\ clauses' = clauses /\ policy' = policy /\ phase' = phase /\ entries' = entries
      /\ stored' = [stored EXCEPT ![a] = payload] /\ phase = 5
  BY DEF SetEnvironment, request, Installed, Phases
<1>2. DraftInv' BY <1>1, DraftUnchanged DEF Inv
<1>3. ConfigInv' /\ PolicyInv' BY <1>1, PolicyUnchanged DEF Inv
<1>4. Held(policy, a, payload)
  <2>1. PICK e \in EnvironmentIn(payload) : ValidEnvironment(policy, a, e) BY DEF SetEnvironment
  <2>2. /\ EnvironmentIn(payload) = {e} /\ e = environment
        /\ EncodeEnvironment(environment) = Encoded(payload)
    BY PayloadHolds
  <2>3. environment \in Seq(Universe) BY EnvironmentSequence
  <2> QED BY <2>1, <2>2, <2>3 DEF Held
<1>5. /\ stored' = [b \in Agents |-> stored'[b]]
      /\ \A b \in Agents : stored'[b] = IF b = a THEN payload ELSE stored[b]
  BY <1>1 DEF Inv, StoredInv
<1>6. \A b \in Agents : stored'[b] # <<>> => phase' = 5 /\ Held(policy', b, stored'[b])
  BY <1>1, <1>4, <1>5 DEF Inv, StoredInv
<1>7. StoredInv' BY <1>5, <1>6 DEF StoredInv, Held, ValidEnvironment, ValidAttribute
<1> QED BY <1>2, <1>3, <1>7 DEF Inv

LEMMA AlwaysInv == Spec => []Inv
<1>1. Init => Inv BY InitInv
<1>2. ASSUME Inv, [Next]_vars PROVE Inv'
  <2>1. CASE Prepare BY <1>2, <2>1, PrepareStep
  <2>2. CASE BuildPolicy BY <1>2, <2>2, BuildStep
  <2>3. ASSUME NEW a \in Agents, NEW environment \in Environments,
               NEW payload \in Payloads(environment), SetEnvironment(a, payload)
        PROVE  Inv'
    BY <1>2, <2>3, SetEnvironmentStep
  <2>4. CASE UNCHANGED vars
    <3>1. /\ domain' = domain /\ attributes' = attributes /\ boundary' = boundary
          /\ clauses' = clauses /\ policy' = policy /\ phase' = phase /\ entries' = entries
          /\ stored' = stored
      BY <2>4 DEF vars, request
    <3> QED BY <1>2, <3>1, DraftUnchanged, PolicyUnchanged DEF Inv
  <2> QED BY <1>2, <2>1, <2>2, <2>3, <2>4 DEF Next
<1> QED BY <1>1, <1>2, PTL DEF Spec

\* Builders, configuration, policy and store keep their types, for any configuration, any
\* limits and any universe of values.
THEOREM TypeCorrect == Spec => []TypeOK
<1>1. Inv => TypeOK
  <2>1. SUFFICES ASSUME Inv PROVE TypeOK OBVIOUS
  <2>2. /\ domain \in Domains
        /\ attributes \in Seq(Universe) /\ Len(attributes) <= MaxAttributes
        /\ boundary \in Boundaries \cup {<<>>}
    BY <2>1 DEF Inv, DraftInv
  <2>3. Len(clauses) <= MaxClauses
    <3>1. clauses \in Seq(Clauses) /\ ~PredicateOversized(clauses) BY <2>1 DEF Inv, DraftInv
    <3>2. Len(clauses) \in Nat BY <3>1, LenProperties
    <3> QED BY <3>1, <3>2, PayloadLimitAssumption DEF PredicateOversized
  <2>4. phase \in 0..(Len(Phases) + 1) /\ entries \in 0..MaxEntries
    BY <2>1 DEF Inv, ConfigInv, Phases
  <2>5. Typing(policy) BY <2>1 DEF Inv, ConfigInv
  <2>6. DOMAIN policy.approvals = Agents \X Attributes
    BY <2>5 DEF Typing
  <2>7. DOMAIN stored = Agents BY <2>1 DEF Inv, StoredInv
  <2> QED BY <2>2, <2>3, <2>4, <2>5, <2>6, <2>7 DEF TypeOK, Typing, Rules
<1> QED BY <1>1, AlwaysInv, PTL

\* What the CA reads from its store is valid for the Agent under the installed policy.
LEMMA HoldingsHeld ==
    ASSUME Inv, NEW x \in Holdings
    PROVE  /\ x.agent \in Agents /\ stored[x.agent] # <<>>
           /\ x.environment \in Seq(Universe) /\ IsSequence(x.environment)
           /\ ValidEnvironment(policy, x.agent, x.environment)
<1>1. PICK a \in Stored : \E e \in EnvironmentIn(stored[a]) : x = [agent |-> a, environment |-> e]
  BY DEF Holdings
<1>2. a \in Agents /\ stored[a] # <<>> BY DEF Stored
<1>3. PICK e \in Seq(Universe) : EnvironmentIn(stored[a]) = {e} /\ ValidEnvironment(policy, a, e)
  BY <1>2 DEF Inv, StoredInv, Held
<1>4. x.agent = a /\ x.environment = e BY <1>1, <1>3
<1>5. IsSequence(e) BY LenProperties DEF IsSequence
<1> QED BY <1>2, <1>3, <1>4, <1>5

\* Whatever payloads Agents sign, of any length, what set_environment stores is one environment
\* in its canonical encoding.
THEOREM StoredIsCanonical == Spec => []StoredCanonical
<1>1. Inv => StoredCanonical
  <2>1. SUFFICES ASSUME Inv, NEW a \in Stored
                 PROVE  \E x \in Holdings :
                            x.agent = a /\ EncodeEnvironment(x.environment) = Encoded(stored[a])
    BY DEF StoredCanonical
  <2>2. a \in Agents /\ stored[a] # <<>> BY DEF Stored
  <2>3. PICK e \in Seq(Universe) :
            EnvironmentIn(stored[a]) = {e} /\ EncodeEnvironment(e) = Encoded(stored[a])
    BY <2>1, <2>2 DEF Inv, StoredInv, Held
  <2> DEFINE x == [agent |-> a, environment |-> e]
  <2>4. x \in Holdings BY <2>3 DEF Holdings
  <2>5. x.agent = a /\ x.environment = e OBVIOUS
  <2> QED BY <2>3, <2>4, <2>5
<1> QED BY <1>1, AlwaysInv, PTL

\* Under any policy that build_policy accepts, authorize_delivery decides about environments in
\* the store by what the CA approved for the two identities alone.
THEOREM DecidedByApprovals == Spec => []DecisionFromApprovals
<1>1. Inv => DecisionFromApprovals
  <2>1. SUFFICES ASSUME Inv, NEW p \in Holdings, NEW s \in Holdings, NEW type \in Types
                 PROVE  AuthorizesDelivery(policy, p.agent, p.environment,
                                           s.agent, s.environment, type)
                            <=> AuthorizedByApprovals(policy, p.agent, s.agent, type)
    BY DEF DecisionFromApprovals
  <2>2. /\ IsSequence(p.environment) /\ ValidEnvironment(policy, p.agent, p.environment)
        /\ IsSequence(s.environment) /\ ValidEnvironment(policy, s.agent, s.environment)
    BY <2>1, HoldingsHeld
  <2>3. Grounded(policy) BY <2>1 DEF Inv, PolicyInv
  <2> QED BY <2>2, <2>3, DecidesByApprovals
<1> QED BY <1>1, AlwaysInv, PTL

\* Whatever a configuration lists and in whatever order it contradicts itself, build_policy
\* yields only policies whose isolations and subscriber requirements rest on attributes that
\* the CA issues.
THEOREM BuildsGrounded == Spec => []Grounded(policy)
<1>1. Inv => Grounded(policy) BY DEF Inv, PolicyInv
<1> QED BY <1>1, AlwaysInv, PTL

\* An environment that meets an equality clause has the attribute, with this value.
LEMMA MeetsClause ==
    ASSUME NEW env, NEW M, env \in Seq(M), \A i \in DOMAIN env : IsMember("environment", env[i]),
           NEW id, NEW v, IsValue(v), Get(env, id) # NoValue, Compare(Get(env, id), "Eq", v)
    PROVE  Get(env, id) = v /\ \E i \in DOMAIN env : env[i].id = id
<1>1. IsSequence(env) BY LenProperties DEF IsSequence
<1>2. PICK i \in DOMAIN env : env[i].id = id /\ Get(env, id) = env[i].value
  BY <1>1, GetFinds
<1> DEFINE u == Get(env, id)
<1>3. IsValue(u) BY <1>2 DEF IsMember
<1>4. u.kind = v.kind /\ u.data = v.data BY DEF Compare
<1> HIDE DEF u
<1>5. u = Value(u.kind, u.data) /\ v = Value(v.kind, v.data) BY <1>3 DEF IsValue
<1>6. u = v BY <1>4, <1>5
<1> QED BY <1>2, <1>6 DEF u

\* For every domain, a predicate that subscription or audience started matches only environments
\* within the boundary, whatever clauses follow; and an Agent with such an environment in the
\* store was approved for the boundary values.
THEOREM BoundaryHolds == Spec => []BoundaryEnforced
<1> DEFINE ids == BoundaryIds(domain)
<1>1. ASSUME Inv, boundary # <<>>, NEW env \in Environments, Evaluate(clauses, env),
             NEW i \in DOMAIN boundary
      PROVE  Get(env, ids[i]) = boundary[i]
  <2>1. /\ boundary \in Boundaries /\ i \in DOMAIN clauses
        /\ clauses[i] = Clause(ids[i], "Eq", boundary[i])
    BY <1>1 DEF Inv, DraftInv
  <2>2. IsValue(boundary[i]) BY <2>1, DataAssumption
  <2>3. env \in Seq(Universe) /\ \A j \in DOMAIN env : IsMember("environment", env[j])
    BY EnvironmentSequence
  <2>4. /\ clauses[i].attribute = ids[i] /\ clauses[i].operator = "Eq"
        /\ clauses[i].value = boundary[i]
    BY <2>1 DEF Clause
  <2>5. Get(env, ids[i]) # NoValue /\ Compare(Get(env, ids[i]), "Eq", boundary[i])
    BY <1>1, <2>1, <2>4 DEF Evaluate
  <2> HIDE DEF ids
  <2> QED BY <2>2, <2>3, <2>5, MeetsClause
<1>2. ASSUME Inv, \A i \in DOMAIN ids : policy.rules[ids[i]] = SchemaEntry(domain, ids[i]),
             NEW x \in Holdings, NEW values \in Boundaries, DOMAIN values = DOMAIN ids,
             Evaluate(BoundaryClauses(domain, values), x.environment), NEW i \in DOMAIN values
      PROVE  policy.approvals[<<x.agent, ids[i]>>] = values[i]
  <2> DEFINE cs == BoundaryClauses(domain, values)
             env == x.environment
  <2>1. /\ i \in DOMAIN cs /\ cs[i] = Clause(ids[i], "Eq", values[i])
    BY <1>2 DEF BoundaryClauses
  <2>2. IsValue(values[i]) BY DataAssumption
  <2>3. /\ env \in Seq(Universe) /\ IsSequence(env) /\ ValidEnvironment(policy, x.agent, env)
    BY <1>2, HoldingsHeld
  <2>4. \A j \in DOMAIN env : IsMember("environment", env[j])
    BY <2>3, UniverseMember
  <2>5. cs[i].attribute = ids[i] /\ cs[i].operator = "Eq" /\ cs[i].value = values[i]
    BY <2>1 DEF Clause
  <2>6. domain \in Domains BY <1>2 DEF Inv, DraftInv
  <2>7. policy.rules[ids[i]].authority = "CaIssued"
    BY <1>2, <2>6, BoundaryIdsType
  <2>8. Get(env, ids[i]) # NoValue /\ Compare(Get(env, ids[i]), "Eq", values[i])
    BY <1>2, <2>1, <2>5 DEF Evaluate
  <2> HIDE DEF ids, cs, env
  <2>9. Get(env, ids[i]) = values[i] /\ \E j \in DOMAIN env : env[j].id = ids[i]
    BY <2>2, <2>3, <2>4, <2>8, MeetsClause
  <2>10. ids[i] \in Attributes
    BY <2>3, <2>9 DEF ValidEnvironment, ValidAttribute
  <2> QED BY <2>3, <2>7, <2>9, <2>10, ReadsAsApproved
<1>3. Inv => BoundaryEnforced
  BY <1>1, <1>2 DEF BoundaryEnforced
<1> QED BY <1>3, AlwaysInv, PTL

\* Whatever the builders of an Agent accepted is encoded without error and parsed back as the
\* same operation, for lists and values of any length within the limits.
THEOREM Sendable == Spec => []DraftsSendable
<1>1. ASSUME Inv, NEW i \in DOMAIN attributes
      PROVE  ValidateAttribute(domain, attributes[i]) = "None"
  <2>1. /\ attributes \in Seq(Universe) /\ Acceptable("environment", attributes)
        /\ Typed(attributes[i])
    BY <1>1 DEF Inv, DraftInv
  <2>2. ~TooLong(attributes[i].value) BY <2>1, AcceptableEncodes
  <2>3. IsValue(attributes[i].value) BY <2>1, UniverseMember DEF IsMember
  <2>4. SchemaEntry(domain, attributes[i].id).kind = attributes[i].value.kind BY <2>1 DEF Typed
  <2>5. SchemaEntry(domain, attributes[i].id) # NoRule
    BY <2>3, <2>4 DEF IsValue, NoRule, Rule
  <2> QED BY <2>2, <2>4, <2>5 DEF ValidateAttribute
<1>2. ASSUME Inv, NEW o \in Drafts
      PROVE  \E w : EncodeOperation(o) = Encoded(w)
                    /\ ParseOperation(w) = [error |-> "None", operation |-> o]
  <2>1. /\ clauses \in Seq(Clauses) /\ ~PredicateOversized(clauses)
        /\ \A i \in DOMAIN clauses : IsMember("predicate", clauses[i])
    <3>1. clauses \in Seq(Clauses) /\ ~PredicateOversized(clauses) BY <1>2 DEF Inv, DraftInv
    <3> QED BY <3>1, ClauseMember
  <2>2. ASSUME o = [kind |-> "SetEnvironment", attributes |-> attributes]
        PROVE  \E w : EncodeOperation(o) = Encoded(w)
                      /\ ParseOperation(w) = [error |-> "None", operation |-> o]
    <3>1. /\ attributes \in Seq(Universe) /\ Len(attributes) <= MaxAttributes
          /\ Acceptable("environment", attributes)
      BY <1>2 DEF Inv, DraftInv
    <3>2. \A i \in DOMAIN attributes : IsMember("environment", attributes[i])
      BY <3>1, UniverseMember
    <3>3. EncodeOperation(o) = EncodeEnvironment(attributes) BY <2>2 DEF EncodeOperation
    <3> QED BY <2>2, <3>1, <3>2, <3>3, EncodesBack
  <2>3. ASSUME NEW type \in Types, o = [kind |-> "Subscribe", type |-> type, clauses |-> clauses]
        PROVE  \E w : EncodeOperation(o) = Encoded(w)
                      /\ ParseOperation(w) = [error |-> "None", operation |-> o]
    <3>1. EncodeOperation(o) = Encoded(<<5, type>> \o EncodePredicate(clauses))
      BY <2>1, <2>3 DEF EncodeOperation, EncodeSubscribe
    <3>2. ParseOperation(<<5, type>> \o EncodePredicate(clauses)) =
              [error |-> "None", operation |-> o]
      BY <2>1, <2>3, ParsesSubscription
    <3> QED BY <3>1, <3>2
  <2>4. ASSUME NEW type \in Types,
               o = [kind |-> "SubscribePermanent", type |-> type, clauses |-> clauses]
        PROVE  \E w : EncodeOperation(o) = Encoded(w)
                      /\ ParseOperation(w) = [error |-> "None", operation |-> o]
    <3>1. EncodeOperation(o) = Encoded(<<2, type>> \o EncodePredicate(clauses))
      BY <2>1, <2>4 DEF EncodeOperation, EncodeSubscribePermanent
    <3>2. ParseOperation(<<2, type>> \o EncodePredicate(clauses)) =
              [error |-> "None", operation |-> o]
      <4>1. 2 \in {2, 5} /\ ~(2 = 5) OBVIOUS
      <4> QED BY <2>1, <2>4, <4>1, ParsesSubscription
    <3> QED BY <3>1, <3>2
  <2>5. ASSUME NEW type \in Types, NEW value \in PublishedValues,
               o = [kind |-> "Publish", type |-> type, clauses |-> clauses, value |-> value]
        PROVE  \E w : EncodeOperation(o) = Encoded(w)
                      /\ ParseOperation(w) = [error |-> "None", operation |-> o]
    <3>1. value \in Seq(Nat) /\ Len(value) <= MaxValueBytes BY DataAssumption
    <3>2. ~(Len(value) > MaxValueBytes) BY <3>1, LenProperties, PayloadLimitAssumption
    <3>3. EncodeOperation(o) =
              Encoded(<<3, type>> \o EncodePredicate(clauses) \o <<Len(value)>> \o value)
      BY <2>1, <2>5, <3>2 DEF EncodeOperation, EncodePublish
    <3>4. ParseOperation(<<3, type>> \o EncodePredicate(clauses) \o <<Len(value)>> \o value) =
              [error |-> "None", operation |-> o]
      BY <2>1, <2>5, <3>1, ParsesPublication
    <3> QED BY <3>3, <3>4
  <2>6. ASSUME NEW type \in Types, NEW publisher \in Agents, NEW value \in PublishedValues,
               o = [kind |-> "PublicationResponse", type |-> type, publisher |-> publisher,
                    value |-> value]
        PROVE  \E w : EncodeOperation(o) = Encoded(w)
                      /\ ParseOperation(w) = [error |-> "None", operation |-> o]
    <3>1. value \in Seq(Nat) /\ Len(value) <= MaxValueBytes BY DataAssumption
    <3>2. ~(Len(value) > MaxValueBytes) BY <3>1, LenProperties, PayloadLimitAssumption
    <3>3. EncodeOperation(o) = Encoded(<<4, type, publisher, Len(value)>> \o value)
      BY <2>6, <3>2 DEF EncodeOperation, EncodeResponse
    <3>4. ParseOperation(<<4, type, publisher, Len(value)>> \o value) =
              [error |-> "None", operation |-> o]
      BY <2>6, <3>1, ParsesResponse
    <3> QED BY <3>3, <3>4
  <2>7. \/ o = [kind |-> "SetEnvironment", attributes |-> attributes]
        \/ \E type \in Types :
               \/ o = [kind |-> "Subscribe", type |-> type, clauses |-> clauses]
               \/ o = [kind |-> "SubscribePermanent", type |-> type, clauses |-> clauses]
               \/ \E value \in PublishedValues :
                      \/ o = [kind |-> "Publish", type |-> type, clauses |-> clauses,
                              value |-> value]
                      \/ \E publisher \in Agents :
                             o = [kind |-> "PublicationResponse", type |-> type,
                                  publisher |-> publisher, value |-> value]
    BY DEF Drafts
  <2> QED BY <2>2, <2>3, <2>4, <2>5, <2>6, <2>7
<1>3. \A w : Encoded(w).error = "None" /\ Encoded(w).output = w BY DEF Encoded
<1>4. ASSUME Inv, NEW draft \in {[operation |-> o, encoding |-> EncodeOperation(o)] : o \in Drafts}
      PROVE  /\ draft.encoding.error = "None"
             /\ ParseOperation(draft.encoding.output) =
                    [error |-> "None", operation |-> draft.operation]
  <2>1. PICK o \in Drafts : draft = [operation |-> o, encoding |-> EncodeOperation(o)]
    OBVIOUS
  <2>2. draft.operation = o /\ draft.encoding = EncodeOperation(o) BY <2>1
  <2>3. PICK w : EncodeOperation(o) = Encoded(w)
                 /\ ParseOperation(w) = [error |-> "None", operation |-> o]
    BY <1>2, <1>4
  <2> QED BY <1>3, <2>2, <2>3
<1>5. Inv => DraftsSendable
  BY <1>1, <1>4 DEF DraftsSendable
<1> QED BY <1>5, AlwaysInv, PTL

\* A function over 1..n is a sequence.
LEMMA FunctionSequence ==
    ASSUME NEW S, NEW n \in Nat, NEW d \in [1..n -> S]
    PROVE  d \in Seq(S) /\ Len(d) = n /\ DOMAIN d = 1..n
<1>1. d \in Seq(S) /\ DOMAIN d = 1..n OBVIOUS
<1> QED BY <1>1, LenProperties

\* The approvals of an Agent, in any order that lists each once, are an environment for it.
LEMMA DeclaresApproved ==
    ASSUME Inv, NEW a \in Agents, NEW X,
           X = {y \in Attributes : policy.approvals[<<a, y>>] # NoValue}, NEW S,
           S = {Attribute(x, policy.approvals[<<a, x>>]) : x \in X},
           NEW n \in Nat, n <= MaxAttributes, NEW d \in Bijection(1..n, S)
    PROVE  /\ d \in Seq(S) /\ ValidEnvironment(policy, a, d)
           /\ EncodeEnvironment(d).error = "None"
           /\ d \in EnvironmentIn(EncodeEnvironment(d).output)
<1> DEFINE v(x) == policy.approvals[<<a, x>>]
<1>1. \A x \in X : Admitted(policy, a, x) BY DEF Inv, ConfigInv
<1>2. \A x \in X : /\ x \in Attributes /\ x \in Int /\ IsValue(v(x)) /\ ~TooLong(v(x))
                   /\ policy.rules[x] = Rule(v(x).kind, "CaIssued")
                   /\ policy.allowed[x] # {} => v(x) \in policy.allowed[x]
  BY <1>1, LimitAssumption DEF Admitted
<1>3. /\ d \in [1..n -> S] /\ \A i, j \in 1..n : d[i] = d[j] => i = j
      /\ \A m \in S : \E i \in 1..n : d[i] = m
  BY DEF Bijection, Injection, Surjection, IsInjective
<1>4. d \in Seq(S) /\ Len(d) = n /\ DOMAIN d = 1..n BY <1>3, FunctionSequence
<1>5. IsSequence(d) BY <1>4 DEF IsSequence
<1>6. \A i \in 1..n : /\ d[i].id \in X /\ d[i].value = v(d[i].id)
                      /\ d[i] = Attribute(d[i].id, v(d[i].id))
  <2>1. SUFFICES ASSUME NEW i \in 1..n
                 PROVE  /\ d[i].id \in X /\ d[i].value = v(d[i].id)
                        /\ d[i] = Attribute(d[i].id, v(d[i].id))
    OBVIOUS
  <2>2. d[i] \in S BY <1>3
  <2>3. PICK x \in X : d[i] = Attribute(x, v(x)) BY <2>2
  <2>4. d[i].id = x /\ d[i].value = v(x) BY <2>3 DEF Attribute
  <2> QED BY <2>3, <2>4
<1> HIDE DEF v
<1>7. \A i \in DOMAIN d : IsMember("environment", d[i]) /\ ~TooLong(d[i].value)
  BY <1>2, <1>4, <1>6 DEF IsMember
<1>8. UniqueAttributes(d)
  <2>1. SUFFICES ASSUME NEW i \in 1..n, NEW j \in 1..n, d[i].id = d[j].id PROVE i = j
    BY <1>4 DEF UniqueAttributes
  <2>2. d[i] = Attribute(d[i].id, v(d[i].id)) /\ d[j] = Attribute(d[j].id, v(d[j].id)) BY <1>6
  <2>3. d[i] = d[j] BY <2>1, <2>2
  <2> QED BY <1>3, <2>3
<1>9. ASSUME NEW i \in DOMAIN d PROVE ValidAttribute(policy, a, d[i])
  <2>1. d[i].id \in X /\ d[i].value = v(d[i].id) BY <1>4, <1>6
  <2> DEFINE x == d[i].id
  <2>2. /\ x \in Attributes /\ IsValue(v(x)) /\ policy.rules[x] = Rule(v(x).kind, "CaIssued")
        /\ policy.allowed[x] # {} => v(x) \in policy.allowed[x]
    BY <1>2, <2>1
  <2>3. policy.rules[x].kind = v(x).kind /\ policy.rules[x] # NoRule
    BY <2>2 DEF Rule, NoRule
  <2>4. v(x) = policy.approvals[<<a, x>>] BY DEF v
  <2> QED BY <2>1, <2>2, <2>3, <2>4 DEF ValidAttribute
<1>10. ASSUME NEW x \in Attributes, policy.approvals[<<a, x>>] # NoValue
       PROVE  Get(d, x) = policy.approvals[<<a, x>>]
  <2>1. x \in X BY <1>10
  <2>2. Attribute(x, v(x)) \in S BY <2>1 DEF v
  <2>3. PICK i \in 1..n : d[i] = Attribute(x, v(x)) BY <1>3, <2>2
  <2>4. d[i].id = x BY <2>3 DEF Attribute
  <2>5. PICK j \in DOMAIN d : d[j].id = x /\ Get(d, x) = d[j].value
    BY <1>4, <1>5, <2>4, GetFinds
  <2>6. d[j].value = v(x) BY <1>4, <1>6, <2>5
  <2> QED BY <2>5, <2>6 DEF v
<1>11. ValidEnvironment(policy, a, d) BY <1>9, <1>10 DEF ValidEnvironment
<1>12. Len(d) <= MaxAttributes /\ Acceptable("environment", d)
  BY <1>4, <1>7, <1>8, AcceptableEncodes
<1> DEFINE w == << 1 >> \o EncodeAttributes(d)
<1>13. /\ EncodeEnvironment(d) = Encoded(w)
       /\ ParseOperation(w) = [error |-> "None",
                               operation |-> [kind |-> "SetEnvironment", attributes |-> d]]
  BY <1>4, <1>7, <1>12, EncodesBack
<1> HIDE DEF w
<1>14. EnvironmentIn(w) = {d} BY <1>13 DEF EnvironmentIn
<1>15. EncodeEnvironment(d).error = "None" /\ EncodeEnvironment(d).output = w
  BY <1>13 DEF Encoded
<1> QED BY <1>4, <1>11, <1>14, <1>15

\* A policy that build_policy accepted locks no Agent out: for every Agent whose approvals fit
\* in an environment, listing them makes an environment that is encoded, parsed and valid.
THEOREM ApprovedDeclare == Spec => []ApprovedCanDeclare
<1> DEFINE X(a) == {y \in Attributes : policy.approvals[<<a, y>>] # NoValue}
           S(a) == {Attribute(x, policy.approvals[<<a, x>>]) : x \in X(a)}
           Goal(a) == \E declared \in [1..Cardinality(S(a)) -> S(a)] :
                          /\ ValidEnvironment(policy, a, declared)
                          /\ \E encoding \in {EncodeEnvironment(declared)} :
                                 /\ encoding.error = "None"
                                 /\ declared \in EnvironmentIn(encoding.output)
<1>1. ASSUME Inv, NEW a \in Agents, Cardinality(S(a)) <= MaxAttributes PROVE Goal(a)
  <2>1. IsFiniteSet(S(a))
    <3>1. IsFiniteSet(X(a)) BY LimitAssumption, FS_Subset
    <3> DEFINE f == [x \in X(a) |-> Attribute(x, policy.approvals[<<a, x>>])]
    <3>2. f \in Surjection(X(a), S(a)) BY DEF Surjection
    <3> HIDE DEF f, X, S
    <3> QED BY <3>1, <3>2, FS_Surjection
  <2> HIDE DEF S
  <2>2. PICK n \in Nat : ExistsBijection(1..n, S(a)) BY <2>1, FS_NatBijection
  <2>3. Cardinality(S(a)) = n BY <2>2, FS_CountingElements
  <2>4. PICK d : d \in Bijection(1..n, S(a)) BY <2>2 DEF ExistsBijection
  <2>5. d \in [1..n -> S(a)] BY <2>4 DEF Bijection, Injection
  <2>6. /\ ValidEnvironment(policy, a, d) /\ EncodeEnvironment(d).error = "None"
        /\ d \in EnvironmentIn(EncodeEnvironment(d).output)
    BY <1>1, <2>3, <2>4, DeclaresApproved DEF S
  <2> QED BY <2>3, <2>5, <2>6
<1>2. ASSUME Inv PROVE ApprovedCanDeclare
  BY <1>1, <1>2 DEF ApprovedCanDeclare
<1> QED BY <1>2, AlwaysInv, PTL
=============================================================================
