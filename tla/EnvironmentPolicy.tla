-------------------------- MODULE EnvironmentPolicy --------------------------
(***************************************************************************)
(* StaticEnvironmentPolicy of crates/ca-core: the calls that configure it, *)
(* the validation of an environment and the decision about a delivery.     *)
(*                                                                         *)
(* The maps of the code are total functions here, with NoRule, NoValue or  *)
(* an empty set where the code has no entry: isolate refuses an empty      *)
(* list, and the two allow lists get an entry only together with a value.  *)
(***************************************************************************)
EXTENDS Payload

CONSTANTS
    Agents,      \* Agent identities
    Attributes,  \* attribute identifiers
    Types        \* publication types

\* AttributeType is the kind of a value, AttributeAuthority one of these.
Kinds       == {"Bool", "I64", "Bytes"}
Authorities == {"SelfDeclared", "CaIssued"}

Rule(kind, authority) == [kind |-> kind, authority |-> authority]
NoRule == Rule("None", "None")

EmptyPolicy ==
    [rules        |-> [attribute \in Attributes |-> NoRule],
     allowed      |-> [attribute \in Attributes |-> {}],
     approvals    |-> [pair \in Agents \X Attributes |-> NoValue],
     isolation    |-> [type \in Types |-> {}],
     requirements |-> [pair \in Types \X Attributes |-> {}]]

(***************************************************************************)
(* Configuration: for each call, when it is accepted and what it returns.  *)
(* A call that is not accepted changes nothing.                            *)
(***************************************************************************)
\* register_rule: registering again must agree.
MayRegister(policy, attribute, kind, authority) ==
    policy.rules[attribute] \in {NoRule, Rule(kind, authority)}

Registered(policy, attribute, kind, authority) ==
    [policy EXCEPT !.rules[attribute] = Rule(kind, authority)]

MayAllow(policy, attribute, value) ==
    policy.rules[attribute] # NoRule /\ policy.rules[attribute].kind = value.kind

Allowed(policy, attribute, value) ==
    [policy EXCEPT !.allowed[attribute] = @ \cup {value}]

\* validate_configured_value.
ConfiguredValue(policy, attribute, value) ==
    /\ policy.rules[attribute] # NoRule /\ policy.rules[attribute].kind = value.kind
    /\ policy.allowed[attribute] # {} => value \in policy.allowed[attribute]

\* Mutant: the allow list does not bind approvals.
MayApprove_AnyValue(policy, agent, attribute, value) ==
    /\ policy.rules[attribute] = Rule(value.kind, "CaIssued")

MayApprove(policy, agent, attribute, value) ==
    /\ policy.rules[attribute] # NoRule /\ policy.rules[attribute].authority = "CaIssued"
    /\ ConfiguredValue(policy, attribute, value)

\* An identity has one approved value of an attribute: the last.
Approved(policy, agent, attribute, value) ==
    [policy EXCEPT !.approvals[<<agent, attribute>>] = value]

MayIsolate(policy, type, attributes) ==
    /\ attributes # <<>> /\ Len(attributes) <= MaxClauses
    /\ \A i \in DOMAIN attributes :
           /\ policy.rules[attributes[i]] # NoRule
           /\ policy.rules[attributes[i]].authority = "CaIssued"

\* The last list of a type replaces the earlier ones.
Isolated(policy, type, attributes) ==
    [policy EXCEPT !.isolation[type] = {attributes[i] : i \in DOMAIN attributes}]

MayRequire(policy, type, attribute, value) ==
    /\ policy.rules[attribute] # NoRule /\ policy.rules[attribute].authority = "CaIssued"
    /\ ConfiguredValue(policy, attribute, value)

Required(policy, type, attribute, value) ==
    [policy EXCEPT !.requirements[<<type, attribute>>] = @ \cup {value}]

(***************************************************************************)
(* Decisions.                                                              *)
(***************************************************************************)
\* Mutant: the approval of a CA-issued value is not looked up.
ValidAttribute_Unapproved(policy, agent, attribute) ==
    /\ attribute.id \in Attributes /\ policy.rules[attribute.id] # NoRule
    /\ policy.rules[attribute.id].kind = attribute.value.kind
    /\ policy.allowed[attribute.id] # {} => attribute.value \in policy.allowed[attribute.id]

\* What the policy asks of one attribute of an environment.
ValidAttribute(policy, agent, attribute) ==
    /\ attribute.id \in Attributes /\ policy.rules[attribute.id] # NoRule
    /\ policy.rules[attribute.id].kind = attribute.value.kind
    /\ policy.allowed[attribute.id] # {} => attribute.value \in policy.allowed[attribute.id]
    /\ policy.rules[attribute.id].authority = "CaIssued" =>
           policy.approvals[<<agent, attribute.id>>] = attribute.value

\* Mutant: an Agent may leave out what was approved for it.
ValidEnvironment_Partial(policy, agent, environment) ==
    \A i \in DOMAIN environment : ValidAttribute(policy, agent, environment[i])

\* validate_environment: every attribute is admitted, and every approval is there.
ValidEnvironment(policy, agent, environment) ==
    /\ \A i \in DOMAIN environment : ValidAttribute(policy, agent, environment[i])
    /\ \A attribute \in Attributes :
           policy.approvals[<<agent, attribute>>] # NoValue =>
               Get(environment, attribute) = policy.approvals[<<agent, attribute>>]

AllowsDelivery(policy, type, publisher, subscriber) ==
    /\ \A attribute \in policy.isolation[type] :
           /\ Get(publisher, attribute) # NoValue
           /\ Get(publisher, attribute) = Get(subscriber, attribute)
    /\ \A attribute \in Attributes :
           policy.requirements[<<type, attribute>>] # {} =>
               Get(subscriber, attribute) \in policy.requirements[<<type, attribute>>]

\* authorize_delivery: both environments and the delivery, under one policy.
AuthorizesDelivery(policy, p, publisher, s, subscriber, type) ==
    /\ ValidEnvironment(policy, p, publisher)
    /\ ValidEnvironment(policy, s, subscriber)
    /\ AllowsDelivery(policy, type, publisher, subscriber)

(***************************************************************************)
(* What the decision is meant to be: it depends on what the CA approved    *)
(* for the two identities, not on what they declare.                       *)
(***************************************************************************)
AuthorizedByApprovals(policy, p, s, type) ==
    /\ \A attribute \in policy.isolation[type] :
           /\ policy.approvals[<<p, attribute>>] # NoValue
           /\ policy.approvals[<<p, attribute>>] = policy.approvals[<<s, attribute>>]
    /\ \A attribute \in Attributes :
           policy.requirements[<<type, attribute>>] # {} =>
               policy.approvals[<<s, attribute>>] \in policy.requirements[<<type, attribute>>]

\* What register_rule, isolate and allow_subscriber_value see to: only attributes that the CA
\* issues isolate a type or are required of its subscribers.
Grounded(policy) ==
    \A type \in Types :
        /\ \A attribute \in policy.isolation[type] :
               attribute \in Attributes /\ policy.rules[attribute].authority = "CaIssued"
        /\ \A attribute \in Attributes :
               policy.requirements[<<type, attribute>>] # {} =>
                   policy.rules[attribute].authority = "CaIssued"
=============================================================================
