------------------------------ MODULE CaPolicy ------------------------------
(***************************************************************************)
(* The data path of a request, from the typed builders of an Agent through *)
(* the codec to the policy that cad builds from its configuration file.    *)
(*                                                                         *)
(* An Agent prepares a request with the builders of its domain.  cad runs  *)
(* build_policy over the four lists of the configuration, in their order;  *)
(* one refused entry ends it with an error and nothing is installed.       *)
(* Afterwards Agents send environments, well formed or not, which the CA   *)
(* parses, validates and stores in their encoded form.                     *)
(*                                                                         *)
(* The builders share no state with the CA, so a request is prepared only  *)
(* before the configuration starts.  What a CA does with an installed      *)
(* policy while requests interleave is in CaEngine and ConcurrentCa.       *)
(***************************************************************************)
EXTENDS UseCaseModels, FiniteSets

CONSTANTS
    AttributeEntries,    \* attributes of a configuration: id, kind, authority, allowed
    ApprovalEntries,     \* its approvals: agent, attribute, value
    IsolationEntries,    \* its isolations: type, attributes
    RequirementEntries,  \* its subscriber requirements: type, attribute, values
    Universe,            \* attribute-value pairs, of any kind, that Agents use
    Boundaries,          \* sequences of boundary values
    Trailer,             \* a number that may follow an encoding
    PublishedValues,     \* values of publications, within MaxValueBytes
    MaxEntries           \* bound: entries of one configuration

\* What the configuration file can name.
ASSUME EntryAssumption ==
    /\ \A e \in AttributeEntries :
           e.id \in Attributes /\ e.kind \in Kinds /\ e.authority \in Authorities
    /\ \A e \in ApprovalEntries :
           e.agent \in Agents /\ e.attribute \in Attributes /\ IsValue(e.value)
    /\ \A e \in IsolationEntries :
           e.type \in Types /\ \A i \in DOMAIN e.attributes : e.attributes[i] \in Attributes
    /\ \A e \in RequirementEntries : e.type \in Types /\ e.attribute \in Attributes

\* What the types of the library let an Agent hold.
ASSUME DataAssumption ==
    /\ \A pair \in Universe :
           pair = Attribute(pair.id, pair.value) /\ pair.id \in Nat /\ IsValue(pair.value)
    /\ \A values \in Boundaries : \A i \in DOMAIN values : IsValue(values[i])
    /\ \A value \in PublishedValues : value \in Seq(Nat) /\ Len(value) <= MaxValueBytes
    /\ Trailer \in Int

\* Identifiers are finitely many numbers, and a predicate has room for the boundary of any
\* domain.
ASSUME LimitAssumption ==
    IsFiniteSet(Attributes) /\ Attributes \subseteq Nat /\ MaxClauses >= 2 /\ MaxEntries \in Nat

Phases == <<"attributes", "approvals", "isolations", "requirements">>

VARIABLES
    domain,      \* the use case of the configuration and of the Agents
    attributes,  \* the EnvironmentBuilder of an Agent
    boundary,    \* the boundary values a predicate builder was made with, <<>> if none
    clauses,     \* the ClauseBuilder of an Agent
    phase,       \* the list build_policy reads: 1..4, 5 installed, 0 ended with an error
    entries,     \* how much of the bound MaxEntries has been used
    policy,      \* the policy being built, or installed
    stored       \* Agent -> the encoded environment in the store, <<>> if it has none

request == <<attributes, boundary, clauses>>
vars    == <<domain, request, phase, entries, policy, stored>>

Init ==
    /\ domain \in Domains
    /\ attributes = <<>> /\ boundary = <<>> /\ clauses = <<>>
    /\ phase = 1 /\ entries = 0 /\ policy = EmptyPolicy
    /\ stored = [a \in Agents |-> <<>>]

(***************************************************************************)
(* The builders of an Agent.                                               *)
(***************************************************************************)
Preparing == entries = 0 /\ phase = 1

\* The values the compiler lets through for an attribute of the domain.
Typed(pair) == SchemaEntry(domain, pair.id).kind = pair.value.kind

AddAttribute(pair) ==
    /\ Preparing /\ clauses = <<>> /\ Typed(pair)
    /\ MayAddAttribute(attributes, pair.id, pair.value)
    /\ attributes' = Append(attributes, pair)
    /\ UNCHANGED <<domain, boundary, clauses, phase, entries, policy, stored>>

\* subscription or audience.
StartPredicate(values) ==
    /\ Preparing /\ attributes = <<>> /\ clauses = <<>>
    /\ DOMAIN values = DOMAIN BoundaryIds(domain) /\ MayBound(domain, values)
    /\ \A i \in DOMAIN values : Typed(Attribute(BoundaryIds(domain)[i], values[i]))
    /\ boundary' = values /\ clauses' = BoundaryClauses(domain, values)
    /\ UNCHANGED <<domain, attributes, phase, entries, policy, stored>>

AddClause(pair, operator) ==
    /\ Preparing /\ boundary # <<>> /\ Typed(pair)
    /\ MayAddClause(clauses, pair.value)
    /\ clauses' = Append(clauses, Clause(pair.id, operator, pair.value))
    /\ UNCHANGED <<domain, attributes, boundary, phase, entries, policy, stored>>

(***************************************************************************)
(* build_policy.                                                           *)
(***************************************************************************)
\* An entry of the list `list`, which may be this one or a later one.
Reads(list) ==
    /\ request = <<<<>>, <<>>, <<>>>>
    /\ entries < MaxEntries /\ entries' = entries + 1
    /\ phase \in 1..list
    /\ UNCHANGED <<domain, request, stored>>

\* An accepted entry, or the error that ends build_policy; value() already refuses a byte
\* string that is too long.
Configured(accepted, list, next) ==
    IF accepted THEN phase' = list /\ policy' = next
    ELSE phase' = 0 /\ policy' = EmptyPolicy

\* register_*, then allow_value for each value of the entry.
ConfigureAttribute(entry) ==
    LET registered == Registered(policy, entry.id, entry.kind, entry.authority)
    IN  /\ Reads(1)
        /\ Configured(/\ MayRegister(policy, entry.id, entry.kind, entry.authority)
                      /\ \A v \in entry.allowed :
                             ~TooLong(v) /\ MayAllow(registered, entry.id, v),
                      1,
                      [registered EXCEPT !.allowed[entry.id] = @ \cup entry.allowed])

ConfigureApproval(entry) ==
    /\ Reads(2)
    /\ Configured(/\ ~TooLong(entry.value)
                  /\ MayApprove(policy, entry.agent, entry.attribute, entry.value), 2,
                  Approved(policy, entry.agent, entry.attribute, entry.value))

ConfigureIsolation(entry) ==
    /\ Reads(3)
    /\ Configured(MayIsolate(policy, entry.type, entry.attributes), 3,
                  Isolated(policy, entry.type, entry.attributes))

\* allow_subscriber_value for each value: an empty list requires nothing.
ConfigureRequirement(entry) ==
    /\ Reads(4)
    /\ Configured(\A v \in entry.values :
                      ~TooLong(v) /\ MayRequire(policy, entry.type, entry.attribute, v), 4,
                  [policy EXCEPT !.requirements[<<entry.type, entry.attribute>>] =
                      @ \cup entry.values])

Install ==
    /\ request = <<<<>>, <<>>, <<>>>> /\ phase \in 1..Len(Phases)
    /\ phase' = Len(Phases) + 1
    /\ UNCHANGED <<domain, request, entries, policy, stored>>

Installed == phase = Len(Phases) + 1

(***************************************************************************)
(* SetEnvironment at the CA, of any payload an Agent may sign.             *)
(***************************************************************************)
OfDomain(id) == SchemaEntry(domain, id) # NoRule

Environments ==
    LET Sequences(n) == [1..n -> {pair \in Universe : OfDomain(pair.id)}]
    IN  (UNION {Sequences(n) : n \in 0..MaxAttributes})
        \cup {e \in Sequences(MaxAttributes + 1) : UniqueAttributes(e)}

\* An encoding as it is, cut short, or followed by something; and one that holds an
\* attribute twice or one too many, which only parse_operation can refuse.
Payloads(environment) ==
    LET encoding == <<1>> \o EncodeAttributes(environment)
    IN  {encoding, SubSeq(encoding, 1, Len(encoding) - 1), Append(encoding, Trailer)}

\* The environment in a payload, if parse_operation finds one.
EnvironmentIn(payload) ==
    {parsed.operation.attributes : parsed \in
        {p \in {ParseOperation(payload)} : p.error = "None" /\ p.operation.kind = "SetEnvironment"}}

SetEnvironment(a, payload) ==
    /\ Installed
    /\ \E environment \in EnvironmentIn(payload) : ValidEnvironment(policy, a, environment)
    /\ stored' = [stored EXCEPT ![a] = payload]
    /\ UNCHANGED <<domain, request, phase, entries, policy>>

Prepare ==
    \/ \E pair \in Universe : AddAttribute(pair)
    \/ \E values \in Boundaries : StartPredicate(values)
    \/ \E pair \in Universe, i \in DOMAIN Operators : AddClause(pair, Operators[i])

BuildPolicy ==
    \/ \E entry \in AttributeEntries : OfDomain(entry.id) /\ ConfigureAttribute(entry)
    \/ \E entry \in ApprovalEntries : OfDomain(entry.attribute) /\ ConfigureApproval(entry)
    \/ \E entry \in IsolationEntries : OfDomain(entry.attributes[1]) /\ ConfigureIsolation(entry)
    \/ \E entry \in RequirementEntries : OfDomain(entry.attribute) /\ ConfigureRequirement(entry)
    \/ Install

Next ==
    \/ Prepare \/ BuildPolicy
    \/ \E a \in Agents, environment \in Environments :
           \E payload \in Payloads(environment) : SetEnvironment(a, payload)

Spec == Init /\ [][Next]_vars

(***************************************************************************)
(* Properties.                                                             *)
(***************************************************************************)
TypeOK ==
    /\ domain \in Domains
    /\ attributes \in Seq(Universe) /\ Len(attributes) <= MaxAttributes
    /\ boundary \in Boundaries \cup {<<>>} /\ Len(clauses) <= MaxClauses
    /\ phase \in 0..(Len(Phases) + 1) /\ entries \in 0..MaxEntries
    /\ policy.rules \in [Attributes -> {Rule(k, a) : k \in Kinds, a \in Authorities} \cup {NoRule}]
    /\ policy.isolation \in [Types -> SUBSET Attributes]
    /\ DOMAIN policy.approvals = Agents \X Attributes
    /\ DOMAIN policy.requirements = Types \X Attributes
    /\ DOMAIN stored = Agents

Stored == {a \in Agents : stored[a] # <<>>}

\* The environments the CA reads from what it stored.
Holdings ==
    UNION {{[agent |-> a, environment |-> e] : e \in EnvironmentIn(stored[a])} : a \in Stored}

\* authorize_delivery, over whatever environments two Agents managed to store, decides by
\* what the CA approved for the two identities alone: an isolation or a requirement cannot be
\* met, or missed, by what an Agent declares, adds or leaves out.
DecisionFromApprovals ==
    \A p, s \in Holdings, type \in Types :
        AuthorizesDelivery(policy, p.agent, p.environment, s.agent, s.environment, type)
            <=> AuthorizedByApprovals(policy, p.agent, s.agent, type)

\* Whatever payload an Agent signs, what the CA stores is canonical: it parses as one
\* environment within the protocol limits, with no attribute twice, and encoding that
\* environment gives the same payload again.
StoredCanonical ==
    \A a \in Stored : \E x \in Holdings :
        x.agent = a /\ EncodeEnvironment(x.environment) = Encoded(stored[a])

\* A policy that build_policy accepts locks nobody out: an environment made of exactly the
\* approvals of an Agent is encoded, parsed back and valid for it, as long as the approvals
\* are no more than an environment can hold.
ApprovedCanDeclare ==
    Installed => \A a \in Agents :
        LET approved == {Attribute(x, policy.approvals[<<a, x>>]) :
                            x \in {y \in Attributes : policy.approvals[<<a, y>>] # NoValue}}
        IN  Cardinality(approved) <= MaxAttributes =>
                \E declared \in [1..Cardinality(approved) -> approved] :
                    /\ ValidEnvironment(policy, a, declared)
                    /\ \E encoding \in {EncodeEnvironment(declared)} :
                           encoding.error = "None" /\ declared \in EnvironmentIn(encoding.output)

\* The operations an Agent sends with what its builders hold, and the responses of the CA.
Drafts ==
    {[kind |-> "SetEnvironment", attributes |-> attributes]}
    \cup [kind : {"Subscribe", "SubscribePermanent"}, type : Types, clauses : {clauses}]
    \cup [kind : {"Publish"}, type : Types, clauses : {clauses}, value : PublishedValues]
    \cup [kind : {"PublicationResponse"}, type : Types, publisher : Agents, value : PublishedValues]

\* Every request the builders let an Agent prepare can be sent: its attributes satisfy
\* validate_attribute, the encoders accept it and the CA parses the same request back,
\* at each of the limits too; and so is every response the CA sends for a publication.
DraftsSendable ==
    /\ \A i \in DOMAIN attributes : ValidateAttribute(domain, attributes[i]) = "None"
    /\ \A draft \in {[operation |-> o, encoding |-> EncodeOperation(o)] : o \in Drafts} :
           /\ draft.encoding.error = "None"
           /\ ParseOperation(draft.encoding.output) =
                  [error |-> "None", operation |-> draft.operation]

\* The boundary a builder starts with holds at both ends.  Whatever clauses an Agent adds, its
\* predicate matches only environments with the boundary values; and when the policy
\* registers the boundary attributes as the schema of the domain says, an Agent whose stored
\* environment meets the boundary clauses was approved for exactly these values.
BoundaryEnforced ==
    /\ boundary # <<>> => \A environment \in Environments :
           Evaluate(clauses, environment) =>
               \A i \in DOMAIN boundary :
                   Get(environment, BoundaryIds(domain)[i]) = boundary[i]
    /\ (\A i \in DOMAIN BoundaryIds(domain) :
           policy.rules[BoundaryIds(domain)[i]] = SchemaEntry(domain, BoundaryIds(domain)[i]))
       => \A x \in Holdings, values \in Boundaries :
              /\ DOMAIN values = DOMAIN BoundaryIds(domain)
              /\ Evaluate(BoundaryClauses(domain, values), x.environment)
              => \A i \in DOMAIN values :
                     policy.approvals[<<x.agent, BoundaryIds(domain)[i]>>] = values[i]
=============================================================================
