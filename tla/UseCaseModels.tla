---------------------------- MODULE UseCaseModels ----------------------------
(***************************************************************************)
(* The typed application models of crates/usecase-models: the schema of    *)
(* each domain, the environment builder and the predicate builders with    *)
(* the boundary clauses they always start with.                            *)
(*                                                                         *)
(* An attribute marker (BoolAttribute, I64Attribute, BytesAttribute) makes *)
(* the compiler refuse a value of another kind, so only values of the      *)
(* attribute's kind reach a builder.                                       *)
(***************************************************************************)
EXTENDS EnvironmentPolicy

Domains == {"smart_building", "robot_swarm", "multi_tenant"}

Issued(kind)   == Rule(kind, "CaIssued")
Declared(kind) == Rule(kind, "SelfDeclared")

\* BUILDING_ID, FLOOR_ID, DEVICE_CLASS, CERTIFIED_DEVICE, USER_ROLE, OPERATIONAL,
\* TEMPERATURE, OCCUPANCY, ALERT_ZONE, from identifier 0x1001 on.
SmartBuilding ==
    <<Issued("Bytes"), Issued("I64"), Issued("I64"), Issued("Bool"), Issued("I64"),
      Declared("Bool"), Declared("I64"), Declared("I64"), Issued("Bytes")>>

\* SWARM_ID, MISSION_EPOCH, ROBOT_ROLE, CAPABILITY, PAYLOAD_CAPACITY, OPERATIONAL,
\* BATTERY_LEVEL, ZONE, ASSIGNED_TASK, RECIPIENT_ID, from 0x2001 on.
RobotSwarm ==
    <<Issued("Bytes"), Issued("I64"), Issued("I64"), Issued("I64"), Issued("I64"),
      Declared("Bool"), Declared("I64"), Declared("Bytes"), Issued("Bytes"), Issued("Bytes")>>

\* TENANT_ID, SERVICE_ID, DEPLOYMENT_ENVIRONMENT, SERVICE_ROLE, CLEARANCE_LEVEL,
\* SERVICE_HEALTH, REGION, from 0x3001 on.
MultiTenant ==
    <<Issued("Bytes"), Issued("Bytes"), Issued("I64"), Issued("I64"), Issued("I64"),
      Declared("Bool"), Issued("Bytes")>>

Base(domain) ==
    CASE domain = "smart_building" -> 4096
      [] domain = "robot_swarm"    -> 8192
      [] domain = "multi_tenant"   -> 12288

Schema(domain) ==
    CASE domain = "smart_building" -> SmartBuilding
      [] domain = "robot_swarm"    -> RobotSwarm
      [] domain = "multi_tenant"   -> MultiTenant

\* DomainSchema::attribute through schema_entry.
SchemaEntry(domain, id) ==
    IF id - Base(domain) \in DOMAIN Schema(domain) THEN Schema(domain)[id - Base(domain)]
    ELSE NoRule

\* validate_attribute, for values obtained at run time.
ValidateAttribute(domain, attribute) ==
    IF SchemaEntry(domain, attribute.id) = NoRule THEN "UnknownAttribute"
    ELSE IF TooLong(attribute.value) THEN "AttributeTooLong"
    ELSE IF SchemaEntry(domain, attribute.id).kind # attribute.value.kind
    THEN "WrongAttributeType"
    ELSE "None"

(***************************************************************************)
(* The builders: when a call is accepted; it then appends to the list.     *)
(***************************************************************************)
\* Mutant: the builder accepts an attribute it already holds.
MayAddAttribute_Twice(entries, id, value) ==
    ~TooLong(value) /\ Len(entries) < MaxAttributes

\* EnvironmentBuilder: bytes checks the length, push the identifier and the capacity.
MayAddAttribute(entries, id, value) ==
    /\ ~TooLong(value)
    /\ \A i \in DOMAIN entries : entries[i].id # id
    /\ Len(entries) < MaxAttributes

\* Mutant: one clause too many.
MayAddClause_OneMore(clauses, value) == ~TooLong(value) /\ Len(clauses) <= MaxClauses

\* ClauseBuilder.
MayAddClause(clauses, value) == ~TooLong(value) /\ Len(clauses) < MaxClauses

\* The identifiers a domain's subscription and audience always constrain.
BoundaryIds(domain) ==
    IF domain = "robot_swarm" THEN <<Base(domain) + 1, Base(domain) + 2>> ELSE <<Base(domain) + 1>>

\* subscription and audience: equality with each of the boundary values.
BoundaryClauses(domain, boundary) ==
    [i \in DOMAIN BoundaryIds(domain) |-> Clause(BoundaryIds(domain)[i], "Eq", boundary[i])]

MayBound(domain, boundary) == \A i \in DOMAIN boundary : MayAddClause(<<>>, boundary[i])
=============================================================================
