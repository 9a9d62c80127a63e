----------------------------- MODULE MCCaPolicy -----------------------------
(***************************************************************************)
(* CaPolicy over two Agents, two publication types and a few attributes of *)
(* each domain, with limits small enough to be reached.                    *)
(***************************************************************************)
EXTENDS CaPolicy

Building    == 4097
UserRole    == 4101
Operational == 4102
Swarm       == 8193
Epoch       == 8194
Tenant      == 12289

North == BytesValue(<<1>>)
South == BytesValue(<<2>>)
Long  == BytesValue(<<1, 1>>)
One   == I64Value(1)
Yes   == BoolValue(TRUE)

MCAttributes == {Building, UserRole, Operational, Swarm, Epoch, Tenant}

Entry(id, kind, authority, allowed) ==
    [id |-> id, kind |-> kind, authority |-> authority, allowed |-> allowed]

MCAttributeEntries ==
    {Entry(Building, "Bytes", "CaIssued", {}), Entry(Building, "Bytes", "CaIssued", {North}),
     Entry(Building, "Bytes", "SelfDeclared", {}), Entry(UserRole, "I64", "CaIssued", {}),
     Entry(UserRole, "I64", "CaIssued", {North}), Entry(Operational, "Bool", "SelfDeclared", {}),
     Entry(Swarm, "Bytes", "CaIssued", {}), Entry(Swarm, "Bytes", "CaIssued", {Long}),
     Entry(Epoch, "I64", "CaIssued", {}), Entry(Tenant, "Bytes", "CaIssued", {})}

Approval(agent, attribute, value) == [agent |-> agent, attribute |-> attribute, value |-> value]

MCApprovalEntries ==
    {Approval("a1", Building, North), Approval("a1", Building, South),
     Approval("a2", Building, North), Approval("a2", UserRole, One),
     Approval("a1", Operational, Yes), Approval("a1", Swarm, North),
     Approval("a1", Epoch, One), Approval("a2", Swarm, North), Approval("a1", Tenant, South)}

Isolation(type, ids) == [type |-> type, attributes |-> ids]

MCIsolationEntries ==
    {Isolation("t1", <<Building>>), Isolation("t1", <<Operational>>),
     Isolation("t1", <<Building, UserRole>>), Isolation("t1", <<Swarm, Epoch>>)}

Requirement(type, attribute, values) ==
    [type |-> type, attribute |-> attribute, values |-> values]

MCRequirementEntries ==
    {Requirement("t1", UserRole, {One}), Requirement("t1", Building, {South}),
     Requirement("t1", UserRole, {}), Requirement("t2", Epoch, {One})}

MCUniverse ==
    {Attribute(Building, North), Attribute(Building, South), Attribute(UserRole, One),
     Attribute(Operational, Yes), Attribute(Building, One), Attribute(Building, Long),
     Attribute(Swarm, North), Attribute(Epoch, One), Attribute(Tenant, South)}

MCBoundaries == {<<North>>, <<South>>, <<North, One>>, <<Long>>}

MCPublishedValues == {<<>>, <<1, 1>>}
=============================================================================
