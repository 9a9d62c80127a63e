--------------------------- MODULE MCConcurrentCa ---------------------------
(***************************************************************************)
(* ConcurrentCa with a publisher 1 and a subscriber 2 in one of two        *)
(* buildings, and a one-shot that is put twice.                            *)
(***************************************************************************)
EXTENDS ConcurrentCa, TLC

Building == 4097
North == BytesValue(<<1>>)
South == BytesValue(<<2>>)
In(value) == <<Attribute(Building, value)>>

\* Publisher and subscriber in these two buildings; deliveries stay within one.
Approves(publisher, subscriber) ==
    Isolated(Approved(Approved(Registered(EmptyPolicy, Building, "Bytes", "CaIssued"),
                               1, Building, publisher),
                      2, Building, subscriber),
             "reading", <<Building>>)

MCPolicies == {Approves(North, South), Approves(South, North), Approves(North, North)}

Signed(sender, operation, handler, environment, clauses) ==
    [sender |-> sender, key |-> "k", operation |-> operation, handler |-> handler,
     type |-> "reading", environment |-> environment, clauses |-> clauses]

MCRequest ==
    [publish   |-> Signed(1, "Publish", 0, <<>>, <<>>),
     again     |-> Signed(1, "Publish", 0, <<>>, <<Clause(Building, "Eq", North)>>),
     subscribe |-> Signed(2, "Subscribe", 1, <<>>, <<>>),
     watch     |-> Signed(2, "SubscribePermanent", 2, <<>>, <<Clause(Building, "Eq", North)>>),
     move      |-> Signed(2, "SetEnvironment", 0, In(North), <<>>)]

MCSessions == DOMAIN MCRequest
MCPolicy == Approves(North, South)
MCKeys == [a \in Agents |-> "k"]
MCEnvironments == [a \in Agents |-> IF a = 1 THEN In(North) ELSE NoEnvironment]

Symmetric == Permutations(Callers)
=============================================================================
