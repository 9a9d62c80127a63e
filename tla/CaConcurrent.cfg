CONSTANTS
    MaxAttributes = 2
    MaxClauses = 2
    MaxAttributeBytes = 1
    MaxValueBytes = 1
    Agents = {1, 2}
    Attributes = {4097}
    Types = {"reading"}
    Callers = {c1, c2}
    Keys = {"k", "l"}
    NoKey = "none"
    Sessions <- MCSessions
    NoSession = "no session"
    Request <- MCRequest
    Policies <- MCPolicies
    InitialPolicy <- MCPolicy
    InitialKeys <- MCKeys
    InitialEnvironments <- MCEnvironments
    AgentLimit = 2
    EnvironmentLimit = 2
    SubscriptionLimit = 1
    ReplayLimit = 3
    ReplayTtl = 2
    Times = {1, 3}
    MaxClockChanges = 1
    MaxReplacements = 1
SPECIFICATION Spec
SYMMETRY Symmetric
INVARIANTS
    TypeOK
    OneShotPerPut
    ReplayUntilExpiry
    DeliveriesOfOnePolicy
    UndisturbedPublicationComplete
