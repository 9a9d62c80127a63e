SPECIFICATION Spec
CONSTANTS
    a1 = a1
    a2 = a2
    Agents = {a1, a2}
    Maximum = 2
    OnlineDepth = 1
    OfflineDepth = 2
    MaxDeliveries = 4
    MaxConnects = 3
    MaxAborts = 1
SYMMETRY AgentSymmetry
INVARIANTS
    TypeOK
    KeptUnlessOverflow
    NeverDuplicated
    FifoUnlessRaced
    TableFollowsTasks
CHECK_DEADLOCK FALSE
