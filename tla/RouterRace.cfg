SPECIFICATION Spec
CONSTANTS
    a1 = a1
    a2 = a2
    Agents = {a1}
    Maximum = 2
    OnlineDepth = 1
    OfflineDepth = 2
    MaxDeliveries = 2
    MaxConnects = 2
    MaxAborts = 0
INVARIANT
    PerAgentFifo
CHECK_DEADLOCK FALSE
