SPECIFICATION Spec
CONSTANTS
    a1 = a1
    a2 = a2
    Agents = {a1}
    Maximum = 2
    OnlineDepth = 1
    OfflineDepth = 1
    MaxDeliveries = 2
    MaxConnects = 1
    MaxAborts = 0
INVARIANT
    AcceptedKept
CHECK_DEADLOCK FALSE
