SPECIFICATION FairSpec
CONSTANTS
    s1 = s1
    s2 = s2
    Requests = {s1, s2}
    NoPayload = none
    MaxGroup = 1
    CaPendingDepth = 2
    CaDedupDepth = 2
    CaQueueDepth = 2
    BrokerDedupDepth = 2
    MaxSubmits = 2
    MaxFaults = 0
    MaxBrokerRestarts = 1
    MaxCaRestarts = 0
    InFlightCap = 3
PROPERTIES
    EventuallyDrained
CHECK_DEADLOCK FALSE
