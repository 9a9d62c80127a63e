SPECIFICATION Spec
CONSTANTS
    s1 = s1
    s2 = s2
    Requests = {s1, s2}
    NoPayload = none
    MaxGroup = 2
    CaPendingDepth = 2
    CaDedupDepth = 1
    CaQueueDepth = 2
    BrokerDedupDepth = 2
    MaxSubmits = 3
    MaxFaults = 2
    MaxBrokerRestarts = 1
    MaxCaRestarts = 1
    InFlightCap = 3
INVARIANTS
    TypeOK
    CurrentIffPending
    GroupAlwaysFits
    RequestsSerialized
    RequestNeverLost
    ProcessedOnceInOrder
    NoDeliveryLost
    AckCoversDeliveries
    RoutedOnceInOrder
CHECK_DEADLOCK FALSE
