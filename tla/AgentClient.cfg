SPECIFICATION FairSpec
CONSTANTS
    c1 = c1
    c2 = c2
    Connections = {c1, c2}
    NoConnection = none
    Roles = {"permanent", "coordinator", "publisher", "one-shot", "subscribe_permanent", "subscribe_once"}
    OfflineDepth = 1
    Capacity = 1
    Ttl = 1
    MaxRequests <- RequestsOf
    MaxDeliveries = 2
    Quota <- DeliveriesOf
    MaxFailures = 1
    MaxTime = 2
INVARIANTS
    TypeOK
    OrderUnlessContended
    OneSubscriptionPerWait
PROPERTIES
    ImplementsReplayProtector
    EventuallyWritten
CHECK_DEADLOCK FALSE
