SPECIFICATION DeliverySpec
CONSTANTS
    s1 = s1
    reader = reader
    idler = idler
    Requests = {s1}
    NoPayload = none
    MaxGroup = 2
    CaPendingDepth = 2
    CaDedupDepth = 2
    CaQueueDepth = 2
    BrokerDedupDepth = 2
    MaxSubmits = 1
    MaxFaults = 1
    MaxBrokerRestarts = 0
    MaxCaRestarts = 1
    InFlightCap = 3
    Agents = {reader, idler}
    Readers = {reader}
    OnlineDepth = 1
    OfflineDepth = 1
    MaxDrops = 1
INVARIANTS
    NoLossUnlessCut
    OncePerAgentInOrder
PROPERTIES
    DrainedUnlessBlocked
CHECK_DEADLOCK FALSE
