SPECIFICATION RoutingSpec
CONSTANTS
    ha = ha  hb = hb  hc = hc  away = away  ra = ra  rb = rb  rc = rc  NULL = NULL  Self = Self
    Host <- MCHost
    NextHop <- MCNextHop
    RouteOf <- MCRouteOf
    Usable = 2
    Networks <- AnyNetwork
    MaxPackets = 3
    N = 5
    B = 2
    Tables <- MCTables
    Octet = 4
    Contents <- MCContents
    WordsOnly <- MCWordsOnly
    Ifaces = {0, 1}
    RouteLists <- MCRouteLists
    OnLink <- MCOnLink
    Destination <- MCDestination
    MaxArrivals = 2
INVARIANTS
    RoutingTypeOK
    WaitersMatchRequests
    WaiterIsSent
    
    FindsUniform
    ChecksumVerifies
    GoesByBest

    
CHECK_DEADLOCK FALSE
