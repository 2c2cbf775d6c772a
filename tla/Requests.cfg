SPECIFICATION FairRequests
CONSTANTS
    None = None
    p1 = p1
    p2 = p2
    c1 = c1
    c2 = c2
    c3 = c3
    r1 = r1
    r2 = r2
    r3 = r3
    n1 = n1
    n2 = n2
    u1 = u1
    u2 = u2
    f1 = f1
    f2 = f2
    Procs <- MCProcs
    Files <- MCFiles
    Urls <- MCUrls
    Types <- MCTypes
    CacheFileName <- MCCacheFileName
    UrlType <- MCUrlType
    HeaderTypes <- MCHeaderTypes
    MaxCacheSize = 1
    PurgeTarget = 1
    MaxBytes = 1
    Resources <- MCResources
    Owner <- MCOwner
    MaxFaults = 1
    Names <- MCNames
    RealName <- MCRealName
    Copies <- MCCopies
    Original <- MCOriginal
    Holder <- MCHolder
INVARIANTS
    CopiesOK
    WaitersHoldNothing
    IdleHoldsNothing
    WaitersWaitForWorkers
    OnlyLocksBlock
    ContainersSound
PROPERTIES
    ImplementsContainers
    ImplementsStore
    AccessEnds
