SPECIFICATION Spec
CONSTANTS
    None = None
    p1 = p1
    p2 = p2
    r1 = r1
    r2 = r2
    r3 = r3
    u1 = u1
    u2 = u2
    f1 = f1
    f2 = f2
    Procs <- MCProcs
    Files <- MCFiles
    Urls <- MCUrls
    Types <- MCTypes
    CacheFileName <- MCCacheFileName
    UrlType <- MCUrlType
    HeaderTypes <- MCHeaderTypes
    MaxCacheSize = 1
    PurgeTarget = 1
    MaxBytes = 1
    Resources <- MCResources
    Owner <- MCOwner
    MaxFaults = 0
INVARIANT
    KeepsReadLock
