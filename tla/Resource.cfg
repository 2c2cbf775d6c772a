SPECIFICATION Spec
CONSTANTS
    None = None
    p1 = p1
    p2 = p2
    r1 = r1
    r2 = r2
    r3 = r3
    u1 = u1
    u2 = u2
    f1 = f1
    f2 = f2
    Procs <- MCProcs
    Files <- MCFiles
    Urls <- MCUrls
    Types <- MCTypes
    CacheFileName <- MCCacheFileName
    UrlType <- MCUrlType
    HeaderTypes <- MCHeaderTypes
    MaxCacheSize = 2
    PurgeTarget = 1
    MaxBytes = 2
    Resources <- MCResources
    Owner <- MCOwner
    MaxFaults = 2
SYMMETRY MCSymmetry
INVARIANTS
    TypeOK
    FetchIsExclusive
    NoLeakedLock
    CacheLockFreed
    InUseProtected
    SizeCoversCache
PROPERTIES
    UseIsStable
    AccessAdvances
    DisturbedAtHome
    LimitYieldsToUse
