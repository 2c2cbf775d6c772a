SPECIFICATION FairSpec
CONSTANTS
    NoText = ""
    Texts <- MCTexts
    Lower <- MCLower
    WithTail <- MCWithTail
    Cut <- MCCut
    TypeMatch <- MCTypeMatch
    MimeTypes <- MCMimeTypes
    ModuleOrder <- MCModuleOrder
    Types <- MCTypes
    HeaderLines <- MCHeaderLines
    Urls <- MCUrls
    Status = {200, 302, 400}
    MaxRedirs = 1
    MaxLines = 2
    MaxBytes = 2
    Process = "process"
    Resource = "resource"
    CacheFile = "file"
    Nobody = "nobody"
CHECK_DEADLOCK FALSE
INVARIANTS
    TypeOK
    SuccessIsWhole
    TypeByPriority
    LastResponseDecides
PROPERTIES
    ImplementsFetch
    StepsRunOut
    TransferEnds
