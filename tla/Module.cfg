SPECIFICATION Spec
CONSTANTS
    None = None
    r1 = r1
    r2 = r2
    u1 = u1
    u2 = u2
    Urls <- MCUrls
    Texts <- MCTexts
    Resources <- MCResources
    MimeModules <- MCMimeModules
    Configurations <- MCConfigurations
SYMMETRY ResourceSymmetry
CHECK_DEADLOCK FALSE
INVARIANTS
    TypeOK
    RunsConfigured
    ProxyAsConfigured
    CrashOnlyUncached
