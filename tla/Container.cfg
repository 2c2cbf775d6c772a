SPECIFICATION Spec
CONSTANTS
    None = None
    c1 = c1
    c2 = c2
    c3 = c3
    c4 = c4
    o1 = o1
    o2 = o2
    o3 = o3
    n1 = n1
    n2 = n2
    u1 = u1
    u2 = u2
    Containers <- MCContainers
    Resources <- MCResources
    Names <- MCNames
    Urls <- MCUrls
    WhiteList <- MCWhiteList
    Types <- MCTypes
SYMMETRY MCSymmetry
INVARIANTS
    TypeOK
    SoleOwner
    FileMeansRetrieved
