SPECIFICATION Spec
CONSTANTS
    ClassIndex <- MCClassIndex
    SiteCatalogues <- MCSiteCatalogues
INVARIANTS
    TypeOK
    HoseCoversContracts
    OrderIsPriority
PROPERTY
    ReleaseNeverRaisesLoad
