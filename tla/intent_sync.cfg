CONSTANTS
    p1 = p1
    p2 = p2
    c1 = c1
    None = None
    PEs <- PEsDef
    CPEs <- CPEsDef
    Attach <- AttachDef
    Scenarios <- ScenariosDef
    FeedCap = 1
SPECIFICATION Spec
INVARIANTS TypeOK RestartOutranks LastCommitIsPublished
PROPERTIES NodesCatchUp TunnelsReachIntents
CHECK_DEADLOCK FALSE
