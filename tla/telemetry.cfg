SPECIFICATION Spec
CONSTANTS
    a1 = a1
    a2 = a2
    d1 = d1
    r1 = r1
    r2 = r2
    s1 = s1
    s2 = s2
    Routers <- RoutersDef
    Bundles <- BundlesDef
    SIDs <- SIDsDef
    NoSID = NoSID
    NoReport = NoReport
    ReportFeedCap = 1
    PeerIntents <- PeerIntentsDef
    Scenarios <- ScenariosDef
    ProbeFeedCap = 1
    NoIntent = NoIntent
    NoAddress = NoAddress
    ReorderTolerance = 1
    MaxLostPerSample = 1
    WarmupSamples = 2
    MaxAckPending = 2
    Unseen = Unseen
INVARIANTS TypeOK NoTwinProbes LossIsReal
PROPERTIES TargetIsProbed ResultsAreStored SegmentsFollowRouters
