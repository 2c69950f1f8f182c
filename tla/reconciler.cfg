SPECIFICATION Spec
CONSTANTS
    t1 = t1
    t2 = t2
    none = none
    Tenants = {t1, t2}
    MaxTenants = 2
    Intents <- MCIntents
    TableMaps <- MCTableMaps
    InitialFibs <- MCInitialFibs
    TableSpan = 16
    TableIDs = 128
    DefaultPrefix = "::/0"
    MaxPasses = 3
    MaxDeliveries = 3
    MaxFaults = 1
    NoIntent = none
INVARIANTS
    TypeOK
    UndisturbedReconcileConverges
    ConvergedIsComplete
    TablesAreNotShared
PROPERTIES
    ForeignVRFsAreLeftAlone
    StaleIntentsAreIgnored
    ReconcileEnds
CHECK_DEADLOCK FALSE
