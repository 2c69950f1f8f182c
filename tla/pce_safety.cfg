SPECIFICATION Spec
CONSTANTS
    Nodes <- MCNodes
    Edges <- MCEdges
    NodeFrom <- MeshNodeFrom
    NodeTo <- MeshNodeTo
    ClassIndex <- MCClassIndex
    Demands <- MeshDemands
    Load <- MeshLoad
    Bookable <- MeshBookable
    Order <- MCOrder
    From <- MeshFrom
    To <- ToPop2
    Bulk <- MeshBulk
    Scale = 48
    Costs = {0, 24}
    InitialCost <- MCInitialCost
    TickPeriod = 1
    StaleAfter = 2
    HoldDown = 3
    ReportBuffer = 1
    MaxFaults = 2
    MaxUpdates = 1
INVARIANTS
    TypeOK
    NoOverbooking
    BookingsMatchPaths
    LastReportIsCurrent
PROPERTIES
    NamedClassesHoldDown
    FailedLinkLeftInTurn
    ImplementsAdmission
