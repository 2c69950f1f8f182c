SPECIFICATION Spec
CONSTANTS
    Nodes <- MCNodes
    Edges <- MCEdges
    NodeFrom <- MCNodeFrom
    NodeTo <- MCNodeTo
    ClassIndex <- MCClassIndex
    Demands <- LightDemands
    Load <- FullLoad
    Bookable <- EvenBookable
    Order <- MCOrder
    From <- FromPop1
    To <- ToPop2
    Bulk <- AllBulk
    Scale = 48
    Costs = {0, 24}
    InitialCost <- MCInitialCost
    TickPeriod = 1
    StaleAfter = 2
    HoldDown = 3
    ReportBuffer = 1
    MaxFaults = 0
    MaxUpdates = 0
PROPERTY
    AllClassesHoldDown
