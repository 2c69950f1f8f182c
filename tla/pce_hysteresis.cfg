SPECIFICATION Spec
CONSTANTS
    Nodes <- MCNodes
    Edges <- MCEdges
    NodeFrom <- MCNodeFrom
    NodeTo <- MCNodeTo
    ClassIndex <- MCClassIndex
    Demands <- VoiceDemands
    Load <- VoiceLoad
    Bookable <- EvenBookable
    Order <- MCOrder
    From <- FromPop1
    To <- ToPop2
    Bulk <- NoBulk
    Scale = 48
    Costs = {0, 20, 24, 72}
    InitialCost <- SpreadCost
    TickPeriod = 1
    StaleAfter = 2
    HoldDown = 3
    ReportBuffer = 1
    MaxFaults = 0
    MaxUpdates = 2
PROPERTY
    ReroutesAreWorthIt
