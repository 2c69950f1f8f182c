SPECIFICATION FairSpec
CONSTANTS
    Nodes <- MCNodes
    Edges <- MCEdges
    NodeFrom <- MCNodeFrom
    NodeTo <- MCNodeTo
    ClassIndex <- MCClassIndex
    Demands <- MixedDemands
    Load <- MixedLoad
    Bookable <- MixedBookable
    Order <- MCOrder
    From <- FromPop1
    To <- ToPop2
    Bulk <- MixedBulk
    Scale = 48
    Costs = {0, 24}
    InitialCost <- MCInitialCost
    TickPeriod = 1
    StaleAfter = 2
    HoldDown = 3
    ReportBuffer = 1
    MaxFaults = 1
    MaxUpdates = 1
PROPERTIES
    FailedLinksAreLeft
    EveryDemandIsPlaced
    NamedPathsSettle
