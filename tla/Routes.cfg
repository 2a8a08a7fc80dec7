CONSTANTS
    s = s
    a = a
    b = b
    t = t
    x = x
    Cases <- AllCases
    SourceTargetMap <- Ports
    Changes <- SomeChanges
    MaxChanges = 1
    LiveMaxHops = 2
    Inf = 1000
    FlowsPerDest = 2
    MaxAttempts = 3
    Alpha = 2
    MaxHops = 30
    BannedPenalty = 3
    DefaultTheta = 100
    MaxPaths = 3
    DfsMaxHops = 2
    PathsPerDest = 2
    NumIterations = 2
    LastChanges <- SomeLastChanges
    Exp <- ExpTable
    SoftmaxLimit = 1490267
    PairGood <- Pairs
    LocalNode = x
    None = None
SPECIFICATION Spec
INVARIANTS
    RoutesAreRoutes CostsAreHonest LiveStyleIsBest
    FlowsMatchPaths ListedPathsAreFeasible BestScoreIsItsOwn ReachableAreServed OffersAreFair
PROPERTY EveryRequestAnswered
CHECK_DEADLOCK FALSE
