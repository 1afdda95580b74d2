SPECIFICATION Spec
CONSTANTS
    t1 = t1
    t2 = t2
    d1 = d1
    d2 = d2
    c1 = c1
    c2 = c2
    c3 = c3
    none = none
    MaxChanges = 2
    MaxMarks = 2
    MaxFailures = 1
    Tabs <- MCTabs
    MaxReports = 3
    MaxDropped = 1
    MaxFlips = 3
    MaxRenders = 2
    MaxOps = 3
    MaxTroubles = 2
    Convs <- TwoConvs
    Long <- LongConv
    Nowhere = none
    MaxRevs = 1
    MaxLoads = 2
    MaxMishaps = 1
    MaxMoves = 3
    Rung <- TwoRung
    Placed <- OnePlaced
    NoCall = none
    MaxCalls = 2
    MaxSlips = 2
INVARIANT IdleGoesAway
CHECK_DEADLOCK FALSE
