CONSTANTS
    f1 = f1
    f2 = f2
    f3 = f3
    f4 = f4
    NoFlow = NoFlow
    Flows <- MCFlows
    ProcOf <- MCProcOf
    Host <- MCHost
    Operators <- MCOperators
    MaxAcquires = 1
    MaxPolls = 1
    MaxShares = 2
    MaxCrashes = 2
SPECIFICATION LockFairSpec
INVARIANTS ExclusionUnlessRaced
PROPERTIES AcquireEnds
CHECK_DEADLOCK FALSE
