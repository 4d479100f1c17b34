CONSTANTS
    Commands = {c1, c2}
    NoCommand = NoCommand
    Pids = {1}
    Platforms = {TRUE, FALSE}
    MaxOps = 2
    MaxBorn = 2
    MaxCrashes = 1
    MaxUnreadable = 1
SPECIFICATION FairSpec
INVARIANTS OnlyOwn Tracked
PROPERTIES OperationEnds
CHECK_DEADLOCK FALSE
