CONSTANTS
    p1 = p1
    p2 = p2
    x1 = x1
    x2 = x2
    None = None
    Procs <- TwoProcs
    Handlers <- TwoHandlers
    Setups <- MCSetups
    Coins = {1, 2}
    Branches <- MCBranches
    Roles <- MCRoles
    Required <- MCRequired
    Starts <- MCStarts
    MaxRequests = 3
    MaxOther = 1
    MaxFaults = 1
SPECIFICATION Spec
CONSTRAINT Requests
SYMMETRY Symmetry
CHECK_DEADLOCK FALSE
INVARIANTS SentIsRecorded ReadyIsSigned
PROPERTIES ReleasedIsFinal OthersKept
