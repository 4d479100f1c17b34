CONSTANTS
    p1 = p1
    p2 = p2
    p3 = p3
    NoProc = NoProc
    Procs <- MCProcs
    Host <- MCHost
    MaxWaits = 1
    MaxCrashes = 2
    CreationCrash = FALSE
    CanStall = FALSE
    MaxAppends = 1
    TornWrites <- ShortCuts
    ShortWrites <- ShortCuts
SPECIFICATION LedgerFairSpec
CHECK_DEADLOCK FALSE
INVARIANTS UnlinkIsSafe
PROPERTIES RefinesDurableLog AppendTerminates
