CONSTANTS
    o1 = o1
    o2 = o2
    l1 = l1
    l2 = l2
    NoBlock = NoBlock
    Observers <- TwoObservers
    Looks <- TwoLooks
    Setups <- MCSetups
    Pools <- InPool
    Submissions <- Rejected
    MinConfirmations = 1
    FinalityDepth = 2
    MaxBlocks = 3
    MaxLooks = 3
    MaxFaults = 1
    BatchBounds <- OneOrTwo
SPECIFICATION Spec
CONSTRAINT OneLookEach
SYMMETRY LookSymmetry
CHECK_DEADLOCK FALSE
INVARIANTS NeverOverstated CursorNeverSkips
PROPERTIES QuietLookDecides FinalOperationStays
