CONSTANTS
    Flows = {f1, f2}
    NoFlow = NoFlow
    move1 = move1
    move2 = move2
    Txs <- MCTxs
    Outpoints = {1, 2, 3}
    OutsOf <- MCOuts
    CovenantOf <- MCCovenants
    LastCovenant = 2
    MaxSends = 2
    MaxCrashes = 1
    MaxFaults = 1
SPECIFICATION FairSpec
INVARIANTS OncePerTx NoSilentRivals
PROPERTIES SendsEnd
CHECK_DEADLOCK FALSE
