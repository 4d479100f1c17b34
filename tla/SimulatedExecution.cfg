CONSTANTS
    t1 = t1
    t2 = t2
    t3 = t3
    coin = coin
    Txs <- MCTxs
    Coins = {coin}
    Inputs <- MCInputs
    MaxCommands = 5
    MaxUpgrades = 1
SPECIFICATION Spec
INVARIANTS NeverStuck
PROPERTIES RefinesEvidencedLedger BuildsOn
CHECK_DEADLOCK FALSE
