CONSTANTS
    Ks = {0, 1, 2, 3}
    Inputs <- MCInputs
    Payloads <- MCPayloads
    MaxBlocks <- MCMaxBlocks
    MaxCarriers <- MCMaxCarriers
SPECIFICATION Spec
INVARIANTS DataAsDefined GreedyColouring MaximalAcceptance VerdictStands
CHECK_DEADLOCK FALSE
