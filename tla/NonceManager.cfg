CONSTANTS
    Signers = {c1, c2, c3}
    MaxResets = 1
    MaxExternal = 1
SPECIFICATION NonceFairSpec
INVARIANTS UniqueNonces
PROPERTIES NoHole AcquireEnds
CHECK_DEADLOCK FALSE
