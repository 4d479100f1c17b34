CONSTANTS
    Servers = {s1, s2}
    NoServer = NoServer
    Keys = {k1, k2}
    NoKey = NoKey
    Payments = {x}
    MaxKeys = 1
    MaxSends = 3
    MaxFaults = 1
    Operators = {o1, o2}
SPECIFICATION Spec
INVARIANTS OneOwner KeyOnce ChainUnbroken
PROPERTIES NoBlindRepeat
SYMMETRY Interchangeable
CHECK_DEADLOCK FALSE
CONSTRAINT OneTrouble
