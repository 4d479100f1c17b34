CONSTANTS
    r1 = r1
    send = send
    k1 = k1
    k2 = k2
    Calls <- MCCalls
    Broadcasts <- MCBroadcasts
    Closes <- MCCloses
    NoClose = NoClose
    MaxOpens = 2
    MaxDrops = 2
SPECIFICATION FairSpec
CHECK_DEADLOCK FALSE
INVARIANTS OnlyExpected OutcomeIsTrue CloseReleasesAll
PROPERTIES AllEnd
