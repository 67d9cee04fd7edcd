SPECIFICATION BFairSpec
CONSTANTS
    Keys = {k1}
    ChanCap = 1
    WireCap = 1
    MaxRV = 3
    MaxFaults = 1
    MaxReconnectAttempts = 2
    NoList = NoList
INVARIANTS BInv TableFollowsUnlessOverrun
PROPERTIES GivenUpIsFinal TableCatchesUp
CHECK_DEADLOCK FALSE
