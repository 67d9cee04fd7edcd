SPECIFICATION FairSpec
CONSTANTS
    Keys = {k1, k2}
    ChanCap = 1
    WireCap = 2
    MaxRV = 3
    MaxFaults = 2
INVARIANTS IInv ViewConsistent RelistThenSnapshot
PROPERTIES ShowsCollection CatchesUp
CHECK_DEADLOCK FALSE
