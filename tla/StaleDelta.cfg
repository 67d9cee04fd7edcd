SPECIFICATION BSpec
CONSTANTS
    Keys = {k1}
    ChanCap = 1
    WireCap = 1
    MaxRV = 4
    MaxFaults = 1
    MaxReconnectAttempts = 4
    NoList = NoList
INVARIANT SnapshotReplaces
CHECK_DEADLOCK FALSE
