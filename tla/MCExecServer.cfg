SPECIFICATION Spec
CONSTANTS
    r1 = r1
    r2 = r2
    r3 = r3
    ann = ann
    bob = bob
    east = east
    west = west
    Requests = {r1, r2, r3}
    Actors = {ann, bob}
    Clusters = {east, west}
    ActorOf <- Owners
    ClusterOf <- Places
    MaxSessionsPerUser <- UserCaps
    MaxSessionsTotal <- TotalCaps
    FailThreshold = 2
    MaxFails = 3
INVARIANT EInv
PROPERTIES CapUnlessRaced UnpinnedByOldSession
