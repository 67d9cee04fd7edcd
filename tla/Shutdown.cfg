SPECIFICATION FairSpec
CONSTANTS
    ann = ann
    Requests = {r1, r2}
    Actors = {ann}
    ActorOf <- OneOwner
    MaxPerUser = 1
PROPERTY ShutdownReachesStreams
CHECK_DEADLOCK FALSE
