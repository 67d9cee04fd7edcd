SPECIFICATION FairSpec
CONSTANTS
    ann = ann
    Requests = {r1, r2}
    Actors = {ann}
    ActorOf <- OneOwner
    MaxPerUser = 1
INVARIANTS LInv WithinCap LeavesAfterGoroutine
PROPERTIES GoneIsReleased ExpiredIsClosed
CHECK_DEADLOCK FALSE
