SPECIFICATION FairSpec
CONSTANTS
    Tick = 2
    IdleTimeout = 5
    IdleWarnLead = 2
INVARIANT SInv
PROPERTIES IdleIsWarned DeadPeerEndsSession ToldIdleEndsIdle
CHECK_DEADLOCK FALSE
