SPECIFICATION ShSpec
CONSTANTS
  Tab = {t1, t2}
  SessionCap = 2
  UserCap = 1
  MaxAttempts = 1
  MaxOpens = 2
  MaxFaults = 1
CHECK_DEADLOCK FALSE
INVARIANTS ShInv
PROPERTIES LeftSessionEnds ClientSettles
