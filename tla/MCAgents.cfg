SPECIFICATION AgSpec
CONSTANTS
  Cluster = {c1, c2}
  Home = c1
  Token = {t1, t2}
  NoToken = none
  MaxFaults = 2
CHECK_DEADLOCK FALSE
INVARIANTS AgInv DialsAsPersisted ListedUnlessRaced
PROPERTIES OneCertPerToken GoneIsDelisted EnrollsUnlessFault EnrolledIsConnected
