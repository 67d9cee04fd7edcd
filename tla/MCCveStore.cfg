SPECIFICATION CveSpec
CONSTANTS
  Pod = {p1, p2}
  Digest = {"d1"}
  Image <- MCImage
  Clean = {}
  MaxChanges = 2
CHECK_DEADLOCK FALSE
INVARIANTS CveInv CountsDriftOnlyWhenRaced
PROPERTIES SweepPicksUnused RunningIsFetched
