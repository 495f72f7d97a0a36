SPECIFICATION FairSpec
CONSTANTS
  Conn = {c1,c2}
  NeedSnapshot = TRUE
  MaxChange = 1
  MaxIgnore = 2
INVARIANTS Synced
PROPERTIES ChangesReach
CHECK_DEADLOCK FALSE
