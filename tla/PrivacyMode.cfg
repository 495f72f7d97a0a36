SPECIFICATION FairSpec
CONSTANTS
  Conn = {c1, c2}
  NoConn = none
  MaxRequests = 3
  MaxFailures = 1
INVARIANTS Inv HiddenWhileHeld
PROPERTIES Followed
CHECK_DEADLOCK FALSE
