SPECIFICATION FairSpec
CONSTANTS
  Conn = {c1, c2}
  Cursor = {arrow, hand}
  None = None
  NeedSnapshot = TRUE
INVARIANTS IdsResolve Current
PROPERTIES Implements Serves CatchesUp
CHECK_DEADLOCK FALSE
