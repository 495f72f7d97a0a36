SPECIFICATION FairSpec
CONSTANTS
  Conn = {c1,c2,c3}
  NeedSnapshot = TRUE
  MaxConfig = 1
  RepeatMax = 1
  MaxFailTimes = 2
  LatencyFree = FALSE
INVARIANTS SharedFromTheKey EncoderShared
PROPERTIES Settles
CHECK_DEADLOCK FALSE
