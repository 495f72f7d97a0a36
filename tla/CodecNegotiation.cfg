SPECIFICATION CodecFairSpec
CONSTANTS
  Conn = {p1,p2}
  Display = {d1,d2}
  Hosted = {"H264", "H265"}
  Decoding <- Hardwares
  MaxChanges = 3
INVARIANTS LabelKeepsMode
PROPERTIES ModeFollowed SwitchStops
CHECK_DEADLOCK FALSE
