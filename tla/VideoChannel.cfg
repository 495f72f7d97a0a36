SPECIFICATION ChannelFairSpec
CONSTANTS
  Conn = {c1,c2}
  Display = {d1}
  AckRequired = {c2}
  MaxMessages = 3
INVARIANTS WaitHasCause FramesInOrder
PROPERTIES NewestArrives
CHECK_DEADLOCK FALSE
