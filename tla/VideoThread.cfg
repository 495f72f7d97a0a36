SPECIFICATION FairSpec
CONSTANTS
  Codec = {c1, c2}
  Decodable = {c1}
  NoCodec = none
  VIDEO_QUEUE_SIZE = 2
  MAX_DECODE_FAIL_COUNTER = 2
  Ring = 2
  MaxInFlight = 1
  MaxChannel = 3
  MaxData = 2
  MaxDropped = 1
  MaxChanges = 1
INVARIANTS Inv LossIsRepaired
PROPERTIES Shown
