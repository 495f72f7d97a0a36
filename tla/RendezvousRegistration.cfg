SPECIFICATION FairSpec
CONSTANTS
  h1 = h1
  h2 = h2
  Host = {h1, h2}
  NoHost = none
  Taken <- TakenInTurn
  MAX_FAILS2 = 1
  MaxId = 2
  MaxFaults = 1
INVARIANTS Inv
PROPERTIES Registered
