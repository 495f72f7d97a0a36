SPECIFICATION FairSpec
CONSTANTS
  Conn = {1,2}
  Term = {t1,t2}
  MaxServices = 2
  MaxSessions = 2
  Overlap = FALSE
INVARIANTS TypeOK RestoreComplete NonPersistentEnds
PROPERTIES EndIsTold IdleRemoved
CHECK_DEADLOCK FALSE
