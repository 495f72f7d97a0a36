SPECIFICATION Spec
CONSTANTS
  Conn = {c1, c2}
  Key = {k1}
  NoName = k1
  Tfa = TRUE
  MaxPassword = 2
SYMMETRY ConnSymmetry
INVARIANTS TypeOK
 
CHECK_DEADLOCK FALSE
