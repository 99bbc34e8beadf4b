SPECIFICATION ClockSpec
CHECK_DEADLOCK FALSE
CONSTANTS
  Players = {h, p, q}
  Host = h
  p = p
  q = q
  Offered = {0, 2, 5}
  MaxChanges = 3
  Window = 2
SYMMETRY Symmetry
INVARIANTS
  ClockTypeOK
  
  
