SPECIFICATION InteractionSpec
CHECK_DEADLOCK FALSE
CONSTANTS
  Host = h
  s1 = s1
  s2 = s2
  Players = {h, p}
  Sims = {s1, s2}
  NoSim = nosim
  Loads <- TheLoads
  MaxPicks = 2
  Window = 2
  Requests = {r1, r2}
  NoRequest = noreq
  MaxWork = 1
SYMMETRY Symmetry
INVARIANTS
  InteractionTypeOK
  ControllersAreHere
  
  MenusNeverStart
