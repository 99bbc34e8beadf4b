SPECIFICATION JoinSpec
CHECK_DEADLOCK FALSE
CONSTANTS
  Ids = {h, p, q}
  Host = h
  Valid = {TRUE, FALSE}
  MaySend = {p}
  Claims = {p, q}
  Conns = {c1, c2}
  NoConn = noconn
  NoId = noid
  Transfers = {t1,t2}
  Chunks = 2
  Window = 1
  MaxVersion = 2
SYMMETRY Symmetry
INVARIANTS
  EntriesAreServed
  PlayersAreListed
  SlotIsWhole
  SyncedIsInstalled
PROPERTIES
  OthersAreSafe
