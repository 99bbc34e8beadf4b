SPECIFICATION LinkSpec
CHECK_DEADLOCK FALSE
CONSTANTS
  MayLack = TRUE
  MaxConns = 4
  MaxGames = 2
  MaxSidecars = 2
  MaxEmits = 1
  MaxNotes = 1
INVARIANTS
  LinkTypeOK
  AuthorityIsReal
PROPERTIES
  LinkHeals
  BridgeIsReported
