SPECIFICATION BuildSpec
CHECK_DEADLOCK FALSE
CONSTANTS
  Players = {h, c1, c2}
  Host = h
  Nobody = nobody
  Ops <- AllOps
  ValidOps <- AllValidOps
  MayBuild = {h, c1, c2}
  Whats = {sofa, huge, funds}
  Refused = {huge}
  MayRaise = {funds}
  Definitions = {sofa}
  MaxMoves = 2
  MaxSeq = 2
  LeaseTicks = 0
  HistoryLimit = 1
  MayExpire = TRUE
  MayLeave = {c1}
INVARIANTS
  BuildersOrder
  NoEcho
  
  
  
