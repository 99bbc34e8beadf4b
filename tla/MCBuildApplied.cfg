SPECIFICATION BuildSpec
CHECK_DEADLOCK FALSE
CONSTANTS
  Players = {h, c1}
  Host = h
  Nobody = nobody
  Ops <- AllOps
  ValidOps <- AllValidOps
  MayBuild = {c1}
  Whats = {wall}
  Refused = {}
  MayRaise = {}
  Definitions = {}
  MaxMoves = 1
  MaxSeq = 1
  LeaseTicks = 0
  HistoryLimit = 3
  MayExpire = FALSE
  MayLeave = {}
INVARIANTS
  AppliedOnce
