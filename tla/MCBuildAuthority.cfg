SPECIFICATION AuthoritySpec
CONSTANTS
  Players = {p1, p2}
  Nobody = nobody
  Ops = {create, broken}
  ValidOps = {create}
  LeaseTicks = 1
  HistoryLimit = 2
  MaxSeq = 4
INVARIANTS
  AuthorityTypeOK
  HistoryIsTheTail
PROPERTIES
  NoTheft
  OnlyTheHolderBuilds
