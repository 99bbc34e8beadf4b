SPECIFICATION HookSpec
CHECK_DEADLOCK FALSE
CONSTANTS
  Attrs = {send, cancel, aop, simulate, onremove}
  Early = {send, cancel}
  Traced = {send, cancel, aop, simulate}
  Send = send
  Cancel = cancel
  Simulate = simulate
  OnRemove = onremove
  MaxReloads = 2
  MaxTraces = 3
INVARIANTS
  HookTypeOK
  InterceptedOnce
  NothingIntercepted
  StockClientStays
