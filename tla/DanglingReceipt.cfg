SPECIFICATION Spec
CONSTANTS
  Worker = {p1, p2}
  WorkerId = {w1}
  IdOf <- MCShared
  NoOwner = NoOwner
  MaxAttempts = 2
  CycleKey = {k1}
  TriggerKey = {k2}
  ResetKey = {x1, x2}
INVARIANTS
  ReceiptsNameRows
CHECK_DEADLOCK FALSE
