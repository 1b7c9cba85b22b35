SPECIFICATION FairSpec
CONSTANTS
  Worker = {p1, p2}
  WorkerId = {w1}
  IdOf <- MCShared
  NoOwner = NoOwner
  MaxAttempts = 2
  CycleKey = {k1}
  TriggerKey = {}
  ResetKey = {x1, x2}
INVARIANTS
  SucceededCycleIsPlanned
  OneResetPerKey
PROPERTIES
  ScheduleRunsEnd
CHECK_DEADLOCK FALSE
