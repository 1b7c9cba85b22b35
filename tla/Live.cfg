SPECIFICATION FairSpec
CONSTANTS
  c1 = c1
  c2 = c2
  p1 = p1
  p2 = p2
  w1 = w1
  w2 = w2
  Candidate = {c2}
  Autonomous = {c2}
  Seeds = {}
  Worker = {p1, p2}
  WorkerId = {w1, w2}
  IdOf <- MCDistinct
  NoOwner = NoOwner
  LifecycleStages <- DefaultStages
  RequiredApprovals = 0
  MaxAttempts = 2
  MaxRuns = 2
  MaxOperations = 1
  MaxApprovals = 0
  MaxRevision = 3
  MaxBeats = 1
INVARIANTS
  OwnedWhileRunning
PROPERTIES
  HistoryIsPermanent
  PendingIsDecided
  RunsEnd
CHECK_DEADLOCK FALSE
