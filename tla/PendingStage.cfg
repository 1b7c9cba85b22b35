SPECIFICATION Spec
CONSTANTS
  c1 = c1
  c2 = c2
  p1 = p1
  p2 = p2
  w1 = w1
  w2 = w2
  Candidate = {c1}
  Autonomous = {}
  Seeds = {"CANDIDATE"}
  Worker = {p1, p2}
  WorkerId = {w1}
  IdOf <- MCShared
  NoOwner = NoOwner
  LifecycleStages <- DefaultStages
  RequiredApprovals = 0
  MaxAttempts = 1
  MaxRuns = 2
  MaxOperations = 1
  MaxApprovals = 0
  MaxRevision = 6
  MaxBeats = 0
INVARIANTS
  QueuedPublicationKeepsPending
CHECK_DEADLOCK FALSE
