SPECIFICATION PageSpec
CONSTANTS
  c1 = c1
  p1 = p1
  w1 = w1
  Candidate = {c1}
  Autonomous = {}
  Seeds = {"CANDIDATE"}
  Worker = {p1}
  WorkerId = {w1}
  IdOf <- MCIds
  NoOwner = NoOwner
  LifecycleStages <- DefaultStages
  RequiredApprovals = 0
  MaxAttempts = 1
  MaxRuns = 3
  MaxOperations = 1
  MaxApprovals = 0
  MaxRevision = 8
  MaxBeats = 0
  Shown = c1
  Route = "INVENTORY"
  PageLimit = 4
  MaxEvents = 4
  MaxSubmissions = 1
INVARIANT ReplayClosesGaps
CHECK_DEADLOCK FALSE
