SPECIFICATION Spec
CONSTANTS
  c1 = c1
  c2 = c2
  p1 = p1
  p2 = p2
  w1 = w1
  w2 = w2
  Candidate = {c1}
  Autonomous = {}
  Seeds = {"CANDIDATE","LATENCY","ELIGIBLE"}
  Worker = {p1, p2}
  WorkerId = {w1}
  IdOf <- MCShared
  NoOwner = NoOwner
  LifecycleStages <- DefaultStages
  RequiredApprovals = 1
  MaxAttempts = 2
  MaxRuns = 2
  MaxOperations = 2
  MaxApprovals = 2
  MaxRevision = 11
  MaxBeats = 0
SYMMETRY MCWorkers
INVARIANTS
  TypeOK
  OneUnresolvedOperation
  FailedOperationBlocks
  RegistryBlockersAreCurrent
  EligibleRestsOnEvidence
  ProjectionAgrees
  VersionsAreEarned
  ApprovalsSpentOnce
  OwnedWhileRunning
  RetryOfferMatchesCommand
  BlockedNamesItsBlocker
  OneVersionPerToken
  PromotionTokenIsFresh
  PendingIsBacked
  PromotedIsSelected
  OfferMatchesCommand
PROPERTIES
  RevisionSeesEveryChange
  VersionEndsPendingPromotion
  HistoryIsPermanent
  ImplementsActivation
CHECK_DEADLOCK FALSE
