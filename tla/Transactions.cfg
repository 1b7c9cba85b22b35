SPECIFICATION FairSpec
CONSTANTS
  c1 = c1
  c2 = c2
  p1 = p1
  p2 = p2
  s1 = s1
  s2 = s2
  Candidate = {c1, c2}
  Worker = {p1, p2}
  WorkerId = {p1, p2}
  IdOf <- MCIds
  NoOwner = NoOwner
  Abandoned = {c2}
  EligibleAgain = {c1}
  Session = {s1}
  Free = Free
  MaxAttempts = 2
  MaxCommands = 1
INVARIANTS
  DeadlocksAreKnown
PROPERTIES
  RowsChangeAtomically
  OperationsEnd
CHECK_DEADLOCK FALSE
