SPECIFICATION Spec
CONSTANTS
  PlanSize = 2
  Policies <- MCPolicies
  Result <- MCResult
  MaxRuns = 2
INVARIANTS
  FullIsEligible
  ScoreWithinResults
PROPERTIES
  ProgressIsKept
CHECK_DEADLOCK FALSE
