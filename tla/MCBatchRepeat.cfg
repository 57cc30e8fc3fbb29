CONSTANTS
  Runs = {r1, r2}
  NSteps = 1
  DependsOn <- MCDependsOn
  AllowPartial = {}
  Cost <- MCCost
  MaxJobs = 3
  MaxCost = 4
  Outcomes <- MCOutcomes
SYMMETRY Symmetry
SPECIFICATION Spec
CHECK_DEADLOCK FALSE
INVARIANTS
  SuccessNotRepeated
