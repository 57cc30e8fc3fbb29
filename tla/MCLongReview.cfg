CONSTANTS
  MaxQuestions = 2
  MaxChildren = 1
  MaxAttempts = 2
  MaxBatches = 2
  MaxGenerations = 1
  MaxFaults = 1
  MaxChanges = 0
SPECIFICATION Spec
CHECK_DEADLOCK FALSE
INVARIANTS
  EveryInterruptionReviewed
