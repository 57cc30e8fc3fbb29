CONSTANTS
  Runs = {r1, r2}
  Reads = {a1}
  Mutations = {m1, m2}
  Request <- MCRequest
  MaxActions = 2
  MaxRepeats = 3
  Outcomes <- MCOutcomes
SYMMETRY Symmetry
SPECIFICATION Spec
CHECK_DEADLOCK FALSE
INVARIANTS
  TypeOK
  MutationResultIsTrue
  ReadResultIsTheJobs
PROPERTIES
  DispatchedOnce
  PublicationSticks
  MutationResultSticks
  TerminalSticks
