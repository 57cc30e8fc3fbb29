CONSTANTS
  Runs = {r1, r2}
  Reads = {}
  Mutations = {m1, m2}
  Request <- MCRequest
  MaxActions = 2
  MaxRepeats = 3
  Outcomes <- MCOutcomes
SYMMETRY Symmetry
SPECIFICATION Spec
CHECK_DEADLOCK FALSE
PROPERTIES
  UncertainNotReplayed
