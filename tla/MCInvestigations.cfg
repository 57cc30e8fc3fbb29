CONSTANTS
  Controllers = {c1, c2}
  MaxGenerations = 2
  Recipe = "general"
  Kinds <- DecidingKinds
  Budget = 3
  Ask = 2
  FlowSteps = 1
  MaxRepairs = 0
  MaxCompactions = 0
  MaxTokens = 1
  Actions = {a1, a2}
  Ids = {k1}
  Solo = {c3}
  Unset = Unset
SYMMETRY Symmetry
SPECIFICATION Side
CHECK_DEADLOCK FALSE
INVARIANTS
  OneRequest
PROPERTIES
  ControllerResumes
  AnswersAreProved
  LongRunIsOrderly
  ActionsAreTrue
