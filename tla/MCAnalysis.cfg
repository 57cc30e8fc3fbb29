CONSTANTS
  Ids = {1, 2, 3}
  Analyses = {x1}
  Writers = {w1, w2}
  Readers = {}
  Fits = {}
  MaxRevision = 2
  MaxAnalysis = 2
  MaxPuts = 3
  MaxPins = 1
  Depth = 2
  None = None
  Signatures = {s1, s2}
SYMMETRY Symmetry
SPECIFICATION Side
CHECK_DEADLOCK FALSE
INVARIANTS
  NoCycles
  NoLostRevision
  FlowIsTrue
  TextIsTrue
PROPERTIES
  CompleteIsTrue
