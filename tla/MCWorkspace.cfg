CONSTANTS
  None = None
  Refused = Refused
  Objects = {o1, o2}
  Publishers = {p1}
  Keepers = {k1}
  Limit = 1
SPECIFICATION Side
CHECK_DEADLOCK FALSE
INVARIANTS
  ReferencedIsStored
  SessionsAreTrue
  EvidenceIsTrue
PROPERTIES
  MovesWerePlanned
  CopiesAreWhole
  RunsAreTrue
