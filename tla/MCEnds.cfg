CONSTANTS
  None = None
  Controllers = {c1}
  Runs = {r1, r2}
SPECIFICATION Side
CHECK_DEADLOCK FALSE
INVARIANTS
  OpenIsSafe
PROPERTIES
  DeadlineEndsWithOpen
  ComponentsEnd
