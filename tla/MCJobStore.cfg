CONSTANTS
  Jobs = {j1, j2}
  Calls = {c1, c2, c3}
  Keys = {k1}
  Scopes = {s1, s2}
  MapScopes = {s1}
  Outcomes <- MCOutcomes
  OneScope = {s1}
SYMMETRY Symmetry
SPECIFICATION PartSpec
CHECK_DEADLOCK FALSE
INVARIANTS
  TypeOK
  ClaimedOnce
  LeaseMatchesStatus
  ResultIsTheRunners
  HeadIsLatestUseful
  IndexIsReplay
PROPERTIES
  TerminalIsFinal
  ImplementsJobLife
