SPECIFICATION Spec
CONSTANTS
  p1 = p1
  p2 = p2
  Procs = {p1, p2}
  Scenarios <- MCScenarios
INVARIANTS
  CascadeOrder
  LibraryAgrees
  GuardSound
  InitRoundTrip
  ExitTellsOutcome
CHECK_DEADLOCK FALSE
