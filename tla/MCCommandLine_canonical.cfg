SPECIFICATION Spec
CONSTANTS
  p1 = p1
  p2 = p2
  Procs = {p1, p2}
  Scenarios <- MCScenarios
INVARIANT
  CanonicalHonoured
CHECK_DEADLOCK FALSE
