SPECIFICATION Spec
CONSTANTS
  c1 = c1
  c2 = c2
  Calls = {c1, c2}
  Requests <- MCRequests
  Workers = {w1, w2}
  Causes = {"not_found", "conflict"}
  Defaults <- MCDefaults
INVARIANT OneSendAtATime
CHECK_DEADLOCK FALSE
