\* Two calls of one issue, one of them through a client that logs.
SPECIFICATION FairSpec
CONSTANTS
  Nobody = Nobody
  c1 = c1
  c2 = c2
  Calls = {c1, c2}
  Loggers = {c2}
  MaxNetworkRetries = 1
  MaxRateLimitRetries = 1
INVARIANTS
  GivesUpWhenSpent
  UpdateStands
PROPERTIES
  KeepsPromise
  CallsReturn
