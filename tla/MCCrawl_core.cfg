\* Two workers on a cyclic graph of four issues, every reply and every surrounding
\* event but a second run, a depth limit; with fairness.
SPECIFICATION FairSpec
CONSTANTS
  a = a
  b = b
  c = c
  d = d
  e = e
  Keys <- WebKeys
  StartKeys <- WebStart
  Refs <- WebRefs
  Children <- WebChildren
  Workers = {w1, w2}
  Main = Main
  Closer = Closer
  NoOne = NoOne
  QueueBuf = 4
  IssueCap = 0
  DepthLimit = 1
  Refetch = FALSE
  OnDisk = {}
  Replies = {"ok", "unauthorized", "denied", "ratelimited", "network", "unusable"}
  Faults = {"cancel", "children", "write"}
INVARIANTS
  NoSendOnClosedQueue
  OneOutcome
  AbortReported
  DepthLimitHolds
PROPERTIES
  SummaryFinal
  ImplementsLedger
  Termination
