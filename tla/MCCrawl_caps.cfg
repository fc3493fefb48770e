\* Three workers, two start keys and an issue cap of three for four issues, on a
\* directory that another run writes to.
SPECIFICATION Spec
CONSTANTS
  a = a
  b = b
  c = c
  d = d
  e = e
  Keys <- CapKeys
  StartKeys <- CapStart
  Refs <- CapRefs
  Children <- CapChildren
  Workers = {w1, w2, w3}
  Main = Main
  Closer = Closer
  NoOne = NoOne
  QueueBuf = 4
  IssueCap = 3
  DepthLimit = 0
  Refetch = FALSE
  OnDisk = {}
  Replies = {"ok", "unauthorized", "denied", "ratelimited", "network", "unusable"}
  Faults = {"cancel", "children", "write", "other_run"}
SYMMETRY WorkerSymmetry
INVARIANTS
  NothingLost
  IssueCapExact
