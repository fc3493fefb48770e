\* The channel holds two keys and the start key refers to four.
SPECIFICATION FairSpec
CONSTANTS
  a = a
  b = b
  c = c
  d = d
  e = e
  Keys <- StarKeys
  StartKeys <- StarStart
  Refs <- StarRefs
  Children <- StarChildren
  Workers = {w1, w2}
  Main = Main
  Closer = Closer
  NoOne = NoOne
  QueueBuf = 2
  IssueCap = 0
  DepthLimit = 0
  Refetch = FALSE
  OnDisk = {}
  Replies = {"ok"}
  Faults = {"cancel"}
PROPERTY GracefulShutdown
\* A crawl stuck on its full channel is what this run is about.
CHECK_DEADLOCK FALSE
