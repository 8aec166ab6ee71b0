CONSTANTS
  Callers = {c1, c2}
  Threads = {w1, w2}
  Closers = {k1, k2}
  QueueDepth = 1
  NoOne = NoOne
SPECIFICATION FairSpec
INVARIANTS
  NoSendOnClosedQueue
  OfficeClosedLast
  CloseReturnsOfficeErr
  OrphanIsInChannel
PROPERTIES
  KeepsContract
  AcceptedCallReturns
  CloseCompletes
