\* One call is enough: its deadline passes while the outcome is delivered.
CONSTANTS
  Callers = {c1}
  Threads = {w1}
  Closers = {k1}
  QueueDepth = 1
  NoOne = NoOne
SPECIFICATION FairSpec
INVARIANT NoOrphanFile
