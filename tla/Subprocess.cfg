\* Two requests, one worker: one converts while the other waits, or comes late, and
\* the child of either may do anything.  A third adds refusals, which Limiter.cfg has.
CONSTANTS
  Calls = {c1, c2}
  Workers = 1
  QueueDepth = 1
  Metered = FALSE
  TimeoutSet = TRUE
SPECIFICATION FairSpec
INVARIANTS
  NoOrphanOutput
  OkHasOutput
  ScratchOnlyWhileHeld
  ChildrenWithinWorkers
  KilledGroupIsGone
  AnswerMatchesFate
PROPERTIES
  KeepsContract
  AnswersEveryCall
