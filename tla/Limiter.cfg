\* One worker, one queue place, three requests: the third can be refused, the
\* second waits and can be canceled while it waits.  For the limiter a deadline is
\* one more way to be canceled; the runs of Subprocess have it.
CONSTANTS
  Calls = {c1, c2, c3}
  Workers = 1
  QueueDepth = 1
  Metered = TRUE
  TimeoutSet = FALSE
SPECIFICATION FairSpec
INVARIANTS
  TokensMatch
  AtMostWorkersConvert
  QueueGaugeInRange
  BusyNeverAboveTokens
PROPERTIES
  RefusedOnlyWhenFull
  EveryCallReturns
