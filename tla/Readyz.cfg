CONSTANTS
  Requests = {r1, r2, r3}
  NoOne = NoOne
  Healthy = FALSE
SPECIFICATION FairSpec
INVARIANTS
  OneProbeInFlight
  ProbeLeavesNoFile
PROPERTIES
  VerdictsNeverGoBack
  EveryRequestAnswered
