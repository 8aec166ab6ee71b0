\* One request leads and hangs up, another is answered from what it left.
CONSTANTS
  Requests = {r1, r2}
  NoOne = NoOne
  Healthy = TRUE
SPECIFICATION FairSpec
INVARIANT HealthyMeansReady
