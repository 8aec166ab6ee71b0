\* All environments, two requests; the server may exit.
CONSTANTS
  Requests = {r1, r2}
  Workers0 = 4
SPECIFICATION Spec
INVARIANTS
  StartedAsAssumed
  ChildSharesSetup
  LeftoversAreOfCutRequests
PROPERTIES
  SignalEndsServer
CHECK_DEADLOCK FALSE
