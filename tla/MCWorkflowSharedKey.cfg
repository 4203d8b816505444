CONSTANTS
  Requests = {r1, r2, r3}
  N = 5
  Gates <- MCGates
  Keys <- MCDefaultKey
  KeyOf <- MCKeyOfDefault
  MaxAttempts <- MCAttempts
  NextStates = {"reporting"}
  Runners = {p1}
  MaxDecisions = 1
  MayCrash = FALSE
  NoRequest = NoRequest
SPECIFICATION Spec
CHECK_DEADLOCK FALSE
INVARIANT EveryGateAsks
