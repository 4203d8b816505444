CONSTANTS
  Requests = {r1, r2, r3}
  N = 5
  Gates <- MCGates
  Keys <- MCKeys
  KeyOf <- MCKeyOf
  MaxAttempts <- MCAttempts
  NextStates = {"reporting"}
  Runners = {p1}
  MaxDecisions = 2
  MayCrash = TRUE
  NoRequest = NoRequest
SPECIFICATION FairSpec
CHECK_DEADLOCK FALSE
INVARIANTS TypeOK WorkBehindGates RowExplained
PROPERTIES FinishedStays PassEnds
