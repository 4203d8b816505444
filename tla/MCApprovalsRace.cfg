CONSTANTS
  Requests = {r1}
  Sessions = {s1, s2}
  TTLs = {1}
  SweepLimit = 1
  MaxTime = 2
  Nobody = Nobody
SPECIFICATION Spec
CHECK_DEADLOCK FALSE
INVARIANT DecidedOnce
