CONSTANTS
  Requests = {r1, r2}
  Sessions = {s1, s2}
  TTLs = {0, 1}
  SweepLimit = 1
  MaxTime = 1
  Nobody = Nobody
SPECIFICATION Spec
SYMMETRY Symmetry
CHECK_DEADLOCK FALSE
INVARIANTS TypeOK DecidedInTime AuditExplainsRow OverwrittenOnlyByRacers
PROPERTY ImplementsBook
