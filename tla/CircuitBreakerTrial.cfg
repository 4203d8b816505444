CONSTANTS
  Callers = {c1, c2}
  failure_threshold = 1
  recovery_timeout = 1
  CallersCancel = FALSE
  None = None
SPECIFICATION BreakerSpec
PROPERTY TrialDecides
