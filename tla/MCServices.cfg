CONSTANTS
  start1 = start1
  start2 = start2
  start3 = start3
  RunKeys = {k1, k2}
  Starts = {start1, start2, start3}
  Home <- MCHome
  GraphLength = 2
  NoRun = NoRun
  Feedback = {f1, f2}
  Converters = {v1, v2}
  Promoters = {p1}
  MaxCrashes = 1
  Moments = {1}
  ReviewLimit = 2
  PendingLimit = 1
  Callers = {c1, c2, c3, c4}
  failure_threshold = 2
  recovery_timeout = 2
  CallersCancel = TRUE
  None = None
  Calls = {c1, c2}
  K = 3
  Configured = {1, 3}
  MaxAttempts = 2
  Costs = {0, 2}
  Cap = 3
  Estimates = {2}
  NoEstimate = NoEstimate
  MayCancel = TRUE
  Invocations = {i1, i2}
  Tools = {"newman"}
  max_wallclock_seconds <- MCWallclock
  timeout_seconds <- MCTimeout
  Overrides = {2}
SPECIFICATION ServicesSpec
INVARIANTS ServicesTypeOK RunsKept FeedbackKept BreakerKept UsageKept ToolsKept
PROPERTIES StartEnds ScoredEventually Quarantine AdmitsAgain CallEnds InvokeEnds
CHECK_DEADLOCK FALSE
