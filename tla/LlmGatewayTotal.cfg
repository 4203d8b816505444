CONSTANTS
  Calls = {c1, c2}
  K = 1
  Configured = {1}
  MaxAttempts = 1
  Costs = {2}
  Cap = 3
  Estimates = {}
  NoEstimate = NoEstimate
  MayCancel = FALSE
SPECIFICATION LlmSpec
CHECK_DEADLOCK FALSE
INVARIANT TotalIsSpent
