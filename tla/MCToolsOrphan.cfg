CONSTANTS
  Invocations = {i1, i2}
  Tools = {"newman", "playwright"}
  max_wallclock_seconds <- MCWallclock
  timeout_seconds <- MCTimeout
  Overrides = {2}
SPECIFICATION ToolSpec
INVARIANT NothingLeft
CHECK_DEADLOCK FALSE
