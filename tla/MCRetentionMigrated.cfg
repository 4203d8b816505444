CONSTANTS
  Database <- MCMigrated
  Rows <- MCRows
  Quarter = 1
  Year = 1
  Windows = {0, 2}
  LastDay = 2
  Absent = Absent
  NULL = NULL
SPECIFICATION RetentionSpec
INVARIANT EachClassPruned
CHECK_DEADLOCK FALSE
