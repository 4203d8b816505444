SPECIFICATION MigrationSpec
INVARIANT NoDrift
CHECK_DEADLOCK FALSE
