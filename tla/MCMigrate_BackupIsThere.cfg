SPECIFICATION Spec
CONSTANTS
  Nothing = Nothing
  SilentBudget = 4
  PendingBudget = 2
  MaxMigration = 5
  MaxRuns = 2
  MaxFaults = 0
  MaxCrashes = 0
CHECK_DEADLOCK FALSE
INVARIANT
  BackupIsThere
