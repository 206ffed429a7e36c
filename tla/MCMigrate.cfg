SPECIFICATION FairSpec
CONSTANTS
  Nothing = Nothing
  SilentBudget = 4
  PendingBudget = 2
  MaxMigration = 5
  MaxRuns = 2
  MaxFaults = 2
  MaxCrashes = 1
CHECK_DEADLOCK FALSE
INVARIANTS
  SourceServesUntilCopied
  SlowMigrationCompletes
PROPERTIES
  MigrationEnds
