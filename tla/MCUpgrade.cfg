SPECIFICATION Spec
CONSTANTS
  Nothing = Nothing
  MaxSchema = 2
  GateBudget = 2
  MaxFaults = 2
  MaxCrashes = 1
CHECK_DEADLOCK FALSE
INVARIANTS
  TargetUnderstandsState
  RefusalKeepsServing
  SnapshotFitsPrevious
  GoodTargetIsKept
PROPERTIES
