SPECIFICATION Spec
CONSTANTS
  Nothing = Nothing
  MaxSchema = 2
  GateBudget = 2
  MaxFaults = 0
  MaxCrashes = 0
CHECK_DEADLOCK FALSE
INVARIANT
  PreviousUnderstandsState
