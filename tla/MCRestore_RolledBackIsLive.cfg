SPECIFICATION Spec
CONSTANTS
  Nothing = Nothing
  b1 = b1
  b2 = b2
  Blanks <- MCBlanks
  RestartBudget = 1
  HealthBudget = 6
  MaxFaults = 2
  MaxCrashes = 2
CHECK_DEADLOCK FALSE
INVARIANT
  RolledBackIsLive
