SPECIFICATION SetupSpec
CONSTANTS
  Providers = {"aws"}
  Selections <- McSsh
  Sshds <- McMatch
  Tokens = 1
  MaxFlows = 3
  MaxReboots = 0
INVARIANT
  UninstallTakesTheRules
CHECK_DEADLOCK FALSE
