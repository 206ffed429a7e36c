SPECIFICATION SetupSpec
CONSTANTS
  Providers = {"aws"}
  Selections <- McSsh
  Sshds <- McMatch
  Tokens = 2
  MaxFlows = 2
  MaxReboots = 1
INVARIANT
  NoAgentWithoutTable
CHECK_DEADLOCK FALSE
