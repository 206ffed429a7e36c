SPECIFICATION SetupSpec
CONSTANTS
  Providers = {"aws"}
  Selections <- McSelections
  Sshds <- McSshds
  Tokens = 2
  MaxFlows = 3
  MaxReboots = 1
INVARIANTS
  SshIsLetIn
  AgentIsLetIn
  WiredTokenIsServed
  TableBeforeAgent
CHECK_DEADLOCK FALSE
