SPECIFICATION Spec
CONSTANTS
  None = None
  First = First
  w1 = w1
  w2 = w2
  w3 = w3
  Writers <- MCWriters
  Invalid <- MCInvalid
  Attempts = 2
  MaxFaults = 1
SYMMETRY GoodWriters
INVARIANTS
  WholeConfig
  DoneIsKept
  AppliedWhenSaid
\* Every run ends, and a restart that fails leaves no gateway to start.
CHECK_DEADLOCK FALSE
