SPECIFICATION Spec
CONSTANTS
  Requests = {r1, r2}
  MAX_PEER_LOOKUPS = 1
  PEER_ATTEMPTS = 2
  MaxChanges = 2
INVARIANTS
  ServesOnlyTaggedPeers
  SlotsAreGivenBack
  StatusOkMeansServed
  FailureOnRecord
PROPERTIES
  QueryEnds
  TableIsPutBack
