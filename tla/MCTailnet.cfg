SPECIFICATION Spec
CONSTANTS
  None = None
  p1 = p1
  i1 = i1
  i2 = i2
  Procs <- MCProcs
  Ips <- MCIps
  Replacing = {FALSE}
SYMMETRY IpSymmetry
INVARIANTS
  WayIn
  PrivateOverrideIsTheHost
  KnownBeforeUsed
