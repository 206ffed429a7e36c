SPECIFICATION Spec
CONSTANTS
  None = None
  c1 = c1
  c2 = c2
  c3 = c3
  Callers <- MCCallers
  Hosts = {"h1"}
  Sessions <- MCSessions
  Arrays <- MCArrays
  MaxPerHost = 2
SYMMETRY CallerSymmetry
PROPERTY
  ReusedIsOpen
