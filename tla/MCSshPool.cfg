SPECIFICATION FairSpec
CONSTANTS
  None = None
  c1 = c1
  c2 = c2
  c3 = c3
  Callers <- MCPair
  Hosts = {"h1", "h2"}
  Sessions = {1, 2}
  Arrays <- MCArrays
  MaxPerHost = 2
PROPERTIES
  OnlyDrainClosesHeld
  ImplementsLeases
  IdleIsEvicted
