SPECIFICATION HomeSpec
CONSTANTS
  p1 = p1
  p2 = p2
  a = a
  b = b
  c = c
  u1 = u1
  u2 = u2
  NoName = NoName
  Procs <- McProcs
  Names <- McNames
  Urls <- McUrls
  Caps <- McCaps
  MaxCommands = 4
  MaxRacing = 3
SYMMETRY Symmetry
INVARIANTS
  OverwritingNeedsForce
CHECK_DEADLOCK FALSE
