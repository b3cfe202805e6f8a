SPECIFICATION Spec
CONSTANTS
  a = a
  b = b
  c = c
  d = d
  Hosts <- Three
  Founder = a
  networkDivisor = 10
  MaxData = 0
  MaxLeaves = 0
  MaxOverlaps = 1
SYMMETRY Newcomers
CHECK_DEADLOCK FALSE
INVARIANTS MasterChosen
