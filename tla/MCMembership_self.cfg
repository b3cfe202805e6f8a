SPECIFICATION Spec
CONSTANTS
  a = a
  b = b
  c = c
  d = d
  Hosts <- Three
  Founder = a
  networkDivisor = 10
  MaxData = 1
  MaxLeaves = 0
  MaxOverlaps = 0
SYMMETRY Newcomers
CHECK_DEADLOCK FALSE
INVARIANTS NotToMyself
