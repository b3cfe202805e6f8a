SPECIFICATION Spec
CONSTANTS
  a = a
  b = b
  c = c
  d = d
  Hosts <- Four
  Founder = a
  networkDivisor = 10
  MaxData = 1
  MaxLeaves = 2
  MaxOverlaps = 1
SYMMETRY Newcomers
CHECK_DEADLOCK FALSE
INVARIANTS TypeOK QueueWaitsForRoute MastersAppointed Anchored Agreement
