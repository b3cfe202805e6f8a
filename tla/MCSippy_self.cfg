SPECIFICATION SippySpec
CONSTANTS
  p1 = p1
  x1 = x1
  x2 = x2
  x0 = x0
  Peers <- MCOne
  Addresses <- MCAddress
  NoAddress = x0
  MaxPings = 4
  MaxLookups = 2
  MaxBoxes = 1
CHECK_DEADLOCK FALSE
INVARIANTS SelfSetOnce
