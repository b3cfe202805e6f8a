SPECIFICATION FairSippySpec
CONSTANTS
  p1 = p1
  x1 = x1
  x2 = x2
  x0 = x0
  Peers <- MCOne
  Addresses <- MCAddresses
  NoAddress = x0
  MaxPings = 4
  MaxLookups = 2
  MaxBoxes = 1
CHECK_DEADLOCK FALSE
INVARIANTS SippyTypeOK ConnectedIsJoined
PROPERTIES ConnectingEnds
