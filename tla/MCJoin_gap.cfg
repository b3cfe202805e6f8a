SPECIFICATION FairProcessSpec
CONSTANTS
  p1 = p1
  p2 = p2
  p3 = p3
  x1 = x1
  x2 = x2
  x0 = x0
  Peers <- MCPeers
  Addresses <- MCAddresses
  NoAddress = x0
  MaxPings = 5
CHECK_DEADLOCK FALSE
INVARIANTS ProcessTypeOK AttemptGuarded TimersMatch SelfSetOnce ExitHasSelf SelfAddressKnown
PROPERTIES JoinedUntilExit AttemptEnds
