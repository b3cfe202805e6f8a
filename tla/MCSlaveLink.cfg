SPECIFICATION FairSpec
CONSTANTS
  a = a
  b = b
  MaxCookies <- TwoAndOne
  MaxSends <- OneEach
  MaxCopies = 1
CHECK_DEADLOCK FALSE
INVARIANTS TypeOK Attended TunnelSound
PROPERTIES TunnelArises
