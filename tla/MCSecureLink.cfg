SPECIFICATION FairSpec
CONSTANTS
  a = a
  b = b
  c1 = c1
  c2 = c2
  Hosts <- MCHosts
  Cookies <- MCCookies
  MaxPackets <- MCPackets
  MaxRecords <- MCRecords
  Reuse <- MCReuse
CHECK_DEADLOCK FALSE
INVARIANTS TypeOK Settled NoStranding InOrder KeyAnnounced AuthBeforeSession ShutdownArmed
PROPERTIES ImplementsChannel QueueResolves ExitCompletes
