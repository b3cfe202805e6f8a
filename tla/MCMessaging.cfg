SPECIFICATION FairSpec
CONSTANTS
  a = a
  b = b
  Null = null
  Hosts <- MCHosts
  InitContacts <- ContactsOfA
  MaxId <- OneEach
  MaxLives <- OneAndTwo
  MaxWork = 3
  MaxFaults = 1
  MaxEntries = 1
  MaxBoxes = 1
CHECK_DEADLOCK FALSE
INVARIANTS TypeOK KeptUntilHandled AuthorizedByConsent
PROPERTIES MessagesArrive
