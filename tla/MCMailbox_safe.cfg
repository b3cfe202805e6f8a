SPECIFICATION FairSpec
CONSTANTS
  s1 = s1
  s2 = s2
  s3 = s3
  Posters <- MCThree
  Size = 1
  MaxPosts = 2
CHECK_DEADLOCK FALSE
INVARIANTS TypeOK NoLostWakeup NoStandoff PostOrder
PROPERTIES PostCompletes MailboxEmpties
