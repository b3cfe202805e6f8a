SPECIFICATION Spec
CONSTANTS
  s1 = s1
  s2 = s2
  s3 = s3
  Posters <- MCOne
  Size = 1
  MaxPosts = 2
CHECK_DEADLOCK FALSE
INVARIANT FetchFindsMessage
