SPECIFICATION FairSpec
INVARIANTS LinksOK TableOK ParentExact
PROPERTIES ImplementsQueue NoStarvation
CONSTANTS
  NULL = NULL
  Sock = {s1, s2, s3}
  SockLimit = 2
  MaxVersion = 4
CHECK_DEADLOCK FALSE
