CONSTANTS
  c1 = c1
  c2 = c2
  s = s
  Nodes <- MCNodes
  Asking <- MCAsking
  Answering <- MCAnswering
  Free = free
  NoMsg = nomsg
  QLen = 1
  MaxRequests = 1
  MayEnd = TRUE
  LockMayFail = TRUE
SPECIFICATION FairSpec
CHECK_DEADLOCK FALSE
INVARIANTS
  SameOrder
  RequestBeforeReply
  NothingLost
PROPERTY
  ReturnsOrBlocked
