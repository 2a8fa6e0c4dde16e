CONSTANTS
  c1 = c1
  c2 = c2
  s = s
  Nodes <- MCPair
  Asking <- MCOneAsking
  Answering <- MCOneAnswering
  Free = free
  NoMsg = nomsg
  QLen = 1
  MaxRequests = 3
  MayEnd = FALSE
  LockMayFail = FALSE
SPECIFICATION FairSpec
CHECK_DEADLOCK FALSE
PROPERTY
  SentToAll
