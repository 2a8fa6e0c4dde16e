CONSTANTS
  Producers = {p1}
  Listeners = {l1}
  Nullptr = nullptr
  Worker = worker
  Free = free
  BUFF_SZ = 2
  MaxCalls = 2
SPECIFICATION FairSpec
CHECK_DEADLOCK FALSE
PROPERTY
  AcceptedIsForwarded
