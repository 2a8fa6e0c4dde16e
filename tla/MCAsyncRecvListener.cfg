CONSTANTS
  Producers = {p1, p2}
  Listeners = {l1, l2}
  Nullptr = nullptr
  Worker = worker
  Free = free
  BUFF_SZ = 2
  MaxCalls = 4
SPECIFICATION FairSpec
CHECK_DEADLOCK FALSE
INVARIANTS
  TypeOK
  NothingLostOrReordered
  CalledListenerIsCurrent
  WokenForData
  AtMostOneAfterStop
PROPERTIES
  AwakeWorkerDrains
  HandleRecvReturns
  WorkerStops
