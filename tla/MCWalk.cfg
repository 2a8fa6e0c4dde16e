CONSTANTS
  Addr = {1, 2, 3, 4}
  MaxVisits = 4
  MaxPackets = 4
  MaxHeld = 2
SPECIFICATION MCSpec
CHECK_DEADLOCK FALSE
INVARIANTS
  EachCalledOnce
  EndpointIsServed
  OnlyNewestTwoAreServed
  TwoFiltersAtMost
PROPERTY
  RemovedIsNotCalled
