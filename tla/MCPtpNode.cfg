CONSTANTS
  Addrs <- MCAddrs
  Servers <- MCServers
  NetIds <- MCNetIds
  Lists <- MCLists
  MaxSends = 2
SPECIFICATION FairSpec
CHECK_DEADLOCK FALSE
INVARIANTS
  DeliveredAtDestination
  TerminatedByEndlessPath
PROPERTY
  RoundTrip
