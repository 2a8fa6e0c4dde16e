SPECIFICATION Spec
CONSTANTS
  Nullopt = Nullopt
  Empty = Empty
  Everyone = Everyone
  Frames <- MCNothing
  DnsStack <- MCDnsStack
  RecordSets <- MCNothing
  Questions <- MCNothing
  SoaJunk <- MCNothing
  Subnets <- MCWithinOctet
  Skip <- MCSkip
  MinFrame = 60
  Texts <- MCNothing
  MaxOctets = 6
INVARIANTS EverySubnetIsScanned
