SPECIFICATION Spec
CONSTANTS
  Nullopt = Nullopt
  Empty = Empty
  Everyone = Everyone
  Frames <- MCFrames
  DnsStack <- MCDnsStack
  RecordSets <- MCRecordSets
  Questions <- MCQuestions
  SoaJunk <- MCSoaJunk
  Subnets <- MCSubnets
  Skip <- MCSkip
  MinFrame = 60
  Texts <- MCTexts
  MaxOctets = 6
INVARIANTS FrameKept ChecksumVerifies RoutedByLongestPrefix AnalyzerShowsTheSender
  AnswersMatchDatabase CompressedAnswersRead ScanAsksSubnet TextReadAsShown
PROPERTY ScanEnds
