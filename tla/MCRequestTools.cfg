CONSTANTS
  Tools <- MCTools
  Size = 3
  Rounds = 2
  Subnet <- MCSubnet
  Skip = {"skipped"}
  Mac <- MCMac
  Foreign <- MCForeign
SPECIFICATION FairSpec
CHECK_DEADLOCK FALSE
INVARIANTS
  ResultWasReceived
  QueueKept
  NothingOverlooked
  FreshReply
PROPERTY
  ToolFinishes
