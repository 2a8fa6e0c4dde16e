CONSTANTS
  Tools = {"search"}
  Size = 3
  Rounds = 2
  Subnet <- MCSubnet
  Skip = {"skipped"}
  Mac <- MCMac
  Foreign <- MCForeign
SPECIFICATION Spec
CHECK_DEADLOCK FALSE
INVARIANT
  FrontWasStored
