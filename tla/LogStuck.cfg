SPECIFICATION FairSpec
CONSTANTS
  Clients = {c1, c2}
  NONE = none
  Slots = 2
  BlockCap = 3
  MaxBlocks = 2
  Sizes = {2}
  MinSync = FALSE
  MaxRecords = 3
  MaxErrors = 1

PROPERTIES BlocksFreed
CHECK_DEADLOCK FALSE
