SPECIFICATION FairSpec
CONSTANTS
  Clients = {c1, c2}
  NONE = none
  Slots = 2
  BlockCap = 3
  MaxBlocks = 2
  Sizes = {2}
  MinSync = TRUE
  MaxRecords = 3
  MaxErrors = 1
INVARIANTS CloseSyncsAll
PROPERTIES CallsReturn ImplementsDurable
CHECK_DEADLOCK FALSE
