SPECIFICATION Spec
CONSTANTS
  BlockSize = 7
  Sizes = {1, 2, 5}
  Preallocated = 16
  MaxRecords = 3
  MaxLogs = 2
INVARIANTS ReplayReadsLog ClosedEndsCleanly
CHECK_DEADLOCK FALSE
