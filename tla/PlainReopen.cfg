SPECIFICATION FairSpec
CONSTANTS
  Clients = {c1}
  Keys = {k1}
  NONE = none
  MemCap = 2
  ReplayCaps = {1, 2}
  StopWrites = 2
  LargeBatches = FALSE
  TornMeta = TRUE
  MaxSeq = 3
  MaxFlushes = 1
  MaxCrashes = 1
  MaxCloses = 1
INVARIANTS ReopenReads ReadLatest
PROPERTIES RoomFound
CHECK_DEADLOCK FALSE
