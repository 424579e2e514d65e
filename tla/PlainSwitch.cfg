SPECIFICATION Spec
CONSTANTS
  Clients = {c1, c2}
  Keys = {k1}
  NONE = none
  MemCap = 1
  ReplayCaps = {1}
  StopWrites = 4
  LargeBatches = TRUE
  TornMeta = FALSE
  MaxSeq = 4
  MaxFlushes = 0
  MaxCrashes = 0
  MaxCloses = 0
SYMMETRY PlainSymmetry
INVARIANTS Durable ReadLatest FlushScheduled
PROPERTIES LogsKept
CHECK_DEADLOCK FALSE
