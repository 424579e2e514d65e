SPECIFICATION Spec
CONSTANTS
  Clients = {c1}
  Keys = {k1}
  NONE = none
  MemCap = 1
  ReplayCaps = {1}
  StopWrites = 2
  LargeBatches = FALSE
  TornMeta = FALSE
  MaxSeq = 1
  MaxFlushes = 0
  MaxCrashes = 0
  MaxCloses = 2
SYMMETRY PlainSymmetry
INVARIANTS DurableAlways
CHECK_DEADLOCK FALSE
