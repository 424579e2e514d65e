SPECIFICATION Spec
CONSTANTS
  MaxKey = 3
  MaxSeq = 3
  MemCap = 1
  StopWrites = 2
  MaxStSize = 3
  Rewrites = TRUE
  MaxFlushes = 1
  MaxGets = 1
  MaxCompacts = 1
  MaxCrashes = 1
  MaxCloses = 1
INVARIANTS GetFresh FlushedSurvives FlushComes
PROPERTIES NeededStay
CHECK_DEADLOCK FALSE
