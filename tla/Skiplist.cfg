SPECIFICATION Spec
CONSTANTS
  Writers = {w1, w2}
  K = 3
  MaxHeight = 2
  MaxBatch = 2
  Capacity = 8
  MaxGets = 1
SYMMETRY WriterSymmetry
INVARIANTS LevelsSorted ReadersFind PrevMirrors RoomSuffices
\* The entries are used up.
CHECK_DEADLOCK FALSE
