SPECIFICATION Spec
CONSTANTS
  Readers = {r1, r2}
  PageSize = 3
  MaxInline = 1
  FreeAtStart = 2
  Loads = {2, 4, 14}
  OpKeys = {2, 3}
  MaxOps = 1
  MaxTx = 4
  MaxErrors = 1
  MaxFaults = 1
  MaxFaultKeys = 4
  MaxCrashes = 1
INVARIANTS NoPanic SnapshotsStable CommittedWhole PagesAccounted CursorsFind
CHECK_DEADLOCK FALSE
SYMMETRY Symmetry
CONSTRAINT BeforeOverlap
