SPECIFICATION Spec
CONSTANTS
  Readers = {r1, r2}
  MaxKey = 2
  MemCap = 1
  StopWrites = 3
  MaxWrites = 3
  MaxSwitches = 2
  MaxLoads = 2
  MaxFaults = 1
  MaxFaultLoads = 1
  MapSizes = {4, 8}
  ExpandStep = 5
  InitMmapSize = 6
  OffsetLimit = 11
SYMMETRY MCSymmetry
INVARIANTS UsedIsLive RefsExact NothingLeft ReadsBack PanicsOnlyAtLimit InstalledSynced
CHECK_DEADLOCK FALSE
