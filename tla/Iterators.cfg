SPECIFICATION Spec
CONSTANTS
  MaxKey = 3
  PrefixLen = 2
  Stores = {"plain", "seq"}
  Bounds <- MCBounds
  Bounded = {"seq"}
  Large = TRUE
  TableKeys = 2
  MaxSeq = 3
  MaxSwitches = 1
  MaxOpen = 1
INVARIANTS LandsRight NoneSkipped GetNewest
\* The bounds on writes and iterators end the run.
CHECK_DEADLOCK FALSE
