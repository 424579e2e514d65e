SPECIFICATION FairSpec
CONSTANTS
  w1 = w1
  w2 = w2
  NULL = NULL
  Writers = {w1, w2}
  N = 4
  Counts = {2}
  Syncs = {TRUE, FALSE}
  UseQueue = TRUE
  MaxCommits = 5
  MaxErrors = 1
INVARIANTS
  TypeOK
  VisibleApplied
PROPERTIES
  ReturnsVisible
  ReturnsSynced
  ImplementsOrder
  CommitReturns
\* The bound on commits ends the run.
CHECK_DEADLOCK FALSE
