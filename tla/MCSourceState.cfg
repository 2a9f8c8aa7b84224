SPECIFICATION Spec
CONSTANTS
  r1 = r1
  r2 = r2
  None = None
  Runs <- TwoRuns
  Limit = 1
  Deletable = TRUE
  SaveFails = TRUE
  MaxClock = 2
CHECK_DEADLOCK FALSE
SYMMETRY Symmetry
INVARIANTS RunningHasARun ReadingIsTheLatest HistoryEndsWithTheState DeletedLeavesNothing
