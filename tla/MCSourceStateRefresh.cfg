SPECIFICATION Spec
CONSTANTS
  r1 = r1
  r2 = r2
  None = None
  Runs <- OneRun
  Limit = 1
  Deletable = FALSE
  SaveFails = FALSE
  MaxClock = 3
CHECK_DEADLOCK FALSE
INVARIANT RefreshOutlivesItsRequest
