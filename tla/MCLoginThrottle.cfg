SPECIFICATION ThrottleSpec
CONSTANTS
  s1 = s1
  s2 = s2
  s3 = s3
  h1 = h1
  h2 = h2
  Sources <- MCSources
  Checkers <- MCCheckers
  MaxFails = 3
  LockFor = 2
  Window = 2
  MaxLock = 3
  GlobalFails = 4
  GlobalWindow = 2
  GlobalLock = 1
  MaxSources = 2
  CheckTime = 1
  MaxTicks = 4
SYMMETRY Symmetric
INVARIANTS LimitsHold BurstsAreLocked
CHECK_DEADLOCK FALSE
