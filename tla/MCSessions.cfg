SPECIFICATION Spec
CONSTANTS
  h1 = h1
  h2 = h2
  p1 = p1
  p2 = p2
  Handlers <- MCHandlers
  Passwords <- MCPasswords
  Default = Default
  None = None
  SessionMax = 2
  SessionTTL = 1
  CodeMax = 1
  CodeTTL = 1
  MaxTokens = 3
  MaxCodes = 2
  MaxChanges = 2
  MaxTime = 2
SYMMETRY Symmetric
INVARIANTS TablesAreKept ChangeEndsSessions SecretsAreKept
CHECK_DEADLOCK FALSE
