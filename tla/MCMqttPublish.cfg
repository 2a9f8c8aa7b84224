SPECIFICATION PublishSpec
CONSTANTS
  p1 = p1
  p2 = p2
  Senders <- MCSenders
  MaxId = 1
  MaxCalls = 3
  MaxIn = 2
  MaxConns = 2
  MaxWire = 1
INVARIANTS TableIsTheCalls OkMeansDelivered
PROPERTY IncomingOnce CloseWakesCallers
CHECK_DEADLOCK FALSE
