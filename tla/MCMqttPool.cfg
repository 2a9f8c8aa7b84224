SPECIFICATION FairSpec
CONSTANTS
  a = a
  b = b
  c1 = c1
  c2 = c2
  NoConn = NoConn
  Subscribers <- TwoSubscribers
  Publishers <- OneSubscriber
  Conns <- TwoConns
  SetMayFail = TRUE
CHECK_DEADLOCK FALSE
INVARIANTS ConnsAreAccountedFor
PROPERTY CloseRetiresAll
