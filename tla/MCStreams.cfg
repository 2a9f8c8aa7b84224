SPECIFICATION StreamsSpec
CONSTANTS
  s1 = s1
  v1 = v1
  v2 = v2
  x1 = x1
  x2 = x2
  h1 = h1
  h2 = h2
  j = j
  p1 = p1
  a = a
  b = b
  Absent = Absent
  NoSub = NoSub
  Sources <- OneSource
  Versions <- TwoVersions
  Subs <- TwoSubs
  Handlers <- TwoHandlers
  Janitors <- TheJanitor
  None = None
  Publishers <- OnePublisher
  Viewers <- TwoViewers
  Buffer = 2
  MaxEvents = 3
CHECK_DEADLOCK FALSE
INVARIANTS NoForgottenSubscription ActiveFollowsRegistry MapOutlivesNoStream SeenInOrder
PROPERTIES RefusedIsRetried CloseEndsStreams
