SPECIFICATION DeviceSpec
CONSTANTS
  t1 = t1
  index = index
  js = js
  css = css
  x = x
  y = y
  Files <- Three
  Bytes = {x, y}
  Gone = Gone
  Torn = Torn
  NoMarker = NoMarker
  Index = index
  MaxVersion = 4
  Tree <- Released
  Service = Service
  Tools <- OneTool
  NoSecrets = NoSecrets
  Missing = Missing
  Sample = Sample
  Empty = Empty
  Mixed = Mixed
  MaxTokens = 3
  MaxFailures = 1
  BrowserCalls <- ThroughTheGateway
  DirectCalls <- AtTheListener
  Trusted = {"loopback"}
  NoCall = NoCall
INVARIANT ExportedIsWhole
INVARIANT NoStartIsRefused
INVARIANT CredentialsAgree
INVARIANT CodesStayOnTheDevice
INVARIANT GatewayKeepsTheClient
PROPERTY HandoffSucceeds
CHECK_DEADLOCK FALSE
