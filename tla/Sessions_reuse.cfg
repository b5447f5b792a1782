\* A rotated token is presented again (finding).
SPECIFICATION Spec
CONSTANTS
  d1 = d1
  d2 = d2
  h1 = h1
  h2 = h2
  t1 = t1
  t2 = t2
  t3 = t3
  Tokens <- ThreeTokens
  Devices <- OneDevice
  Handlers <- OneHandler
  Retries = 1
  NoToken = NoToken
  NoHandler = NoHandler
  Idle = Idle
PROPERTIES
  ReuseEndsFamily
CHECK_DEADLOCK FALSE
