\* Two devices that sign in, out and in again, two requests at once.
SPECIFICATION Spec
CONSTANTS
  d1 = d1
  d2 = d2
  h1 = h1
  h2 = h2
  t1 = t1
  t2 = t2
  t3 = t3
  Tokens <- ThreeTokens
  Devices <- TwoDevices
  Handlers <- TwoHandlers
  Retries = 1
  NoToken = NoToken
  NoHandler = NoHandler
  Idle = Idle
SYMMETRY Symmetry
CONSTRAINT OneAnswer
INVARIANTS
  OneLivePerSignIn
  LogoutAnsweredIsFinal
  NoFalseAlarm
  IInv
