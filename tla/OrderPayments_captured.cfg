\* A cancel that races a capture (finding).
SPECIFICATION Spec
CONSTANTS
  o1 = o1
  h1 = h1
  h2 = h2
  Orders <- OneOrder
  MaxLinks = 1
  Handlers <- TwoHandlers
  Shortfalls <- NoShortfall
  Declines <- NoDecline
  Crashes = FALSE
  DashboardRefunds <- NoRefund
  NoLink = NoLink
  Idle = Idle
SYMMETRY HandlerSymmetry
INVARIANTS
  NeverLeftCaptured
CHECK_DEADLOCK FALSE
