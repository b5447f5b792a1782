\* A retry of an order that is already paid for (finding).
SPECIFICATION Spec
CONSTANTS
  o1 = o1
  h1 = h1
  h2 = h2
  Orders <- OneOrder
  MaxLinks = 2
  Handlers <- OneHandler
  Shortfalls <- NoShortfall
  Declines <- NoDecline
  Crashes = FALSE
  DashboardRefunds <- NoRefund
  NoLink = NoLink
  Idle = Idle
INVARIANTS
  NoSecondCharge
CHECK_DEADLOCK FALSE
