\* One order whose link may be replaced, two transactions in flight.
SPECIFICATION Spec
CONSTANTS
  o1 = o1
  h1 = h1
  h2 = h2
  Orders <- OneOrder
  MaxLinks = 2
  Handlers <- TwoHandlers
  Shortfalls <- NoShortfall
  Declines <- NoDecline
  Crashes = TRUE
  DashboardRefunds <- FirstRefund
  NoLink = NoLink
  Idle = Idle
SYMMETRY HandlerSymmetry
INVARIANTS
  PendingMeansUnpaid
  RefundOnlyWhenOver
  IInv
PROPERTIES
  ImplementsLifecycle
CHECK_DEADLOCK FALSE
