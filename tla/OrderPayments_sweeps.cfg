\* The sweeps finish what they find, next to one other transaction.
SPECIFICATION FairSpec
CONSTANTS
  o1 = o1
  h1 = h1
  h2 = h2
  Orders <- OneOrder
  MaxLinks = 1
  Handlers <- TwoHandlers
  Shortfalls <- FirstShort
  Declines <- NoDecline
  Crashes = TRUE
  DashboardRefunds <- NoRefund
  NoLink = NoLink
  Idle = Idle
INVARIANTS
  StrandedOrderHasTicket
  RefundedMeansReturned
PROPERTIES
  HoldsGetResolved
  RefundsGetMade
CHECK_DEADLOCK FALSE
