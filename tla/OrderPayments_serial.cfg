\* One transaction at a time on the order: the accounting the handlers are
\* written for.  With one handler Spec has the behaviours of SerialSpec.
SPECIFICATION Spec
CONSTANTS
  o1 = o1
  h1 = h1
  h2 = h2
  Orders <- OneOrder
  MaxLinks = 1
  Handlers <- OneHandler
  Shortfalls <- FirstShort
  Declines <- FirstDeclined
  Crashes = TRUE
  DashboardRefunds <- FirstRefund
  NoLink = NoLink
  Idle = Idle
INVARIANTS
  MoneyFollowsOrder
CHECK_DEADLOCK FALSE
