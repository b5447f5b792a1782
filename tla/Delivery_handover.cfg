\* Two orders, two agents, two requests in progress.
SPECIFICATION Spec
CONSTANTS
  o1 = o1
  o2 = o2
  a1 = a1
  a2 = a2
  s1 = s1
  s2 = s2
  h1 = h1
  h2 = h2
  Orders <- TwoOrders
  Agents <- TwoAgents
  Settlements <- TwoSettlements
  Handlers <- TwoHandlers
  Cap = 1
  Staff = Staff
  Customer = Customer
  Farm = Farm
  NoAgent = NoAgent
  NoSettlement = NoSettlement
  NotRead = NotRead
  Idle = Idle
SYMMETRY Symmetry
INVARIANTS
  CashFollowsDelivery
  DeliveredStaysDelivered
  SettlementsAddUp
  CodeWhileOut
PROPERTIES
  AcceptedJobKept
  ImplementsCodCash
