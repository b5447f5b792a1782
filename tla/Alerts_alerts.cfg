\* Two replicas sweep, one request is in progress, one handset changes hands.
SPECIFICATION FairSpec
CONSTANTS
  s1 = s1
  r1 = r1
  k1 = k1
  d1 = d1
  u1 = u1
  w1 = w1
  w2 = w2
  h1 = h1
  Skus <- OneSku
  Refunds <- OneRefund
  Tickets <- OneTicket
  Devices <- OneDevice
  Users <- TheOwner
  Owners <- TheOwner
  Sweepers <- TwoReplicas
  Handlers <- OneHandler
  Low = 1
  Full = 2
  NoUser = NoUser
  Idle = Idle
INVARIANTS
  AlertedOnce
  SentIsCommitted
  IInv
PROPERTIES
  FlagFollowsBand
  StuckRefundsAlerted
  StaleTokensGo
