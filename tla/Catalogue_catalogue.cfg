\* Two requests of the staff or a customer while the seed script runs.
SPECIFICATION Spec
CONSTANTS
  milk = milk
  ghee = ghee
  o1 = o1
  h1 = h1
  h2 = h2
  s1 = s1
  Skus <- TwoSkus
  Prices <- ThreePrices
  Lists <- ThreeLists
  Carts <- TwoCarts
  Orders <- OneOrder
  Handlers <- TwoHandlers
  Scripts <- OneScript
  MaxPerOrder = 2
  FreeFrom = 4
  Fee = 1
  MaxBooked = 2
  MaxDated = 3
  NoTotal = NoTotal
  NoOffer = NoOffer
  Idle = Idle
SYMMETRY Symmetry
\* The shop is at rest once the order is placed and nobody changes anything more.
CHECK_DEADLOCK FALSE
INVARIANTS
  AuditExplains
  SeedKeepsShelf
  ChargedAsShown
  QuotedCanBeReserved
  IInv
PROPERTIES
  UnconfirmedChangesSmall
