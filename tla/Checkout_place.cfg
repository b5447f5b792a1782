\* Two variants, two keys, two checkouts at once, a recount and a correction at any moment.
SPECIFICATION Spec
CONSTANTS
  s1 = s1
  s2 = s2
  k1 = k1
  k2 = k2
  o1 = o1
  o2 = o2
  h1 = h1
  h2 = h2
  Skus <- TwoSkus
  Keys <- TwoKeys
  Orders <- TwoOrders
  Handlers <- TwoHandlers
  Carts <- TwoCarts
  MaxActiveCod = 1
  Counts <- Shelf
  Deltas <- Corrections
  MaxShelf = 2
  NoOrder = NoOrder
  NoRequest = NoRequest
  Idle = Idle
SYMMETRY Symmetry
INVARIANTS
  KeyNamesOneOrder
  NoUnitSoldTwice
  LedgerMatchesStock
PROPERTIES
  ImplementsShop
