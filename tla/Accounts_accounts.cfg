\* One person, two accounts one after the other, two requests in progress.
SPECIFICATION Spec
CONSTANTS
  u1 = u1
  u2 = u2
  l1 = l1
  l2 = l2
  l3 = l3
  o1 = o1
  t1 = t1
  t2 = t2
  t3 = t3
  h1 = h1
  h2 = h2
  Accounts <- TwoAccounts
  Labels <- ThreeLabels
  Orders <- OneOrder
  Tokens <- ThreeTokens
  Handlers <- TwoHandlers
  MaxAddresses = 1
  NoAccount = NoAccount
  NoToken = NoToken
  Idle = Idle
SYMMETRY Symmetry
INVARIANTS
  ErasedOrdersAnonymous
  SignInsFindLiveAccounts
  AddressesBounded
  IInv
PROPERTIES
  DeadAccountsStayDead
CHECK_DEADLOCK FALSE
