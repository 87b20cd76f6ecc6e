SPECIFICATION MCSpec
CONSTANTS
  alice = alice
  bob = bob
  NoPrice = NoPrice
  Supply = 36
  PairTokens <- OnePair
  Accounts <- MCAccounts
  MaxTokens = 2
  MaxAmount = 36
  PriceFactor = 6
  BlocksPerDay = 2
  MaxBlocks = 1
  OpenedOrdersArrayCap = 3
  ClosedOrdersArrayCap = 3
  Supplies <- None
  Transfers <- Nothing
  LimitOrders <- AtTheWidth
  MarketOrders <- None
  Cancellers <- MCAccounts
  EmptyLevels = TRUE
  MaxOrders = 5
INVARIANTS FrozenIsRemaining SupplyConserved OrdersCanBeCanceled
PROPERTIES FinishedForGood
CHECK_DEADLOCK FALSE
