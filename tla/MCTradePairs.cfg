SPECIFICATION MCSpec
CONSTANTS
  alice = alice
  bob = bob
  NoPrice = NoPrice
  Supply = 40
  PairTokens <- PairsThatShareAToken
  Accounts <- MCAccounts
  MaxTokens = 3
  MaxAmount = 1000
  PriceFactor = 2
  BlocksPerDay = 2
  MaxBlocks = 1
  OpenedOrdersArrayCap = 3
  ClosedOrdersArrayCap = 3
  Supplies <- None
  Transfers <- Nothing
  LimitOrders <- BothSides
  MarketOrders <- None
  Cancellers <- MCAccounts
  EmptyLevels = FALSE
  MaxOrders = 4
INVARIANTS FrozenIsRemaining OpenedAndClosed TradesIndexed MarketDataOfTrades
