SPECIFICATION MCSpec
CONSTANTS
  alice = alice
  bob = bob
  NoPrice = NoPrice
  Supply = 24
  PairTokens <- OnePair
  Accounts <- MCAccounts
  MaxTokens = 2
  MaxAmount = 1000
  PriceFactor = 2
  BlocksPerDay = 2
  MaxBlocks = 1
  OpenedOrdersArrayCap = 3
  ClosedOrdersArrayCap = 3
  Supplies <- None
  Transfers <- Nothing
  LimitOrders <- ManyTerms
  MarketOrders <- None
  Cancellers <- MCAccounts
  EmptyLevels = FALSE
  MaxOrders = 3
INVARIANTS TypeOK FrozenIsRemaining OrdersFilledAtTheirPrice TradesMoveBothTokens
  BookIsLinked BookHoldsLiveOrders Uncrossed LevelBuyTotals
PROPERTIES MatchNeverFails PriceTimePriority ExtrinsicsEnd ImplementsOrderBook
