SPECIFICATION Spec
CONSTANTS
  alice = alice
  bob = bob
  NoPrice = NoPrice
  Supply = 40
  PairTokens <- OnePair
  Accounts <- MCAccounts
  MaxTokens = 2
  MaxAmount = 20
  PriceFactor = 2
  BlocksPerDay = 1
  MaxBlocks = 3
  OpenedOrdersArrayCap = 3
  ClosedOrdersArrayCap = 3
  Supplies <- GenesisSupplies
  Transfers <- GenesisTransfers
  LimitOrders <- FromGenesis
  MarketOrders <- None
  Cancellers <- MCAccounts
  EmptyLevels = FALSE
  MaxOrders = 2
INVARIANTS VolumeIsOfLastDay
PROPERTIES ImplementsOrderBook
