SPECIFICATION Spec
CONSTANTS
  pair1 = pair1
  NoPrice = NoPrice
  MaxAmount = 7
  BlocksPerDay = 3
  MaxBlocks = 6
  Pairs <- OnePair
  TradePrices <- MCPrices
  TradeAmounts <- MCAmounts
  MaxBlockVolume = 2
INVARIANTS TypeOK VolumeIsOfLastDay PricesOfRecentBlocks
CHECK_DEADLOCK FALSE
