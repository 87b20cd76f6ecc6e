SPECIFICATION Spec
CONSTANTS
  MaxAmount = 10000
  PriceFactor = 3
  OrderPrices <- MCPrices
  OrderAmounts <- MCAmounts
INVARIANTS NeitherExceedsItsRest OneIsFilled NearTheMakersPrice RestAtItsPrice
CHECK_DEADLOCK FALSE
