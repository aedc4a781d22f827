SPECIFICATION DaySpec
CONSTANTS
  Span = 3
  MaxOrders = 4
  MaxQty = 2
  PriceSlack = 0
INVARIANT
  DepthExact
CHECK_DEADLOCK FALSE
