SPECIFICATION Spec
CONSTANTS
  Span = 3
  MaxOrders = 4
  MaxQty = 2
  PriceSlack = 0
INVARIANT
  AskExact
CHECK_DEADLOCK FALSE
