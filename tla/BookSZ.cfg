SPECIFICATION Spec
CONSTANTS
  Span = 3
  MaxOrders = 4
  MaxQty = 2
  PriceSlack = 0
INVARIANTS
  SZTypeOK
  KnownDepthExact
  KnownBidExact
  AskOnQuantity
PROPERTY
  AskCursorSteps
CHECK_DEADLOCK FALSE
