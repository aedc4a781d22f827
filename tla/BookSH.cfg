SPECIFICATION Spec
CONSTANTS
  Span = 3
  MaxOrders = 4
  MaxQty = 2
  PriceSlack = 0
INVARIANTS
  TypeOK
  DepthExact
  BestExact
  RestingIndexed
PROPERTY
  ImplementsMarketDepth
CHECK_DEADLOCK FALSE
