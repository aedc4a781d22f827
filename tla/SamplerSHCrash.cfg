SPECIFICATION SamplerSpec
CONSTANTS
  Span = 2
  MaxOrders = 3
  MaxQty = 2
  PriceSlack = 0
  sample_px_depth = 1
INVARIANT
  NeverCrashes
CHECK_DEADLOCK FALSE
