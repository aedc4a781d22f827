SPECIFICATION SamplerSpec
CONSTANTS
  Span = 3
  MaxOrders = 3
  MaxQty = 1
  PriceSlack = 0
  sample_px_depth = 2
INVARIANTS
  SamplerTypeOK
  ExactBetweenMessages
  QuietRecordExact
  AnyRecordOrdered
PROPERTY
  SampleEnds
CHECK_DEADLOCK FALSE
