SPECIFICATION JoinSpec
CONSTANTS
  Span = 3
  MaxOrders = 4
  MaxQty = 2
  PriceSlack = 0
INVARIANTS
  AuctionAccount
  DayIndexed
  LateNeverOverstates
  NothingHiddenYet
CHECK_DEADLOCK FALSE
