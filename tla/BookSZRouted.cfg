SPECIFICATION RoutedSpec
CONSTANTS
  Span = 2
  MaxOrders = 3
  MaxQty = 2
  PriceSlack = 1
  Before = 1
  InFlight = 3
  lobnum = 3
  workers = 2
  symbol_list = {0, 2}
  SecurityID = 2
INVARIANTS
  MissedLedger
  ArrivedIndexed
CHECK_DEADLOCK FALSE
