SPECIFICATION Spec
CONSTANTS
  Lows <- MCLows
  MaxSpan = 24
INVARIANTS
  IndexInArrays
  OffByAtMostOne
PROPERTY
  TicksInOrder
CHECK_DEADLOCK FALSE
