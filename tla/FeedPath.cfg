SPECIFICATION Spec
CONSTANTS
  Unset = Unset
  Number <- MCNumber
  Cents <- MCCents
  Char <- MCChar
  lobnum = 3
  workers = 2
  symbol_list = {1, 2}
  Events <- MCEvents
  MaxLines = 3
INVARIANTS
  TypeOK
  HandledExactly
  LeaksExactly
  CsvCallsOwn
  OneWriter
CHECK_DEADLOCK FALSE
