SPECIFICATION FairSpec
CONSTANTS
  s1 = s1
  s2 = s2
  symbol_list <- MCSymbols
  Settings <- MCSettings
  MaxRounds = 2
INVARIANTS
  TypeOK
  EachOnce
  InOrderUnlessBehind
PROPERTIES
  NewestFirst
  QueuesDrain
CHECK_DEADLOCK FALSE
