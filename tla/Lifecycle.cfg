SPECIFICATION FairSpec
CONSTANTS
  Settings <- MCSettings
  workers = 2
  MaxQueue = 2
INVARIANTS
  TypeOK
  ThreadsStartReady
  LastRecord
  CleanExit
PROPERTY
  StopEnds
CHECK_DEADLOCK FALSE
