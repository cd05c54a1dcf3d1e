SPECIFICATION FairSpec
CONSTANTS
  Sessions = {1, 2, 3}
  Limit = 2
  e1 = e1
  e2 = e2
  w1 = w1
  w2 = w2
  Environments <- mcOneEnvironment
  Workers = {w1}
  MaxRetries = 1
  Nothing = Nothing
  MaxManual = 1
  MaxRejects = 1
  MaxStops = 1
INVARIANTS
  TypeOK
  SlotsAccounted
  NoSecondBackup
  ScaleRestored
PROPERTIES
  EverySessionEnds
CHECK_DEADLOCK FALSE
