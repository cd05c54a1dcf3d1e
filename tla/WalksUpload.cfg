SPECIFICATION FairSpec
CONSTANTS
  Jobs = {1, 2, 3}
  Nothing = Nothing
  MaxLost = 1
  MaxStops = 1
INVARIANTS
  TypeOK
  WorkerKnowsItsJob
PROPERTIES
  CancelledStaysOut
  StatusIsLetGo
  EveryUploadIsAnswered
CHECK_DEADLOCK FALSE
