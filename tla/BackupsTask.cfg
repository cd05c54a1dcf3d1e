SPECIFICATION HungSpec
CONSTANTS
  Sessions = {1, 2, 3, 4}
  Limit = 1
  e1 = e1
  e2 = e2
  w1 = w1
  w2 = w2
  Environments <- mcEnvironments
  Workers = {w1, w2}
  MaxRetries = 1
  Nothing = Nothing
  MaxManual = 0
  MaxRejects = 1
  MaxStops = 0
INVARIANTS
  RunReportsTruth
PROPERTIES
  ServesInOrder
  TaskEnds
CHECK_DEADLOCK FALSE
