SPECIFICATION Spec
CONSTANTS
  j1 = j1
  j2 = j2
  Jobs = {j1, j2}
  Members = {1, 2}
  Externals = {3}
  MaxRetained = 0
  MaxFaults = 1
SYMMETRY mcSymmetry
INVARIANTS
  TypeOK
  RunningIsKnown
  RemovedWereReached
PROPERTIES
  NothingBegunAfterCancel
CHECK_DEADLOCK FALSE
