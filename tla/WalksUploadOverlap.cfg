SPECIFICATION Spec
CONSTANTS
  Jobs = {1, 2}
  Nothing = Nothing
  MaxLost = 0
  MaxStops = 0
INVARIANTS
  OneUploadAtATime
CHECK_DEADLOCK FALSE
