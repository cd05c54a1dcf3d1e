SPECIFICATION Spec
CONSTANTS
  Files = {1, 2}
  Simulated = {}
  Manual = {}
  Retired = {}
  c1 = c1
  c2 = c2
  Calls = {c1, c2}
  NoFile = NoFile
  MaxChanges = 2
INVARIANT OneInstanceAtATime
CHECK_DEADLOCK FALSE
