SPECIFICATION Spec
CONSTANTS
  Files = {1, 2, 3}
  Simulated = {4}
  Manual = {3}
  Retired = {2}
  c1 = c1
  c2 = c2
  Calls = {c1, c2}
  NoFile = NoFile
  MaxChanges = 4
SYMMETRY mcSymmetry
CONSTRAINT UntilOverlapped
INVARIANTS
  TypeOK
  AppliedTookEffect
  TakesEffectOnce
  SuccessMeansSettled
PROPERTIES
  SettledStays
  SimulationIsolated
CHECK_DEADLOCK FALSE
