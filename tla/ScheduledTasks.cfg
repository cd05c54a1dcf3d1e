SPECIFICATION FairSpec
CONSTANTS
  early = early
  late = late
  r1 = r1
  Schedules = {early, late}
  Phase <- mcPhase
  Interval = 2
  Rounds = {r1}
  Nothing = Nothing
  MaxTime = 4
  MaxManual = 1
  MaxEdits = 1
  MaxRejects = 1
  MaxStops = 1
INVARIANTS
  TypeOK
  OneRunAtATime
  RunningMeansAlive
  NoNeedlessRun
  HistoryTellsTruth
PROPERTIES
  MissedSlotRuns
CHECK_DEADLOCK FALSE
