SPECIFICATION FairSpec
CONSTANTS
  Pollers = {1, 2}
  Window = 1
  PageSize = 1
  MaxMessages = 2
  MaxFaults = 1
INVARIANTS
  TypeOK
  MissedOnlyInGaps
  TwiceOnlyIfContended
PROPERTIES
  PushIsFollowed
CHECK_DEADLOCK FALSE
