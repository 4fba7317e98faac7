SPECIFICATION Spec
CONSTANTS
  LastZip = 2
  Bodies = {"zip", "broken"}
  MaxClock = 4
  MaxCrashes = 1
INVARIANTS
  TypeOK
  IndexIsWhole
  BuildsLeaveNothing
  CurrentIsOfTheCache
  LoadedIsOfTheCache
  LoadingIsWork
PROPERTIES
  FailureIsRetried
CHECK_DEADLOCK FALSE
