SPECIFICATION Spec
CONSTANTS
  CREDIBLE_BIRTH_DELAY = 1
  JUMP_SLACK = 1
  ABSENCE_RESET = 5
  SEQ_TOLERANCE = 0
  U32 = 1
  MAX_PLAUSIBLE_DELAY = 3
  BASE_INTERVAL = 1
  MAX_INTERVAL = 2
  FAILED_RETRY_INTERVAL = 5
  TRIP_END_GRACE = 2
  MAX_RETENTION = 5
  PRINT_INTERVAL = 1
  LEADERBOARD_SIZE = 1
  ARCHIVE_CAP = 1
  SlowNetwork = FALSE
  Sources = {s1}
  Trips = {t1}
  DelayValues = {1}
  Observations <- MCObservations
  MaxTime = 9
INVARIANTS
  UnmentionedIsFinished
CHECK_DEADLOCK FALSE
