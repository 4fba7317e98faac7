SPECIFICATION Spec
CONSTANTS
  CREDIBLE_BIRTH_DELAY = 2
  JUMP_SLACK = 1
  ABSENCE_RESET = 3
  SEQ_TOLERANCE = 0
  U32 = 1
  MAX_PLAUSIBLE_DELAY = 3
  BASE_INTERVAL = 1
  MAX_INTERVAL = 1
  FAILED_RETRY_INTERVAL = 3
  TRIP_END_GRACE = 1
  MAX_RETENTION = 2
  PRINT_INTERVAL = 1
  LEADERBOARD_SIZE = 1
  ARCHIVE_CAP = 1
  SlowNetwork = TRUE
  Sources = {s1, s2}
  Trips = {t1}
  DelayValues = {1, 2}
  Observations <- MCObservations
  MaxTime = 2
SYMMETRY MCSymmetry
INVARIANTS
  NoGapRetires
PROPERTIES
  SweepTakesTheWorst
CHECK_DEADLOCK FALSE
