SPECIFICATION Spec
CONSTANTS
  Absent = Absent
  STALE_PREDICTION_SECS = 3
  MAX_PLAUSIBLE_DELAY = 30
  MAX_INFERRED_DELAY = 8
  DAY = 5
  Zoned = TRUE
  CREDIBLE_BIRTH_DELAY = 1
  JUMP_SLACK = 1
  ABSENCE_RESET = 2
  SEQ_TOLERANCE = 1
  U32 = 64
  TENURE_FULL = 3
  Trip = t1
  Scenarios <- MCScenarios
  CORRUPTION = 5
  MaxTime = 6
  MaxLate = 3
INVARIANTS
  TypeOK
  NeverLaterThanTheVehicle
  HonestIsBelieved
  EndpointsAreSilent
  ScoreIsOfItsDelay
PROPERTIES
  ScoreNeverFalls
CHECK_DEADLOCK FALSE
