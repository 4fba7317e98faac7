SPECIFICATION Spec
CONSTANTS
  CREDIBLE_BIRTH_DELAY = 1
  JUMP_SLACK = 1
  ABSENCE_RESET = 2
  SEQ_TOLERANCE = 1
  U32 = 8
  Sources = {s1}
  Trips = {t1}
  DelayValues = {0, 2, 4}
  SequenceValues = {3, 5, 6, 7}
  Observations <- MCObservations
  MaxTime = 4
INVARIANTS
  TypeOK
  CreditIsWatched
  HonestIsCredible
CHECK_DEADLOCK FALSE
