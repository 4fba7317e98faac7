SPECIFICATION FairSpec
CONSTANTS
  NULL = null
  k1 = k1
  k2 = k2
  ended = ended
  place = place
  Fields = {ended, place}
  Boards <- MCBoards
  UPDATE_BUFFER = 1
  MaxTicks = 3
  MaxDrops = 1
  MaxRestarts = 1
INVARIANTS
  TypeOK
  NoTickIsMissed
PROPERTIES
  MirrorsTheServer
  Converges
CHECK_DEADLOCK FALSE
