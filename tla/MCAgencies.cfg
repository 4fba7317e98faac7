SPECIFICATION Spec
CONSTANTS
  None = None
  HostOf <- MCHostOf
  MODE_KEYWORDS <- MCKeywords
  Worlds <- MCWorlds
  RADIUS = 1
INVARIANTS
  TypeOK
  FeedsAreDistinct
  LostToAnEarlierOne
  UsefulnessIsKept
  HandConfiguredWins
  SignedOrOpen
  SiblingsAreDistinct
CHECK_DEADLOCK FALSE
