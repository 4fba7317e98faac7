SPECIFICATION Spec
CONSTANTS
  None = None
  HostOf <- MCHostOf
  MODE_KEYWORDS <- MCKeywords
  Worlds <- MCWorlds
  RADIUS = 1
INVARIANT
  GatedIsNeverPolled
CHECK_DEADLOCK FALSE
