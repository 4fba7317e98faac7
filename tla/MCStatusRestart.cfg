SPECIFICATION Spec
CONSTANTS
  NULL = null
  s1 = s1
  s2 = s2
  vehicles = vehicles
  last_error = last_error
  Fields = {vehicles, last_error}
  Reports <- SteadyReports
  UPDATE_BUFFER = 1
  MidFetch = TRUE
  MaxTicks = 3
  MaxDrops = 1
  MaxFails = 1
  MaxRestarts = 1
INVARIANT
  IgnoredIsHeld
CHECK_DEADLOCK FALSE
