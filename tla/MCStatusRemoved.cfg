SPECIFICATION Spec
CONSTANTS
  NULL = null
  s1 = s1
  s2 = s2
  vehicles = vehicles
  last_error = last_error
  Fields = {vehicles, last_error}
  Reports <- ShiftingReports
  UPDATE_BUFFER = 1
  MidFetch = FALSE
  MaxTicks = 3
  MaxDrops = 1
  MaxFails = 1
  MaxRestarts = 0
INVARIANT
  DepartedAreGone
CHECK_DEADLOCK FALSE
