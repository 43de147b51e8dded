CONSTANTS
  Procs = {p1, p2}
  MaxVersions = 2
  MaxFaults = 0
SPECIFICATION Spec
PROPERTIES NewerStateStays
CHECK_DEADLOCK FALSE
