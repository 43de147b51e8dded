CONSTANTS
  Creds = {c1}
  NoCred = nocred
  MaxVersions = 2
  MaxOps = 2
  MaxFaults = 1
SPECIFICATION Spec
INVARIANTS ActiveIsBound
CHECK_DEADLOCK FALSE
