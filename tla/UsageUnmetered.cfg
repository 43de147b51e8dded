CONSTANTS
  Replicas = {r1}
  Limit = 1
  Unknown = unknown
  MaxTime = 2
  MaxChanges = 1
  MaxFaults = 0
SPECIFICATION FairSpec
PROPERTIES UnmeteredIsPaused
CHECK_DEADLOCK FALSE
