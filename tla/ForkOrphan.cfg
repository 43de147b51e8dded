SPECIFICATION Spec
CONSTANTS
  Procs = {p1, p2}
  Targets = {t1, t2}
  Source = Source
  NoProc = NoProc
  NoTarget = NoTarget
  MaxRequests = 2
  MaxFaults = 1
SYMMETRY Interchangeable
INVARIANTS OrphanRetriedOrCleaned
CHECK_DEADLOCK FALSE
