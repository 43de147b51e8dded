SPECIFICATION FairSpec
CONSTANTS
  Procs = {p1, p2}
  Targets = {t1, t2}
  Source = Source
  NoProc = NoProc
  NoTarget = NoTarget
  MaxRequests = 2
  MaxFaults = 2
INVARIANTS OneForkPerKey PublishedIsClean DoneIsPublished OrphanIsRetried
PROPERTIES PhaseAdvances SagaEnds
CHECK_DEADLOCK FALSE
