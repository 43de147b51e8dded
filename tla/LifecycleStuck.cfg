SPECIFICATION FairSpec
CONSTANTS
  Procs = {p1, p2}
  Sandboxes = {s1}
  NoSandbox = NoSandbox
  NoProc = NoProc
  Ops = {"provision", "delete"}
  MaxRequests = 1
  MaxFaults = 1
PROPERTIES AllocationRetried
CHECK_DEADLOCK FALSE
