SPECIFICATION FairSpec
CONSTANTS
  Procs = {p1, p2}
  Sandboxes = {s1}
  NoSandbox = NoSandbox
  NoProc = NoProc
  Ops = {"idle", "access", "restart", "delete"}
  MaxRequests = 2
  MaxFaults = 1
INVARIANTS RunningHasDeadline
PROPERTIES IdlePauseTakenOver TerminalIntentKept
CHECK_DEADLOCK FALSE
