SPECIFICATION Spec
CONSTANTS
  Procs = {p1, p2}
  Sandboxes = {s1, s2}
  NoSandbox = NoSandbox
  NoProc = NoProc
  Ops = {"idle", "quota", "manual", "restart", "retire", "policy", "update", "provision", "delete", "access", "reprovision"}
  MaxRequests = 2
  MaxFaults = 1
SYMMETRY Interchangeable
INVARIANTS NoOrphan
PROPERTIES PauseRecordedAsCommitted RowOutlivesSandbox IdentityKept RetiredAsIntended ImplementsProjection AccessUndisturbed
CHECK_DEADLOCK FALSE
