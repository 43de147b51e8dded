CONSTANTS
  Replicas = {r1, r2}
  Flows = {f1}
  NoFlow = noflow
  MaxFaults = 1
SPECIFICATION FairSpec
INVARIANTS NothingSkipped StoredIsApproved BoxDeleted
PROPERTIES KeepsPromise LoginEnds
CHECK_DEADLOCK FALSE
