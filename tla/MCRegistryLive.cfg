SPECIFICATION FairSpec
CONSTANTS
  Callers = {c1, c2}
  Kinds = {"register", "remove", "start", "stopRemove", "deregister"}
  Faults = {}
  MaxCalls = 3
  MaxRenewals = 0
INVARIANTS
  SnapshotIsFaithful
PROPERTIES
  CallsReturn
  RemovalsEnd
  LogsGetClosed
CHECK_DEADLOCK FALSE
