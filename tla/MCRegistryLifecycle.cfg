SPECIFICATION Spec
CONSTANTS
  Callers = {c1, c2}
  Kinds = {"register", "remove", "start", "stop", "stopRemove"}
  Faults = {"call", "spawn"}
  MaxCalls = 4
  MaxRenewals = 0
SYMMETRY Symmetry
INVARIANTS
  LifecycleOwnership
  NoRemovalUnderNewLifecycle
  OneActiveRemoval
  PendingHasOwner
  NoRedundantRemoval
  CleanupIsEffective
