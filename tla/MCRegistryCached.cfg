SPECIFICATION Spec
CONSTANTS
  Callers = {c1, c2, c3}
  Kinds = {"register", "remove", "deregister"}
  Faults = {}
  MaxCalls = 4
  MaxRenewals = 0
SYMMETRY Symmetry
INVARIANTS
  CachedRemovalIsCurrent
