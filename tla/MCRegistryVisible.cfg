SPECIFICATION Spec
CONSTANTS
  Callers = {c1, c2}
  Kinds = {"register", "stopRemove"}
  Faults = {"call"}
  MaxCalls = 3
  MaxRenewals = 0
SYMMETRY Symmetry
INVARIANTS
  CleanupSeesRegisters
