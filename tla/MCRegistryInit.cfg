SPECIFICATION Spec
CONSTANTS
  Callers = {c1, c2, c3}
  Kinds = {"init", "remove", "start", "stopRemove", "deregister"}
  Faults = {"prepare", "config", "call", "lost"}
  MaxCalls = 3
  MaxRenewals = 1
SYMMETRY Symmetry
INVARIANTS
  NeverRaised
PROPERTIES
  ImplementsContract
  LogsCloseAfterWork
