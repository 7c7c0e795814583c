SPECIFICATION Spec
CONSTANTS
  Inits = {i1, i2, i3}
  Nobody = nobody
  Modes = {"disabled", "manual", "auto"}
  Faults = {"preflight", "logs", "prepare", "finalizer", "cli", "publish",
            "track", "setup", "hook", "activate", "info"}
SYMMETRY Symmetry
INVARIANTS
  CommittedTogether
  FailureLeavesNothing
  NoRenewalBeforeCommit
  NothingOutlivesTheApp
PROPERTIES
  OnlyOwnRuntimeRemoved
