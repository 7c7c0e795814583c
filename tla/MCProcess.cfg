SPECIFICATION Spec
CONSTANTS
  Operations = {"status", "register", "start", "close"}
  MaxThreads = 6
  MaxForks = 1
  MaxCallers = 2
  MaxCalls = 3
INVARIANTS
  NoOrphanLock
  SilentExit
  StartIsKept
  StopsOnlyToWait
  WorkComesToItsEnd
CHECK_DEADLOCK FALSE
