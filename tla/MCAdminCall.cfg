SPECIFICATION Spec
CONSTANTS
  MaxAdmins = 3
  RetryCounts = {0, 1, 2, 4}
  RetryCountCap = 2
  MaxBatch = 2
  Batches <- MCBatches
INVARIANTS
  WithinBounds
  TriedInOrder
PROPERTIES
  FinalAnswersStand
  ImplementsRpc
