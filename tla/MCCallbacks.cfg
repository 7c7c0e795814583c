SPECIFICATION MCSpec
CONSTANTS
  h = h
  third = c3
  Apps = {a1, a2}
  Calls = {c1, c2, c3}
  Names <- MCNames
  Batches <- MCBatches
  Deferred = deferred
  Nothing = nothing
SYMMETRY Symmetry
INVARIANTS
  RejectedLeavesNothing
  AppIsolation
  DuplicateRaises
  AcceptedIsServed
  SeededIntoLaterApps
