SPECIFICATION Spec
CONSTANTS
  h = h
  third = nothing
  Apps = {a1}
  Calls = {c1, c2}
  Names <- MCNames
  Batches <- MCBatches
  Deferred = deferred
  Nothing = nothing
SYMMETRY Symmetry
INVARIANTS
  CommitIsAtomic
