SPECIFICATION ProtocolSpec
CONSTANTS
  h = h
  Apps = {a1}
  Calls = {c1, c2}
  Names <- MCNames
  Batches <- MCBatches
  Deferred = deferred
  Nothing = nothing
  HttpRequests = {q1}
  MaxRequestSize = 1
  MaxExcess = 2
SYMMETRY Symmetry
INVARIANTS
  RegisteredIsReached
  NoReplacedCallback
  CallbackIsForThisRequest
  BodyIsWholeAndBounded
  TokenComesFirst
