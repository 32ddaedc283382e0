SPECIFICATION Spec
CONSTANTS
  MaxPiece = 2
  Chunks = {1}
  Kinds = {"good"}
  MaxId = 1
  MaxPools = 1
  MaxSegments = 1
  Windows <- MCWindows
  MaxActive = 1
  MaxInFlight = 2
  QueueCap = 1
  MaxAhead = 2
  Prefetch = 1
  Publishable = TRUE
CHECK_DEADLOCK FALSE
INVARIANTS
  NeverDoubleRequests
