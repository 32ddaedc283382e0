SPECIFICATION FairSpec
CONSTANTS
  MaxPiece = 2
  Chunks = {1}
  Kinds = {"good", "bad"}
  MaxId = 2
  MaxPools = 2
  MaxSegments = 1
  Windows <- MCWindows
  MaxActive = 2
  MaxInFlight = 1
  QueueCap = 1
  MaxAhead = 1
  Prefetch = 0
  Publishable = TRUE
CHECK_DEADLOCK FALSE
INVARIANTS
  TypeOK
  RequestsAreTracked
PROPERTIES
  HoldEnds
