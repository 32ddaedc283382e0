SPECIFICATION Spec
CONSTANTS
  MaxPiece = 2
  Chunks = {1, 2}
  Kinds = {"good", "odd", "bad"}
  MaxId = 2
  MaxPools = 2
  MaxSegments = 2
  Windows <- MCFarWindows
  MaxActive = 1
  MaxInFlight = 1
  QueueCap = 1
  MaxAhead = 2
  Prefetch = 0
  Publishable = TRUE
CHECK_DEADLOCK FALSE
INVARIANTS
  PublicationIsHeld
  GapsAreMarked
  CorroborationFirst
PROPERTIES
  OutputIsKept
  SessionIsFeed
