SPECIFICATION ManagerSpec
CONSTANTS
  Scenarios = {"free"}
  k1 = k1
  k2 = k2
  Keys = {k1}
  Calls <- HlsAndSupport
  Stops <- OneStop
  MaxSessions = 2
  MaxEpoch = 2
  Events = {"drop", "failure", "shutdown"}
  None = None
INVARIANTS
  TypeOK
  StartIsSingle
  PackagerMatchesSession
  StopsAreTrue
  ShutdownHolds
