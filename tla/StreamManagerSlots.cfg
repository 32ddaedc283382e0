SPECIFICATION ManagerSpec
CONSTANTS
  Scenarios = {"free"}
  k1 = k1
  k2 = k2
  Keys = {k1, k2}
  Calls <- TwoKeys
  Stops <- OneStop
  MaxSessions = 1
  MaxEpoch = 1
  Events = {"failure"}
  None = None
INVARIANTS
  AdmissionExact
PROPERTIES
  DemandKeepsSession
