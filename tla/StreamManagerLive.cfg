\* Everything that waits in the manager comes to an end.
SPECIFICATION LiveSpec
CONSTANTS
  Scenarios = {"shared", "stopped"}
  k1 = k1
  k2 = k2
  Keys = {k1}
  Calls <- HlsAndSupport
  Stops <- OneStop
  MaxSessions = 2
  MaxEpoch = 1
  Events = {"drop", "failure", "shutdown"}
  None = None
PROPERTIES
  ManagerProgresses
