\* One declaration, four epochs: start, stop and restart can all happen while an
\* attempt of an earlier epoch is still in flight.
CONSTANTS
    Names = {"relay"}
    MaxEpoch = 4
    Events = {"failure", "panic"}
SPECIFICATION FairSpec
INVARIANTS TypeOK NothingIsLeft
PROPERTIES LossIsRemembered RetriesAreDelayed SupportProgresses
