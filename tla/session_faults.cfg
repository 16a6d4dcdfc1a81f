SPECIFICATION Spec
CONSTANTS
    Users = {1}
    Routes <- MCSingle
    MaxRequests = 3
    MaxInFlight = 2
    MaxTime = 1
    Lifetime = 1
    Faulty = TRUE
INVARIANT TableSound
CHECK_DEADLOCK FALSE
