SPECIFICATION Spec
CONSTANTS
    Users = {1, 2}
    Routes <- MCRoutes
    MaxRequests = 3
    MaxInFlight = 2
    MaxTime = 2
    Lifetime = 1
    Faulty = FALSE
INVARIANT NeverResurrected
INVARIANT AuthSound
INVARIANT NewSessionAnnounced
INVARIANT RequestStored
CHECK_DEADLOCK FALSE
