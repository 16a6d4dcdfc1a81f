SPECIFICATION FairSpec
CONSTANTS
    c1 = c1
    u1 = u1
    None = None
    PoolSize = 2
    Conns = {c1}
    Stoppers = {u1}
    HandlerOutcomes = {"return", "runtime_error"}
    PeerMayReset = FALSE
INVARIANT CrashCauses
PROPERTY StopTerminates
PROPERTY ConnectionResolved
