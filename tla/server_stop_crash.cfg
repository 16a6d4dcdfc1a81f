SPECIFICATION Spec
CONSTANTS
    Conns = {c1}
    Stoppers = {u1}
    None = None
    PoolSize = 3
    HandlerOutcomes = {"return", "runtime_error"}
    PeerMayReset = FALSE
    c1 = c1
    u1 = u1
SYMMETRY Symmetry
INVARIANT StopDoesNotCrash
