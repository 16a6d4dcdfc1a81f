SPECIFICATION Spec
CONSTANTS
    Conns = {c1, c2}
    Stoppers = {u1}
    None = None
    PoolSize = 3
    HandlerOutcomes = {"return", "runtime_error", "other_exception"}
    PeerMayReset = TRUE
    c1 = c1
    c2 = c2
    u1 = u1
SYMMETRY Symmetry
INVARIANT TypeOK
INVARIANT IterationSafe
INVARIANT OpenManaged
INVARIANT ImplicitStrand
INVARIANT NoneForgotten
INVARIANT OneLeftOpen
PROPERTY OneExchange
