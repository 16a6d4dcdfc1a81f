SPECIFICATION FairSpec
CONSTANTS
    t1 = t1
    t2 = t2
    t3 = t3
    c1 = c1
    c2 = c2
    NoConn = NoConn
    NoThread = NoThread
    Threads <- MCThreads
    Connections <- MCConnections
    MaxSpurious = 2
    MaxBorrows = 3
INVARIANT Conserved
INVARIANT DestroyedClean
INVARIANT NoLostWakeup
PROPERTY Lends
PROPERTY EveryoneServed
CHECK_DEADLOCK FALSE
