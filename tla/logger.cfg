SPECIFICATION Spec
CONSTANTS
    t1 = t1
    t2 = t2
    Threads = {t1, t2}
    NoThread = NoThread
    NoFile = NoFile
    MaxSize = 2
    MaxIdx = 3
    MaxRecords = 11
    MaxFaults = 3
SYMMETRY Symmetry
INVARIANT TypeOK
INVARIANT KeepsAtMostMaxIdx
INVARIANT AgeOrder
INVARIANT LossBounded
CHECK_DEADLOCK FALSE
