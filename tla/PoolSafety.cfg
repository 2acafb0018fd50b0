CONSTANTS
    Workers = {w1, w2}
    Clients = {c1, c2, c3}
    Tasks = {t1, t2, t3, t4}
    NoTask = NoTask
    QueueSize = 2
    MaxStarts = 2
    CreateMayFail = TRUE
    AllocMayFail = TRUE
SPECIFICATION Spec
SYMMETRY PoolSymmetry
CHECK_DEADLOCK FALSE
INVARIANTS
    TypeOK
    BooksBalance
    NoLostWakeups
PROPERTIES
    StopDrains
    ImplementsTaskPool
