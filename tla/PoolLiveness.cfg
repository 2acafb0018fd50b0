CONSTANTS
    Workers = {w1, w2}
    Clients = {c1, c2}
    Tasks = {t1, t2, t3}
    NoTask = NoTask
    QueueSize = 1
    MaxStarts = 1
    CreateMayFail = FALSE
    AllocMayFail = FALSE
SPECIFICATION FairSpec
CHECK_DEADLOCK FALSE
PROPERTIES
    AcceptedRuns
    CallsReturn
    SubmitReturnsUnlessStopped
