CONSTANTS
    Engines <- ThreeEngines
    Hosts <- BothHosts
    MayFail = TRUE
    SlowLoop = FALSE
    MaxSignals = 2
SPECIFICATION FairSpec
CHECK_DEADLOCK FALSE
INVARIANTS
    TypeOK
    FreedUnderThread
    FailedStartIsReleased
PROPERTIES
    StoppedIsFreed
