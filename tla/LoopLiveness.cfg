CONSTANTS
    Events = {e1, e2}
    NoEvent = NoEvent
    Stoppers = {s1}
    Delays <- UnitDelays
    Interface = {"reset"}
    MaxTime = 1
    MaxRuns = 2
SPECIFICATION FairSpec
CHECK_DEADLOCK FALSE
PROPERTIES
    StopExits
    Served
