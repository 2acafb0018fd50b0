CONSTANTS
    Events = {e1}
    NoEvent = NoEvent
    Stoppers = {s1}
    Delays <- UnitDelays
    Interface = {}
    MaxTime = 1
    MaxRuns = 1
SPECIFICATION FairSpec
CHECK_DEADLOCK FALSE
PROPERTIES
    StopHonoured
