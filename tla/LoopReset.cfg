CONSTANTS
    Events = {e1}
    NoEvent = NoEvent
    Stoppers = {s1}
    Delays <- UnitDelays
    Interface = {"reset"}
    MaxTime = 1
    MaxRuns = 1
SPECIFICATION Spec
CHECK_DEADLOCK FALSE
INVARIANT ResetRelinks
