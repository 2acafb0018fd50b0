CONSTANTS
    Events = {e1, e2, e3}
    NoEvent = NoEvent
    Stoppers = {s1}
    Delays <- ShortDelays
    Interface = {"reset", "remove", "modify", "signal"}
    MaxTime = 2
    MaxRuns = 1
SYMMETRY LoopSymmetry
VIEW LoopView
SPECIFICATION Spec
CHECK_DEADLOCK FALSE
INVARIANTS
    TypeOK
    OnceEach
    ListSound
    SleepsSafely
PROPERTIES
    FiresInOrder
