SPECIFICATION Spec
CONSTANTS
    c1 = c1
    c2 = c2
    c3 = c3
    NoCo = NoCo
    Co <- ThreeCo
    SocketCo <- ThreeCo
    NoOne = NoOne
    Ssl = FALSE
    MaxCalls = 4
    MaxTimers = 2
    MaxTime = 3
    Intervals <- SomeIntervals
INVARIANTS
    AbandonedNeverRuns
    RunningIsOriginChain
    NoReferenceToEnded
    FramesAlive
    WakeupsFindWaiter
    ReleasedOnceUnused
PROPERTIES
    TimedWaitsAreOver
CHECK_DEADLOCK FALSE
