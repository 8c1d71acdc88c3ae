\* Two coroutines on a channel with two slots, under the fairness of the
\* event loop.
CONSTANTS
    c1 = c1
    c2 = c2
    c3 = c3
    Co <- MCCoTwo
    NoCo = NoCo
    Capacity = 2
    MaxCalls = 4
SPECIFICATION FairSpec
PROPERTIES
    RefinesFifo
    CloseEndsWaits
    TimedWaitEnds
CHECK_DEADLOCK FALSE
