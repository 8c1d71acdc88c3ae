SPECIFICATION Spec
CONSTANTS
    Nodes <- SixNodes
    Priorities <- TwoPriorities
    MaxTimers = 3
    MaxTime = 2
    Intervals <- SomeIntervals
    size = 13
    maxlen = 4
    MaxPush = 6
    c1 = c1
    c2 = c2
    c3 = c3
    p1 = p1
    p2 = p2
    p3 = p3
    AnyPid = AnyPid
    None = None
    Co <- ThreeCo
    Pid <- ThreePid
    Programs <- SomePrograms
INVARIANTS
    HeapOrdered
    TimersAreExact
    StatusGivenOnce
    TasksOnStack
    NobodyMissesExit
PROPERTIES
    CallbacksInOrder
    ShmIsFifo
CHECK_DEADLOCK FALSE
