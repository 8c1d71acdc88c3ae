SPECIFICATION Spec
CONSTANTS
    Settings <- LostExit
    NoTask = NoTask
INVARIANT EveryWorkerHasProcess
CHECK_DEADLOCK FALSE
