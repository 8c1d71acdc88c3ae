\* Three coroutines on a channel with one slot.
CONSTANTS
    c1 = c1
    c2 = c2
    c3 = c3
    Co <- MCCo
    NoCo = NoCo
    Capacity = 1
    MaxCalls = 4
SYMMETRY MCSymmetry
SPECIFICATION Spec
INVARIANTS
    WaitersInFrame
    NoLostWakeup
    ClosedLeavesNoWaiter
    FailureIsExplained
    ServedInOrder
CHECK_DEADLOCK FALSE
