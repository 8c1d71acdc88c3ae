SPECIFICATION Spec
CONSTANTS
    Fd = {1}
    Worker = {"w1", "w2"}
    BoundTo <- FirstWorker
    SW_SESSION_LIST_SIZE = 2
    MaxSessions = 2
    MaxRequests = 1
    MaxCalls = 2
    MaxCrashes = 1
INVARIANTS
    CallbackProtocol
PROPERTIES
    ResponsesBeforeClose
    ConnectionReleased
CHECK_DEADLOCK FALSE
