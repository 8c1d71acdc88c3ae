SPECIFICATION Spec
CONSTANTS
    SIGNO_MAX = 3
    MaxArrivals = 2
    core_worker_num = 1
    worker_num = 2
    MaxTasks = 3
    MaxThreads = 3
    NoThread = NoThread
    s1 = s1
    s2 = s2
    q1 = q1
    q2 = q2
    Sender = {s1, s2}
    Pipe = {q1, q2}
    Setups <- SomeSetups
    Lengths = {1, 3}
    max_size = 2
    SW_WORKER_MAX_RECV_CHUNK_COUNT = 2
    NoPipe = NoPipe
    MaxMessages = 3
    MaxFailures = 1
    PipeCapacity = 2
    pool_worker_num = 2
    NoReload = NoReload
    MaxReloads = 1
    MaxFaults = 2
INVARIANTS
    PoolIsExact
    MessagesAreWhole
    PoolIsManned
PROPERTIES
    WorkIsDone
CHECK_DEADLOCK FALSE
