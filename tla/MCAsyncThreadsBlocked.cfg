SPECIFICATION PoolSpec
CONSTANTS
    core_worker_num = 1
    worker_num = 2
    MaxTasks = 3
    MaxThreads = 3
    NoThread = NoThread
INVARIANT BlockedPoolIsFull
CHECK_DEADLOCK FALSE
