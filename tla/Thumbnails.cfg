CONSTANTS
    Thread = {t1, t2, t3, w}
    NoThread = NoThread
    Warm = {w}
    Key = {k1, k2}
    MaxConcurrent = 2
    MaxWaiters = 2
    MaxRequests = 1
    k1 = k1
SPECIFICATION MCSpec
CHECK_DEADLOCK FALSE
INVARIANTS
    GateCounts
    NoIdlePermit
    AwaitedIsRunning
PROPERTIES
    ImplementsPool
    RequestsAnswered
