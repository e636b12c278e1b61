SPECIFICATION Spec
CONSTANTS
    IdleTimeout = 2
    TicksPerMs = 3
    MaxBytes = 2
    MaxTime = 18
    BatchSize = 3
    MaxBatches = 2
    MaxIdle = 1
    Capacity = 2
    MaxSegs = 2
    MaxArrivals = 4
    NoNotify = NoNotify
    Callers = {t1, t2, t3}
    Notifies = {n1, n2, n3, n4}
    NoTask = NoTask
    Keys = {k1, k2, k3}
    Resolvers = {r1, r2, r3}
    CacheCap = 2
    MaxInserts = 4
    Base = 6
    V4Len = 1
    V6Len = 2
    MaxMsgs = 2
    Bad = Bad
INVARIANTS
    TypeOK
    TimesOutWhenIdle
    NothingTruncated
    DemuxLossless
    MarkedWhileCreated
    WaiterHasResolver
    RoundTrip
PROPERTIES
    NeverReplaced
CHECK_DEADLOCK FALSE
