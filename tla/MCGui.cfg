CONSTANTS
    Complete = {a, b}
    Blank = Blank
    None = None
    Garbage = Garbage
    MaxNodes = 3
    MaxEdits = 2
    MaxExternal = 1
    MaxFaults = 1
    ListenAddrs = {l1, l2}
    PacAddrs = {a1, a2}
    OnlineUrl = OnlineUrl
    NoUrl = NoUrl
    NoServer = NoServer
    MaxProxySteps = 3
    MaxProxyFaults = 2
    Listens = {l1, l2}
    PacUrls = {u1}
    Foreign = Foreign
    Absent = Absent
    MaxApplies = 3
    MaxCmdFails = 1
    Nodes = {n1, n2}
    Closed = Closed
    MaxTyped = 3
    Loggers = {t1, t2}
    MaxLines = 2
    MaxPushes = 3
    MaxClicks = 3
    NoVersion = NoVersion
    NoReading = NoReading
    MaxBytes = 3
    MaxStarts = 3
    Launches = {p1, p2}
    NoLock = NoLock
    MaxTries = 1
    MaxUserEvents = 4
    MaxNoBus = 1
SPECIFICATION FairSpec
INVARIANTS
    TypeOK
    OsFollowsConfig
    PacServesConfig
    AppliedIsEffective
    ShownIsStored
    NeverOvercounted
PROPERTIES
    NoSilentLoss
    ActiveNodeKept
    EventuallyFlushed
    EditSeen
    LogsCatchUp
    HiddenIsReachable
CHECK_DEADLOCK FALSE
