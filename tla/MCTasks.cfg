SPECIFICATION FairSpec
CONSTANTS
    NoSession = NoSession
    MaxSessions = 2
    QueueCap = 1
    Socks = TRUE
    Conns = {a1, a2}
    TcpPermits = 1
    MaxSent = 2
    NoUnderlay = NoUnderlay
    c1 = c1
    c2 = c2
    c3 = c3
    h1 = h1
    h2 = h2
    Creds = {c1, c2, c3}
    Blocked = {c3}
    Handlers = {h1, h2}
    MaxEndpoints = 2
    MaxPackets = 2
    Streams = {s1, s2}
    MaxCreds = 1
    MaxDgrams = 1
    Torn = Torn
    MaxWrites = 3
    Workers = {w1, w2}
    Permits = {p1, p2}
    StopTimeout = 3
    DrainTimeout = 2
    MaxConns = 3
INVARIANTS
    TypeOK
    RelayedInOrder
    NoOrphanRelay
    AuthenticatedFirst
    ServedPairMatches
PROPERTIES
    SessionsReleased
    HalfCloseKept
    HandlersEnd
    EventuallyReleased
    SocketsReleased
    EventuallyServed
    Returns
CHECK_DEADLOCK FALSE
