SPECIFICATION FairSpec
CONSTANTS
    None = None
    k1 = k1
    k2 = k2
    s1 = s1
    s2 = s2
    p1 = p1
    p2 = p2
    Keys = {k1, k2}
    Psks = {s1, s2}
    Packets = {p1, p2}
    MaxEntries = 1
    Ttl = 1
    EvictTimeout = 0
    CleanupPeriod = 1
    MaxStores = 2
    MaxTime = 2
INVARIANTS
    NoMissedWakeup
    ResidueBounded
PROPERTIES
    ImplementsCredentialStore
    EvictReturns
