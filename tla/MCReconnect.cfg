SPECIFICATION FairSpec
CONSTANTS
    None = None
    t1 = t1
    t2 = t2
    t3 = t3
    Tasks = {t1, t2, t3}
    MaxCalls = 3
INVARIANTS
    AuthStreamOfConnection
PROPERTIES
    NeverDiscardsLive
    BackoffMatchesRequest
    CallsReturn
