SPECIFICATION PoolFairSpec
CONSTANTS
    NoNotify = NoNotify
    t1 = t1
    t2 = t2
    n1 = n1
    n2 = n2
    n3 = n3
    Callers = {t1, t2}
    Notifies = {n1, n2, n3}
PROPERTIES
    WaitersWake
