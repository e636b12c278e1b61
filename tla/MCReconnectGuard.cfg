SPECIFICATION Spec
CONSTANTS
    None = None
    t1 = t1
    t2 = t2
    t3 = t3
    Tasks = {t1, t2}
    MaxCalls = 3
INVARIANTS
    InFlightHasLeader
