SPECIFICATION ConnSpec
CONSTANTS
    Streams = {s1}
    MaxCreds = 1
    MaxDgrams = 1
INVARIANTS
    EndReleasesSockets
CHECK_DEADLOCK FALSE
