SPECIFICATION DemuxSpec
CONSTANTS
    BatchSize = 2
    MaxBatches = 2
    MaxIdle = 1
    Capacity = 2
    MaxSegs = 2
    MaxArrivals = 5
INVARIANTS
    SleepsArmed
