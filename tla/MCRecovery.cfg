SPECIFICATION LeasesSpec
CONSTANTS
    Workers = {w1, w2}
    None = None
    Lease = 8
    Beat = 2
    Latency = 1
    Slow = 5
    SlowSweep = 1
    Second = 1
    Skew = 0
    MaxFailedSweeps = 0
    Clients <- Sessions
    makes <- Makes
    Other = Other
    a = a
    b = b
    c = c
    Tasks = {a, b, c}
    depends_on <- Shortcut
    Depth = 2
    Run = Run
SYMMETRY WorkerSymmetry
INVARIANTS
    RequeuedWithinLease
