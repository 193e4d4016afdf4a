SPECIFICATION ServiceSpec
CONSTANTS
    Publishers = {p1, p2, p3}
    Submitters = {s1, s2, s3}
    Keys = {k}
    NoKey = NoKey
    newest = newest
    second = second
    Bodies = {newest, second}
    wanted <- Wanted
    Threads = {t1, t2}
    Capacity = 6
    Cost = 3
    Refill = 2
    IdleTtl = 3
    RateTime = 4
    None = None
    Ids = {1, 2, 3, 4}
    ListTime = 2
    Limits = {1, 2, 3}
    MaxPageSize = 2
SYMMETRY RequestSymmetry
INVARIANTS
    RateIsBounded
CHECK_DEADLOCK FALSE
