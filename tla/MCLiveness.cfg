SPECIFICATION FairSpec
CONSTANTS
    Workers = {w1, w2}
    Runs = {r1}
    a = a
    b = b
    c = c
    d = d
    Tasks <- ChainTasks
    depends_on <- Chain
    max_attempts <- RetryA
    priority <- SamePriority
    claim_batch_size = 1
    NoWorker = NoWorker
    NoTask = NoTask
PROPERTIES
    EveryRunEnds
    DeadOwnerIsReaped
CHECK_DEADLOCK FALSE
