SPECIFICATION Spec
CONSTANTS
    Workers = {w1, w2}
    Runs = {r1}
    a = a
    b = b
    c = c
    d = d
    Tasks <- ChainTasks
    depends_on <- Independent
    max_attempts <- OneAttempt
    priority <- SamePriority
    claim_batch_size = 1
    NoWorker = NoWorker
    NoTask = NoTask
SYMMETRY WorkerSymmetry
INVARIANTS
    FinishedRunIsCurrent
CHECK_DEADLOCK FALSE
