SPECIFICATION Spec
CONSTANTS
    Workers = {w1, w2}
    Runs = {r1, r2}
    a = a
    b = b
    c = c
    d = d
    Tasks <- ChainTasks
    depends_on <- Chain
    max_attempts <- OneAttempt
    priority <- BFirst
    claim_batch_size = 1
    NoWorker = NoWorker
    NoTask = NoTask
SYMMETRY WorkerRunSymmetry
PROPERTIES
    ImplementsLedger
CHECK_DEADLOCK FALSE
