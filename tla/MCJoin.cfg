SPECIFICATION Spec
CONSTANTS
    Workers = {w1, w2}
    Runs = {r1}
    a = a
    b = b
    c = c
    d = d
    Tasks <- JoinTasks
    depends_on <- Join
    max_attempts <- RetryA
    priority <- SamePriority
    claim_batch_size = 2
    NoWorker = NoWorker
    NoTask = NoTask
SYMMETRY WorkerSymmetry
INVARIANTS
    TypeOK
    LeaseIffRunning
    PendingCountExact
    FailureClosed
    BlockedIsHopeless
    AttemptsAreTrue
    TerminalRunIsTrue
    OwnerHoldsCurrentAttempt
    StoppedHoldsNothing
PROPERTIES
    TerminalIsFinal
    TransitionsDeclared
    ImplementsLedger
CHECK_DEADLOCK FALSE
