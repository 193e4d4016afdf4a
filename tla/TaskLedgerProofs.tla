-------------------------- MODULE TaskLedgerProofs --------------------------
(***************************************************************************)
(* The transactions of TaskQueue implement the steps of TaskLedger: what   *)
(* a commit changes in the tables is one decision of the ledger.           *)
(***************************************************************************)
EXTENDS TaskFlowProofs

-----------------------------------------------------------------------------
(* The invariant.                                                          *)

\* A cancel request is about a run that exists.
RequestedExists == \A r \in Runs : pc[r] # "idle" => run_state[r] # "ABSENT"

\* Once a task of a run is cancelled, no task of the run is active.
CancelledTogether ==
    \A x, y \in TaskRuns :
        x[1] = y[1] /\ task_runs[x].state = "CANCELLED" =>
            task_runs[y].state \notin ActiveTaskStates

\* From its UPDATE on, a cancel request sees no active task in its run.
CancelCovers(r) ==
    pc[r] \in {"refreshing", "committing"} =>
        \A x \in TaskRuns : x[1] = r => View(r)[x].state \notin ActiveTaskStates

\* What the loop of _block_descendants visits lies below the failed task.
FrontierBelow(w) ==
    pc[w] = "blocking" =>
        frontier[w] \subseteq Ledger!Descendants(current[w][2]) \cup {current[w][2]}

\* The loop starts from the failed task.
FirstLayer(w) == pc[w] = "blocking" /\ Locked(w) = {} => frontier[w] = {current[w][2]}

FailedHere(w) ==
    pc[w] = "blocking" /\ current[w] \in Locked(w) =>
        writes[w][current[w]].state = "DEAD_LETTER"

\* A report blocks only what lies below its task, and only if that has failed.
BlockedBelow(w) ==
    \A y \in Locked(w) : writes[w][y].state = "BLOCKED" =>
        /\ y[2] \in Ledger!Descendants(current[w][2])
        /\ current[w] \in Locked(w) => writes[w][current[w]].state = "DEAD_LETTER"

\* A report that found its lease gone, and blocks descendants all the same.
Late(w) == pc[w] \in Reporting /\ Locked(w) # {} /\ current[w] \notin Locked(w)

LateIsStuck(w) ==
    Late(w) => /\ task_runs[current[w]].state = "READY"
               /\ task_runs[current[w]].attempt = max_attempts[current[w][2]]

LateClosed(w) ==
    Late(w) =>
        \A x \in TaskRuns : current[w] \in Parents(x) =>
            \/ View(w)[x].state \in {"BLOCKED", "CANCELLED"}
            \/ pc[w] = "blocking" /\ current[w][2] \in frontier[w]

WorkerBlocks(w) ==
    /\ FrontierBelow(w) /\ FirstLayer(w) /\ FailedHere(w) /\ BlockedBelow(w)
    /\ LateIsStuck(w) /\ LateClosed(w)

LedgerInv ==
    /\ FlowInv
    /\ RequestedExists
    /\ CancelledTogether
    /\ \A r \in Runs : CancelCovers(r)
    /\ \A w \in Workers : WorkerBlocks(w)

-----------------------------------------------------------------------------
(* Cancellation.                                                           *)

\* A run that exists does not cease to.
LEMMA RunsPersist ==
    ASSUME LockInv, [Next]_vars, NEW r \in Runs, run_state[r] # "ABSENT"
    PROVE  run_state'[r] # "ABSENT"
<1>1. \A c \in Clients : derived[c] # "ABSENT"
    BY DEF LockInv, TypeInv, TypeOK, RunState
<1> QED
    BY <1>1, RunStateFrame

\* Rows of an existing run do not become active.
LEMMA StaysInactive ==
    ASSUME LockInv, [Next]_vars, NEW x \in TaskRuns, run_state[x[1]] # "ABSENT",
           task_runs[x].state \notin ActiveTaskStates
    PROVE  task_runs'[x].state \notin ActiveTaskStates
BY InactiveIsStable

\* A cancel request begins on a run that exists, and locks its rows once.
LEMMA CancelFrame ==
    ASSUME TypeInv, [Next]_vars, NEW r \in Runs
    PROVE  /\ pc'[r] # "idle" => pc[r] # "idle" \/ run_state[r] # "ABSENT"
           /\ pc'[r] \in {"refreshing", "committing"} =>
                \/ cancel(r)
                \/ pc[r] \in {"refreshing", "committing"} /\ writes'[r] = writes[r]
<1>0. r \in Clients /\ pc \in [Clients -> Pcs] /\ r \notin Workers
    BY ClientsAssumption DEF Clients, TypeInv, TypeOK
<1>1. CASE RequestIdle(r)
    BY <1>1 DEF RequestIdle
<1>2. CASE cancel(r)
    BY <1>0, <1>2 DEF cancel
<1>3. CASE refresh_run_state(r)
    BY <1>0, <1>3 DEF refresh_run_state
<1>4. CASE cancel_commit(r) \/ cancel_abort(r)
    BY <1>0, <1>4 DEF cancel_commit, cancel_abort
<1>5. CASE create_run(r)
    BY <1>0, <1>5 DEF create_run, transactions, process
<1>6. CASE cancel_run(r)
    BY <1>0, <1>6 DEF cancel_run
<1> QED
    BY <1>1, <1>2, <1>3, <1>4, <1>5, <1>6, RequestFrame DEF CancelStep, ClientEvent

\* Requests go on being about runs that exist.
LEMMA RequestedStep == ASSUME LedgerInv, [Next]_vars PROVE RequestedExists'
<1>0. LockInv /\ TypeInv
    BY DEF LedgerInv, FlowInv, HistoryInv, OwnerInv, OpenInv, LockInv
<1> SUFFICES ASSUME NEW r \in Runs, pc'[r] # "idle" PROVE run_state'[r] # "ABSENT"
    BY DEF RequestedExists
<1>1. run_state[r] # "ABSENT"
    BY <1>0, CancelFrame DEF LedgerInv, RequestedExists
<1> QED
    BY <1>0, <1>1, RunsPersist

\* What a cancel request has covered stays covered until it commits.
LEMMA CancelCoversStep ==
    ASSUME LedgerInv, [Next]_vars, NEW r \in Runs PROVE CancelCovers(r)'
<1>0. LockInv /\ TypeInv /\ OpenInv /\ r \in Clients /\ r \notin Workers
    BY ClientsAssumption
    DEF LedgerInv, FlowInv, HistoryInv, OwnerInv, OpenInv, LockInv, Clients
<1> SUFFICES ASSUME pc'[r] \in {"refreshing", "committing"}, NEW x \in TaskRuns, x[1] = r
             PROVE  View(r)'[x].state \notin ActiveTaskStates
    BY DEF CancelCovers
<1>v. View(r)'[x] = IF x \in Locked(r)' THEN writes'[r][x] ELSE task_runs'[x]
    BY DEF View
<1>1. CASE cancel(r)
    <2>1. task_runs' = task_runs /\ task_runs[x] \in TaskRunRow
        BY <1>0, <1>1 DEF cancel, tables, TypeInv, TypeOK
    <2>2. CASE x \in Cancellable(r)
        <3>1. View(r)'[x] = CancelledRow(task_runs[x])
            BY <1>0, <1>1, <1>v, <2>2, CancelWrites
        <3> QED
            BY <2>1, <3>1, UpdateFields DEF Released, ActiveTaskStates
    <2>3. CASE x \notin Cancellable(r)
        <3>1. View(r)'[x] = task_runs[x]
            BY <1>0, <1>1, <1>v, <2>1, <2>3, CancelWrites
        <3> QED
            BY <2>3, <3>1 DEF Cancellable, ActiveTaskStates
    <2> QED
        BY <2>2, <2>3
<1>2. CASE pc[r] \in {"refreshing", "committing"} /\ writes'[r] = writes[r]
    <2>1. run_state[r] # "ABSENT" /\ View(r)[x].state \notin ActiveTaskStates
        BY <1>2 DEF LedgerInv, RequestedExists, CancelCovers
    <2>2. Locked(r)' = Locked(r)
        BY <1>2 DEF Locked
    <2>3. View(r)[x] = IF x \in Locked(r) THEN writes[r][x] ELSE task_runs[x]
        BY DEF View
    <2> QED
        BY <1>0, <1>2, <1>v, <2>1, <2>2, <2>3, StaysInactive
<1> QED
    BY <1>0, <1>1, <1>2, CancelFrame

\* A row is cancelled by the commit of its run's cancel request.
LEMMA CancelledBy ==
    ASSUME FlowInv, [Next]_vars, NEW x \in TaskRuns,
           task_runs[x].state # "CANCELLED", task_runs'[x].state = "CANCELLED"
    PROVE  /\ x[1] \in Runs /\ cancel_commit(x[1]) /\ x \in Locked(x[1])
           /\ task_runs' = View(x[1]) /\ pc[x[1]] = "committing"
<1>0. LockInv /\ task_runs[x] \in TaskRunRow
    BY DEF FlowInv, HistoryInv, OwnerInv, OpenInv, LockInv, TypeInv, TypeOK
<1>1. ~Quiet
    BY DEF Quiet, SameRow
<1>2. ~reap_expired_leases
    BY <1>0, UpdateFields DEF reap_expired_leases, Released
<1>3. ASSUME NEW c \in Clients, Commit(c)
      PROVE  x \in Locked(c) /\ x[1] = c /\ c \in Runs
    <2>1. x \in Locked(c) /\ task_runs'[x] = writes[c][x]
        BY <1>0, <1>3, CommitRows
    <2> QED
        BY <2>1, WrittenStates DEF Follows, Claims, Reports, Unblocks, Blocks, Cancels
<1>4. ASSUME NEW r \in Runs, create_run(r) PROVE FALSE
    BY <1>4, CreatedState DEF create_run, TaskRuns
<1>5. ASSUME NEW w \in Workers, claim_commit(w) \/ report_commit(w) PROVE FALSE
    BY <1>3, <1>5, ClientsAssumption
    DEF claim_commit, report_commit, CommitReport, Clients
<1>6. PICK r \in Runs : cancel_commit(r)
    BY <1>0, <1>1, <1>2, <1>4, <1>5, TableStep
<1>7. Commit(r) /\ r \in Clients /\ pc[r] = "committing"
    BY <1>6 DEF cancel_commit, CommitReport, Clients
<1>8. x \in Locked(r) /\ x[1] = r
    BY <1>3, <1>7
<1> QED
    BY <1>6, <1>7, <1>8 DEF Commit

\* Cancellation reaches every active task of the run, or none.
LEMMA CancelledTogetherStep == ASSUME LedgerInv, [Next]_vars PROVE CancelledTogether'
<1>0. FlowInv /\ LockInv
    BY DEF LedgerInv, FlowInv, HistoryInv, OwnerInv, OpenInv
<1> SUFFICES ASSUME NEW x \in TaskRuns, NEW y \in TaskRuns, x[1] = y[1],
                    task_runs'[x].state = "CANCELLED"
             PROVE  task_runs'[y].state \notin ActiveTaskStates
    BY DEF CancelledTogether
<1>1. CASE task_runs[x].state = "CANCELLED"
    <2>1. task_runs[y].state \notin ActiveTaskStates /\ run_state[y[1]] # "ABSENT"
        BY <1>0, <1>1 DEF LedgerInv, CancelledTogether, LockInv, AbsentTogether
    <2> QED
        BY <1>0, <2>1, StaysInactive
<1>2. CASE task_runs[x].state # "CANCELLED"
    <2>1. task_runs' = View(x[1]) /\ pc[x[1]] = "committing" /\ x[1] \in Runs
        BY <1>0, <1>2, CancelledBy
    <2> QED
        BY <2>1 DEF LedgerInv, CancelCovers
<1> QED
    BY <1>1, <1>2

-----------------------------------------------------------------------------
(* Blocking.                                                               *)

\* The children of descendants are descendants.
LEMMA ChildrenDescend ==
    ASSUME NEW t \in Tasks, NEW F \in SUBSET (Ledger!Descendants(t) \cup {t})
    PROVE  ChildrenOf(F) \subseteq Ledger!Descendants(t)
<1> SUFFICES ASSUME NEW u \in ChildrenOf(F), NEW S \in SUBSET Tasks,
                    \A v \in Tasks : depends_on[v] \cap (S \cup {t}) # {} => v \in S
             PROVE  u \in S
    BY DEF ChildrenOf, Ledger!Descendants
<1>1. PICK v \in F : v \in depends_on[u] /\ u \in Tasks
    BY DEF ChildrenOf
<1>2. v = t \/ v \in S
    BY <1>1 DEF Ledger!Descendants
<1> QED
    BY <1>1, <1>2

\* The task of a report is not among what the report blocks.
LEMMA CurrentNotInLayer ==
    ASSUME LedgerInv, NEW w \in Workers, block_descendants(w)
    PROVE  current[w] \notin BlockableLayer(w)
<1> SUFFICES ASSUME current[w] \in BlockableLayer(w) PROVE FALSE
    OBVIOUS
<1> DEFINE x == current[w]
<1>0. FlowInv /\ HistoryInv /\ pc[w] = "blocking"
    BY DEF LedgerInv, FlowInv, block_descendants
<1>1. x \in TaskRuns /\ x \notin Locked(w) /\ View(w)[x] = task_runs[x]
    BY <1>0, LayerIsNew
<1>2. PICK t \in frontier[w] : t \in depends_on[x[2]]
    BY DEF BlockableLayer, ChildrenOf
<1>3. <<x[1], t>> \in Parents(x) /\ Hopeless(View(w)[<<x[1], t>>], t)
    BY <1>0, <1>2 DEF Parents, FlowInv, WorkerFlows, FrontierHopeless
<1>4. task_runs[x].state \in {"PENDING", "BLOCKED", "CANCELLED"}
    BY <1>0, <1>1, <1>3, ChildOfHopeless
<1>5. task_runs[x].state = "PENDING"
    BY <1>1, <1>4 DEF BlockableLayer
<1>6. CASE Locked(w) = {}
    <2>1. x[2] \in frontier[w] /\ <<x[1], x[2]>> = x
        BY <1>0, <1>1, <1>6 DEF LedgerInv, WorkerBlocks, FirstLayer, TaskRuns
    <2>2. Hopeless(View(w)[x], x[2])
        BY <1>0, <2>1 DEF FlowInv, WorkerFlows, FrontierHopeless
    <2> QED
        BY <1>1, <1>5, <2>2 DEF Hopeless
<1>7. CASE Locked(w) # {}
    BY <1>0, <1>1, <1>5, <1>7 DEF LedgerInv, WorkerBlocks, LateIsStuck, Late, Reporting
<1> QED
    BY <1>6, <1>7

\* A report that came too late blocks only below a task that waits for nobody.
LEMMA FirstLayerIsStuck ==
    ASSUME LedgerInv, NEW w \in Workers, block_descendants(w), current[w] \notin Locked(w)
    PROVE  /\ task_runs[current[w]].state = "READY"
           /\ task_runs[current[w]].attempt = max_attempts[current[w][2]]
<1> DEFINE x == current[w]
<1>0. FlowInv /\ HistoryInv /\ pc[w] = "blocking" /\ BlockableLayer(w) # {} /\ x \in TaskRuns
    BY DEF LedgerInv, FlowInv, HistoryInv, OwnerInv, OpenInv, LockInv, TypeInv, JobHasTask,
        block_descendants
<1>1. CASE Locked(w) # {}
    BY <1>0, <1>1 DEF LedgerInv, WorkerBlocks, LateIsStuck, Late, Reporting
<1>2. CASE Locked(w) = {}
    <2>1. frontier[w] = {x[2]} /\ <<x[1], x[2]>> = x
        BY <1>0, <1>2 DEF LedgerInv, WorkerBlocks, FirstLayer, TaskRuns
    <2>2. Hopeless(View(w)[x], x[2]) /\ View(w)[x] = task_runs[x]
        BY <1>0, <2>1 DEF FlowInv, WorkerFlows, FrontierHopeless, View
    <2>3. PICK y \in BlockableLayer(w) : TRUE
        BY <1>0
    <2>4. /\ y \in TaskRuns /\ y[1] = x[1]
          /\ task_runs[y].state \in {"PENDING", "READY"}
        BY <1>0, LayerIsNew
    <2>5. x \in Parents(y)
        BY <2>1, <2>3, <2>4 DEF BlockableLayer, ChildrenOf, Parents
    <2>6. task_runs[x].state \notin {"DEAD_LETTER", "BLOCKED"}
        BY <1>0, <2>4, <2>5 DEF FlowInv, FailureClosed
    <2>7. task_runs[x].state # "CANCELLED"
        BY <1>0, <2>4 DEF LedgerInv, CancelledTogether, ActiveTaskStates
    <2> QED
        BY <2>2, <2>6, <2>7 DEF Hopeless
<1> QED
    BY <1>1, <1>2

\* The loop goes down from the failed task and never comes back to it.
LEMMA LoopStep ==
    ASSUME LedgerInv, [Next]_vars, NEW w \in Workers
    PROVE  FrontierBelow(w)' /\ FirstLayer(w)' /\ FailedHere(w)'
<1>0. /\ FlowInv /\ HistoryInv /\ OpenInv /\ TypeInv /\ w \in Clients
      /\ FrontierBelow(w) /\ FirstLayer(w) /\ FailedHere(w)
    BY DEF LedgerInv, FlowInv, HistoryInv, OwnerInv, OpenInv, LockInv, Clients, WorkerBlocks
<1> SUFFICES ASSUME pc'[w] = "blocking" PROVE FrontierBelow(w)' /\ FirstLayer(w)' /\ FailedHere(w)'
    BY DEF FrontierBelow, FirstLayer, FailedHere
<1>1. CASE record_failure_terminal(w)
    <2>1. frontier'[w] = {current[w][2]} /\ current' = current
        BY <1>0, <1>1 DEF record_failure_terminal, TypeInv, TypeOK
    <2> QED
        BY <1>0, <1>1, <2>1, FirstStates DEF FrontierBelow, FirstLayer, FailedHere
<1>2. CASE block_descendants(w)
    <2>1. /\ frontier'[w] = ChildrenOf(frontier[w]) /\ current' = current
          /\ pc[w] = "blocking" /\ BlockableLayer(w) # {}
        BY <1>0, <1>2 DEF block_descendants, NextFrontier, TypeInv, TypeOK
    <2>2. current[w][2] \in Tasks
        BY <1>0, <2>1 DEF TypeInv, JobHasTask, TaskRuns
    <2>3. FrontierBelow(w)'
        <3>1. frontier[w] \in SUBSET (Ledger!Descendants(current[w][2]) \cup {current[w][2]})
            BY <1>0, <2>1 DEF FrontierBelow
        <3>2. ChildrenOf(frontier[w]) \subseteq Ledger!Descendants(current[w][2])
            BY <2>2, <3>1, ChildrenDescend
        <3> QED
            BY <2>1, <3>2 DEF FrontierBelow, Ledger!Descendants
    <2>4. FirstLayer(w)'
        BY <1>0, <1>2, <2>1, BlockWrites DEF FirstLayer
    <2>5. FailedHere(w)'
        <3>1. current[w] \in TaskRuns /\ current[w] \notin BlockableLayer(w)
            BY <1>0, <1>2, <2>1, CurrentNotInLayer DEF TypeInv, JobHasTask
        <3> QED
            BY <1>0, <1>2, <2>1, <3>1, BlockWrites DEF FailedHere
    <2> QED
        BY <2>3, <2>4, <2>5
<1>3. CASE /\ pc[w] = "blocking" /\ writes'[w] = writes[w]
           /\ frontier'[w] = frontier[w] /\ current'[w] = current[w]
    <2>1. Locked(w)' = Locked(w)
        BY <1>3 DEF Locked
    <2>2. FrontierBelow(w)'
        BY <1>0, <1>3 DEF FrontierBelow, Ledger!Descendants
    <2> QED
        BY <1>0, <1>3, <2>1, <2>2 DEF FirstLayer, FailedHere
<1> QED
    BY <1>0, <1>1, <1>2, <1>3, BlockingFrame

\* Every blocked row lies below the task of the report.
LEMMA BlockedBelowStep ==
    ASSUME LedgerInv, [Next]_vars, NEW w \in Workers PROVE BlockedBelow(w)'
<1>0. /\ FlowInv /\ HistoryInv /\ OpenInv /\ TypeInv /\ w \in Clients /\ w \notin Runs
      /\ FrontierBelow(w) /\ BlockedBelow(w)
    BY ClientsAssumption
    DEF LedgerInv, FlowInv, HistoryInv, OwnerInv, OpenInv, LockInv, Clients, WorkerBlocks
<1> SUFFICES ASSUME NEW y \in Locked(w)', writes'[w][y].state = "BLOCKED"
             PROVE  /\ y[2] \in Ledger!Descendants(current[w][2])
                    /\ current'[w] = current[w]
                    /\ current[w] \in Locked(w)' =>
                         writes'[w][current[w]].state = "DEAD_LETTER"
    BY DEF BlockedBelow, Ledger!Descendants
<1>1. ~(claim_batch(w) \/ record_success(w) \/ record_failure_retry(w)
        \/ record_failure_terminal(w))
    BY <1>0, FirstStates
<1>2. CASE block_descendants(w)
    <2>1. /\ current' = current /\ pc[w] = "blocking" /\ pc' = pc
          /\ current[w] \in TaskRuns /\ current[w][2] \in Tasks
        BY <1>0, <1>2 DEF block_descendants, TypeInv, JobHasTask, TaskRuns
    <2>2. FailedHere(w)'
        BY LoopStep
    <2>3. CASE y \in BlockableLayer(w)
        <3>1. y[2] \in ChildrenOf(frontier[w])
            BY <2>3 DEF BlockableLayer
        <3>2. frontier[w] \in SUBSET (Ledger!Descendants(current[w][2]) \cup {current[w][2]})
            BY <1>0, <2>1 DEF FrontierBelow
        <3>3. y[2] \in Ledger!Descendants(current[w][2])
            BY <2>1, <3>1, <3>2, ChildrenDescend
        <3> QED
            BY <2>1, <2>2, <3>3 DEF FailedHere
    <2>4. CASE y \notin BlockableLayer(w)
        <3>1. y \in Locked(w) /\ writes[w][y].state = "BLOCKED"
            BY <1>0, <1>2, <2>4, BlockWrites DEF Locked
        <3> QED
            BY <1>0, <2>1, <2>2, <3>1 DEF BlockedBelow, FailedHere
    <2> QED
        BY <2>3, <2>4
<1>3. ~EndTransaction(w)
    BY <1>0, EndedTransaction
<1>4. CASE UNCHANGED <<writes, attempt_writes>> /\ Locked(w) = {}
    BY <1>4 DEF Locked
<1>5. CASE GoesOn(w)
    <2>1. writes'[w] = writes[w] /\ Locked(w)' = Locked(w) /\ current'[w] = current[w]
        BY <1>0, <1>5 DEF GoesOn, Locked
    <2> QED
        BY <1>0, <2>1 DEF BlockedBelow
<1> QED
    BY <1>0, <1>1, <1>2, <1>3, <1>4, <1>5, WorkerTransaction

\* Only blocking makes a report a late one that has something to commit.
LEMMA LateFrame ==
    ASSUME FlowInv, [Next]_vars, NEW w \in Workers, Late(w)'
    PROVE  \/ block_descendants(w)
           \/ Late(w) /\ writes'[w] = writes[w] /\ current'[w] = current[w]
<1>0. OpenInv /\ TypeInv /\ w \in Clients /\ w \notin Runs /\ pc \in [Clients -> Pcs]
    BY ClientsAssumption
    DEF FlowInv, HistoryInv, OwnerInv, OpenInv, LockInv, Clients, TypeInv, TypeOK
<1>1. ~claim_batch(w)
    BY <1>0 DEF claim_batch, Late, Reporting
<1>2. ~record_success(w)
    <2> SUFFICES ASSUME record_success(w) PROVE FALSE
        OBVIOUS
    <2>1. current' = current
        BY DEF record_success, job
    <2> QED
        BY <1>0, <2>1, SuccessWrites DEF Late
<1>3. ~(record_failure_retry(w) \/ record_failure_terminal(w))
    <2> SUFFICES ASSUME record_failure_retry(w) \/ record_failure_terminal(w) PROVE FALSE
        OBVIOUS
    <2>1. current' = current
        BY DEF record_failure_retry, record_failure_terminal, job
    <2> QED
        BY <1>0, <2>1, FailureWrites DEF Late, StillMine
<1>4. ~EndTransaction(w)
    BY <1>0, EndedTransaction DEF Late
<1>5. ~(UNCHANGED <<writes, attempt_writes>> /\ Locked(w) = {})
    BY DEF Late, Locked
<1>6. CASE GoesOn(w)
    BY <1>0, <1>6 DEF GoesOn, Late, Locked, Reporting
<1> QED
    BY <1>0, <1>1, <1>2, <1>3, <1>4, <1>5, <1>6, WorkerTransaction

\* Nobody else decides the task of a late report before the report commits: a
\* cancellation would have to wait for the rows the report has blocked.
LEMMA LateIsStuckStep ==
    ASSUME LedgerInv, [Next]_vars, NEW w \in Workers PROVE LateIsStuck(w)'
<1>0. /\ FlowInv /\ HistoryInv /\ LockInv /\ OpenInv /\ TypeInv
      /\ w \in Clients /\ w \notin Runs
    BY ClientsAssumption
    DEF LedgerInv, FlowInv, HistoryInv, OwnerInv, OpenInv, LockInv, Clients
<1> SUFFICES ASSUME Late(w)'
             PROVE  /\ task_runs'[current'[w]].state = "READY"
                    /\ task_runs'[current'[w]].attempt = max_attempts[current'[w][2]]
    BY DEF LateIsStuck
<1>1. CASE block_descendants(w)
    <2>1. current' = current /\ task_runs' = task_runs
        BY <1>1 DEF block_descendants, tables
    <2>2. current[w] \notin Locked(w)
        BY <1>0, <1>1, <2>1, BlockWrites DEF Late
    <2> QED
        BY <1>1, <2>1, <2>2, FirstLayerIsStuck
<1>2. CASE Late(w) /\ writes'[w] = writes[w] /\ current'[w] = current[w]
    <2> DEFINE x == current[w]
    <2>0. x \in TaskRuns /\ x[1] \in Runs
        BY <1>0, <1>2 DEF Late, Reporting, TypeInv, JobHasTask, TaskRuns
    <2>1. task_runs[x].state = "READY" /\ task_runs[x].attempt = max_attempts[x[2]]
        BY <1>2 DEF LedgerInv, WorkerBlocks, LateIsStuck
    <2>2. Hopeless(task_runs'[x], x[2])
        BY <1>0, <2>0, <2>1, HopelessStable DEF Hopeless
    <2>3. task_runs'[x].state \notin {"DEAD_LETTER", "BLOCKED"}
        <3> SUFFICES ASSUME task_runs'[x].state \in {"DEAD_LETTER", "BLOCKED"} PROVE FALSE
            OBVIOUS
        <3>1. PICK v \in Workers : x \in Locked(v) /\ task_runs'[x] = writes[v][x]
            BY <1>0, <2>0, <2>1, ReportedBy
        <3>2. v \in Clients
            BY DEF Clients
        <3>3. Follows(v, x)
            BY <1>0, <3>1, <3>2, WrittenStates
        <3>4. Blocks(v, x)
            BY <2>1, <3>1, <3>3 DEF Follows, Claims, Reports, Unblocks, Cancels
        <3> QED
            BY <1>0, <2>1, <3>1, <3>2, <3>4, BlocksWaiting
    <2>4. task_runs'[x].state # "CANCELLED"
        <3> SUFFICES ASSUME task_runs'[x].state = "CANCELLED" PROVE FALSE
            OBVIOUS
        <3>1. /\ x[1] \in Runs /\ pc[x[1]] = "committing"
            BY <1>0, <2>0, <2>1, CancelledBy
        <3>2. PICK y \in Locked(w) : TRUE
            BY <1>2 DEF Late
        <3>3. y \in TaskRuns /\ Follows(w, y) /\ task_runs[y].state \in ActiveTaskStates
            BY <1>0, WrittenStates DEF ActiveTaskStates
        <3>4. y[1] = x[1]
            <4>1. Unblocks(w, y) => x[1] = y[1]
                BY <3>3, ParentFacts DEF Unblocks
            <4> QED
                BY <1>0, <1>2, <3>3, <4>1
                DEF Follows, Claims, Reports, Blocks, Cancels, Late, Reporting
        <3>5. View(x[1])[y].state \notin ActiveTaskStates
            BY <3>1, <3>3, <3>4 DEF LedgerInv, CancelCovers
        <3>6. y \in Locked(x[1])
            BY <3>3, <3>5 DEF View
        <3> QED
            BY <1>0, <3>1, <3>2, <3>6 DEF LockInv, LocksExclusive, Clients
    <2> QED
        BY <1>2, <2>2, <2>3, <2>4 DEF Hopeless
<1> QED
    BY <1>0, <1>1, <1>2, LateFrame

\* A late report, too, leaves nothing below its task waiting.
LEMMA LateClosedStep ==
    ASSUME LedgerInv, [Next]_vars, NEW w \in Workers PROVE LateClosed(w)'
<1>0. /\ FlowInv /\ LockInv /\ OpenInv /\ TypeInv /\ w \in Clients
      /\ LateClosed(w) /\ FirstLayer(w)
    BY DEF LedgerInv, FlowInv, HistoryInv, OwnerInv, OpenInv, LockInv, Clients, WorkerBlocks
<1> SUFFICES ASSUME Late(w)', NEW x \in TaskRuns, current'[w] \in Parents(x)'
             PROVE  \/ View(w)'[x].state \in {"BLOCKED", "CANCELLED"}
                    \/ pc'[w] = "blocking" /\ current'[w][2] \in frontier'[w]
    BY DEF LateClosed
<1>p. Parents(x)' = Parents(x)
    BY DEF Parents
<1>1. ASSUME pc[w] = "blocking", current'[w] = current[w], current[w][2] \in frontier[w]
      PROVE  x \in BlockableLayer(w) \/ View(w)[x].state \in {"BLOCKED", "CANCELLED"}
    BY <1>0, <1>p, <1>1, LayerBelow
<1>2. CASE block_descendants(w)
    <2>1. current' = current /\ pc[w] = "blocking"
        BY <1>2 DEF block_descendants
    <2>2. current[w] \notin Locked(w)
        BY <1>0, <1>2, <2>1, BlockWrites DEF Late
    <2>3. View(w)[x].state \in {"BLOCKED", "CANCELLED"} \/ current[w][2] \in frontier[w]
        BY <1>0, <1>p, <2>1, <2>2 DEF LateClosed, FirstLayer, Late, Reporting
    <2>4. x \in BlockableLayer(w) \/ View(w)[x].state \in {"BLOCKED", "CANCELLED"}
        BY <1>1, <2>1, <2>3
    <2> QED
        BY <1>0, <1>2, <2>4, LayerView
<1>3. CASE /\ Late(w) /\ writes'[w] = writes[w] /\ current'[w] = current[w]
           /\ ~block_descendants(w)
    <2>1. Locked(w)' = Locked(w)
        BY <1>3 DEF Locked
    <2>2. ASSUME View(w)[x].state \in {"BLOCKED", "CANCELLED"}
          PROVE  View(w)'[x].state \in {"BLOCKED", "CANCELLED"}
        <3>1. View(w)[x] = IF x \in Locked(w) THEN writes[w][x] ELSE task_runs[x]
            BY DEF View
        <3>2. View(w)'[x] = IF x \in Locked(w) THEN writes[w][x] ELSE task_runs'[x]
            BY <1>3, <2>1 DEF View
        <3> QED
            BY <1>0, <2>2, <3>1, <3>2, WithdrawnIsStable
    <2>3. CASE View(w)[x].state \in {"BLOCKED", "CANCELLED"}
        BY <2>2, <2>3
    <2>4. CASE pc[w] = "blocking" /\ current[w][2] \in frontier[w]
        <3>1. CASE pc'[w] = "blocking"
            BY <1>0, <1>3, <2>4, <3>1, BlockingFrame DEF record_failure_terminal
        <3>2. CASE pc'[w] # "blocking"
            <4>1. ~EndTransaction(w)
                BY <1>0, EndedTransaction DEF Late
            <4>2. BlockableLayer(w) = {}
                BY <1>0, <2>4, <3>2, <4>1, BlockingFrame DEF block_descendants_done
            <4> QED
                BY <1>1, <1>3, <2>2, <2>4, <4>2
        <3> QED
            BY <3>1, <3>2
    <2> QED
        BY <1>0, <1>3, <1>p, <2>3, <2>4 DEF LateClosed
<1> QED
    BY <1>0, <1>2, <1>3, LateFrame

\* Every action preserves the invariant of the refinement.
LEMMA LedgerStep == LedgerInv /\ [Next]_vars => LedgerInv'
<1> SUFFICES ASSUME LedgerInv, [Next]_vars PROVE LedgerInv'
    OBVIOUS
<1>1. FlowInv' /\ RequestedExists' /\ CancelledTogether'
    BY FlowStep, RequestedStep, CancelledTogetherStep DEF LedgerInv
<1>2. \A r \in Runs : CancelCovers(r)'
    BY CancelCoversStep
<1>3. ASSUME NEW w \in Workers PROVE WorkerBlocks(w)'
    BY LoopStep, BlockedBelowStep, LateIsStuckStep, LateClosedStep DEF WorkerBlocks
<1> QED
    BY <1>1, <1>2, <1>3 DEF LedgerInv

\* The initial state satisfies it.
LEMMA LedgerInit == Init => LedgerInv
<1> SUFFICES ASSUME Init PROVE LedgerInv
    OBVIOUS
<1>1. \A c \in Clients : pc[c] = "idle" /\ Locked(c) = {}
    BY DEF Init, Locked, NoWrites
<1>2. CancelledTogether
    BY DEF Init, AbsentRow, CancelledTogether
<1>3. RequestedExists /\ \A r \in Runs : CancelCovers(r)
    BY <1>1 DEF RequestedExists, CancelCovers, Clients
<1>4. ASSUME NEW w \in Workers PROVE WorkerBlocks(w)
    <2>1. pc[w] = "idle" /\ Locked(w) = {}
        BY <1>1 DEF Clients
    <2> QED
        BY <2>1 DEF WorkerBlocks, FrontierBelow, FirstLayer, FailedHere, BlockedBelow,
            LateIsStuck, LateClosed, Late
<1> QED
    BY <1>2, <1>3, <1>4, FlowInit DEF LedgerInv

-----------------------------------------------------------------------------
(* The steps of the ledger.                                                *)

\* Outcome, of a row of task t.
OutcomeOf(row, t) ==
    CASE row.state = "ABSENT" -> "absent"
      [] row.state = "SUCCEEDED" -> "done"
      [] row.state = "DEAD_LETTER" -> "failed"
      [] row.state = "BLOCKED" -> "skipped"
      [] row.state = "CANCELLED" -> "cancelled"
      [] row.state = "READY" /\ row.attempt = max_attempts[t] -> "stuck"
      [] OTHER -> "open"

\* The ledger reads the row alone, before a step and after it.
LEMMA OutcomeRow ==
    ASSUME NEW x
    PROVE  /\ Outcome(x) = OutcomeOf(task_runs[x], x[2])
           /\ Outcome(x)' = OutcomeOf(task_runs'[x], x[2])
BY DEF Outcome, OutcomeOf

\* What the ledger says of a row.
LEMMA OutcomeCases ==
    ASSUME NEW row, NEW t
    PROVE  /\ row.state = "ABSENT" <=> OutcomeOf(row, t) = "absent"
           /\ row.state = "SUCCEEDED" <=> OutcomeOf(row, t) = "done"
           /\ row.state = "DEAD_LETTER" <=> OutcomeOf(row, t) = "failed"
           /\ row.state = "BLOCKED" <=> OutcomeOf(row, t) = "skipped"
           /\ row.state = "CANCELLED" <=> OutcomeOf(row, t) = "cancelled"
           /\ row.state = "READY" /\ row.attempt = max_attempts[t] <=> OutcomeOf(row, t) = "stuck"
           /\ row.state \in {"PENDING", "RUNNING"} => OutcomeOf(row, t) = "open"
           /\ row.state = "READY" /\ row.attempt # max_attempts[t] => OutcomeOf(row, t) = "open"
BY DEF OutcomeOf

\* Two rows that agree in state and attempt have the same outcome.
LEMMA OutcomeSame ==
    ASSUME NEW row, NEW new, NEW t, new.state = row.state, new.attempt = row.attempt
    PROVE  OutcomeOf(new, t) = OutcomeOf(row, t)
BY DEF OutcomeOf

\* Settling entries, row by row.
LEMMA SettledRows ==
    ASSUME NEW xs, NEW o,
           \A x \in TaskRuns :
               Outcome(x)' = IF x \in xs /\ Outcome(x) \in {"open", "stuck"} THEN o
                                                                           ELSE Outcome(x)
    PROVE  [x \in TaskRuns |-> Outcome(x)]' = Ledger!Settled(xs, o)
BY DEF Ledger!Settled, Ledger!Entries, TaskRuns

\* A step that changes no outcome is no step of the ledger.
LEMMA NoOutcome ==
    ASSUME \A x \in TaskRuns : Outcome(x)' = Outcome(x)
    PROVE  UNCHANGED [x \in TaskRuns |-> Outcome(x)]
OBVIOUS

\* A task that runs is one the ledger allows to run.
LEMMA RunningMayRun ==
    ASSUME FlowInv, NEW x \in TaskRuns, task_runs[x].state = "RUNNING"
    PROVE  Ledger!MayRun(x)
<1>1. Outcome(x) = "open"
    BY OutcomeRow, OutcomeCases
<1>2. Ledger!Above(x) = Parents(x)
    BY DEF Ledger!Above, Parents
<1>3. ASSUME NEW p \in Parents(x) PROVE p \in TaskRuns /\ Outcome(p) = "done"
    <2>1. p \in TaskRuns
        BY ParentFacts
    <2>2. task_runs[p].state = "SUCCEEDED"
        BY UnmetIsWaiting DEF FlowInv, Started
    <2> QED
        BY <2>1, <2>2, OutcomeRow, OutcomeCases
<1> QED
    BY <1>1, <1>2, <1>3 DEF Ledger!MayRun

\* create_run submits.
LEMMA CreateSubmits ==
    ASSUME LedgerInv, NEW r \in Runs, create_run(r) PROVE Ledger!Submit(r)
<1>1. ASSUME NEW x \in TaskRuns, x[1] = r PROVE Outcome(x) = "absent" /\ Outcome(x)' = "open"
    <2>1. task_runs[x].state = "ABSENT"
        BY <1>1 DEF LedgerInv, FlowInv, HistoryInv, OwnerInv, OpenInv, LockInv, AbsentTogether,
            create_run
    <2>2. x[2] \in Tasks /\ task_runs'[x] = CreatedRow(x[2]) /\ CreatedRow(x[2]).attempt = 0
        BY <1>1 DEF create_run, TaskRuns, CreatedRow, AbsentRow
    <2>3. max_attempts[x[2]] # 0
        BY <2>2, BudgetAssumption
    <2>4. OutcomeOf(task_runs'[x], x[2]) = "open"
        BY <2>2, <2>3, CreatedState, OutcomeCases
    <2> QED
        BY <2>1, <2>4, OutcomeRow, OutcomeCases
<1>2. ASSUME NEW x \in TaskRuns, x[1] # r PROVE Outcome(x)' = Outcome(x)
    BY <1>2, OutcomeRow DEF create_run
<1> QED
    BY <1>1, <1>2 DEF Ledger!Submit, Ledger!Entries, TaskRuns

\* A sweep loses the tasks on their last attempt, and no others.
LEMMA ReapLoses ==
    ASSUME LedgerInv, reap_expired_leases
    PROVE  \E xs \in SUBSET {x \in TaskRuns : Outcome(x) = "open"} : Ledger!Lose(xs)
<1>0. FlowInv /\ \A x \in TaskRuns : task_runs[x] \in TaskRunRow
    BY DEF LedgerInv, FlowInv, HistoryInv, OwnerInv, OpenInv, LockInv, TypeInv, TypeOK
<1> DEFINE xs == {x \in ExpiredLeases : task_runs[x].attempt = max_attempts[x[2]]}
<1>1. \A x \in ExpiredLeases : x \in TaskRuns /\ task_runs[x].state = "RUNNING"
    BY DEF ExpiredLeases
<1>2. \A x \in ExpiredLeases : Ledger!MayRun(x) /\ Outcome(x) = "open"
    BY <1>0, <1>1, RunningMayRun, OutcomeRow, OutcomeCases
<1>3. ASSUME NEW x \in TaskRuns
      PROVE  Outcome(x)' = IF x \in xs /\ Outcome(x) \in {"open", "stuck"} THEN "stuck"
                                                                         ELSE Outcome(x)
    <2>1. CASE x \in ExpiredLeases
        <3>1. task_runs'[x].state = "READY" /\ task_runs'[x].attempt = task_runs[x].attempt
            BY <1>0, <2>1, UpdateFields DEF reap_expired_leases, Released
        <3> QED
            BY <1>2, <2>1, <3>1, OutcomeRow, OutcomeCases
    <2>2. CASE x \notin ExpiredLeases
        <3>1. task_runs'[x] = task_runs[x]
            BY <2>2 DEF reap_expired_leases
        <3> QED
            BY <2>2, <3>1, OutcomeRow
    <2> QED
        BY <2>1, <2>2
<1>4. [x \in TaskRuns |-> Outcome(x)]' = Ledger!Settled(xs, "stuck")
    BY <1>3, SettledRows
<1>5. Ledger!Lose(xs)
    BY <1>2, <1>4 DEF Ledger!Lose
<1>6. xs \in SUBSET {x \in TaskRuns : Outcome(x) = "open"}
    BY <1>1, <1>2
<1> HIDE DEF xs
<1> QED
    BY <1>5, <1>6

\* A cancel request cancels everything undecided of its run.
LEMMA CancelCancels ==
    ASSUME LedgerInv, NEW r \in Runs, cancel_commit(r) PROVE Ledger!Cancel(r)
<1>0. FlowInv /\ LockInv /\ r \in Clients /\ r \notin Workers /\ Commit(r) /\ pc[r] = "committing"
    BY ClientsAssumption
    DEF LedgerInv, FlowInv, HistoryInv, OwnerInv, OpenInv, Clients, cancel_commit, CommitReport
<1>1. ASSUME NEW x \in TaskRuns
      PROVE  Outcome(x)' = IF x \in {y \in TaskRuns : y[1] = r} /\ Outcome(x) \in {"open", "stuck"}
                           THEN "cancelled" ELSE Outcome(x)
    <2>1. CASE x \in Locked(r)
        <3>1. Cancels(r, x) /\ task_runs[x].state \in {"PENDING", "READY", "RUNNING"}
            BY <1>0, <2>1, WrittenStates DEF Follows, Claims, Reports, Unblocks, Blocks
        <3>2. x[1] = r /\ task_runs'[x].state = "CANCELLED"
            BY <1>0, <2>1, <3>1, CommitRows DEF Cancels
        <3>3. Outcome(x) \in {"open", "stuck"}
            BY <3>1, OutcomeRow, OutcomeCases
        <3> QED
            BY <3>2, <3>3, OutcomeRow, OutcomeCases
    <2>2. CASE x \notin Locked(r)
        <3>1. task_runs'[x] = task_runs[x] /\ View(r)[x] = task_runs[x]
            BY <1>0, <2>2, CommitRows DEF View
        <3>2. x[1] = r => task_runs[x].state \notin ActiveTaskStates
            BY <1>0, <3>1 DEF LedgerInv, CancelCovers
        <3>3. x[1] = r => Outcome(x) \notin {"open", "stuck"}
            <4>1. task_runs[x].state \in TaskState \cup {"ABSENT"} /\ task_runs[x].state # "FAILED"
                BY <1>0 DEF LockInv, TypeInv, TypeOK, TaskRunRow, FlowInv, StatesUsed
            <4>2. x[1] = r => task_runs[x].state \in {"ABSENT", "SUCCEEDED", "DEAD_LETTER",
                                                      "BLOCKED", "CANCELLED"}
                BY <3>2, <4>1 DEF TaskState, ActiveTaskStates
            <4> QED
                BY <4>2, OutcomeRow, OutcomeCases
        <3>4. Outcome(x)' = Outcome(x)
            BY <3>1, OutcomeRow
        <3> QED
            BY <3>3, <3>4
    <2> QED
        BY <2>1, <2>2
<1>2. [x \in TaskRuns |-> Outcome(x)]' = Ledger!Settled({y \in TaskRuns : y[1] = r}, "cancelled")
    BY <1>1, SettledRows
<1> QED
    BY <1>2 DEF Ledger!Cancel, Ledger!Entries, TaskRuns

\* Once the loop is over, everything below the failed task is blocked or cancelled,
\* by this transaction or by an earlier one.
LEMMA DescendantsSettled ==
    ASSUME LedgerInv, NEW w \in Workers, pc[w] = "committing",
           task_runs[current[w]].state \in {"READY", "RUNNING"},
           \A x \in TaskRuns : current[w] \in Parents(x) =>
               View(w)[x].state \in {"BLOCKED", "CANCELLED"},
           NEW u \in Ledger!Descendants(current[w][2])
    PROVE  View(w)[<<current[w][1], u>>].state \in {"BLOCKED", "CANCELLED"}
<1> DEFINE t == current[w]
           S == {v \in Tasks : View(w)[<<t[1], v>>].state \in {"BLOCKED", "CANCELLED"}}
<1>0. FlowInv /\ LockInv /\ w \in Clients /\ w \notin Runs /\ t \in TaskRuns
      /\ t[1] \in Runs /\ t[2] \in Tasks /\ t = <<t[1], t[2]>>
    <2>1. t \in TaskRuns
        BY DEF LedgerInv, FlowInv, HistoryInv, OwnerInv, OpenInv, LockInv, TypeInv, JobHasTask
    <2> QED
        BY <2>1, ClientsAssumption
        DEF LedgerInv, FlowInv, HistoryInv, OwnerInv, OpenInv, Clients, TaskRuns
<1>1. ASSUME NEW v \in Tasks, NEW q \in depends_on[v], q \in S \cup {t[2]} PROVE v \in S
    <2> DEFINE x == <<t[1], v>>
               p == <<t[1], q>>
    <2>0. q \in Tasks
        BY <1>1, DependsOnAssumption
    <2>1. x \in TaskRuns /\ p \in TaskRuns /\ p \in Parents(x) /\ p[1] = t[1]
        BY <1>0, <1>1, <2>0 DEF TaskRuns, Parents
    <2>2. CASE q = t[2]
        <3>1. t \in Parents(x)
            BY <1>0, <2>1, <2>2
        <3> QED
            BY <2>1, <3>1
    <2>3. CASE q \in S /\ p \in Locked(w)
        <3>1. writes[w][p].state \in {"BLOCKED", "CANCELLED"}
            BY <2>1, <2>3 DEF View
        <3>2. writes[w][p].state = "BLOCKED"
            BY <1>0, <2>3, <3>1, WrittenStates
            DEF Follows, Claims, Reports, Unblocks, Blocks, Cancels
        <3>3. View(w)[x].state \in {"BLOCKED", "CANCELLED"}
            BY <1>0, <2>1, <2>3, <3>2 DEF FlowInv, WorkerFlows, ClosedView
        <3> QED
            BY <3>3
    <2>4. CASE q \in S /\ p \notin Locked(w)
        <3>1. task_runs[p].state \in {"BLOCKED", "CANCELLED"}
            BY <2>1, <2>4 DEF View
        <3>2. task_runs[p].state # "CANCELLED"
            BY <1>0, <2>1 DEF LedgerInv, CancelledTogether, ActiveTaskStates
        <3>3. task_runs[x].state \in {"BLOCKED", "CANCELLED"}
            BY <1>0, <2>1, <3>1, <3>2 DEF FlowInv, FailureClosed
        <3>4. x \notin Locked(w)
            BY <1>0, <3>3, WrittenStates
        <3>5. View(w)[x].state \in {"BLOCKED", "CANCELLED"}
            BY <2>1, <3>3, <3>4 DEF View
        <3> QED
            BY <3>5
    <2> QED
        BY <1>1, <2>2, <2>3, <2>4
<1>2. S \in SUBSET Tasks /\ \A v \in Tasks : depends_on[v] \cap (S \cup {t[2]}) # {} => v \in S
    BY <1>1
<1>3. u \in S
    <2> HIDE DEF S
    <2> QED
        BY <1>2 DEF Ledger!Descendants
<1> QED
    BY <1>3

\* The rows a report commits.
LEMMA ReportRows ==
    ASSUME LedgerInv, NEW w \in Workers, report_commit(w), NEW y \in TaskRuns
    PROVE  \/ y \notin Locked(w) /\ Outcome(y)' = Outcome(y) /\ View(w)[y] = task_runs[y]
           \/ y \in Locked(w) /\ Reports(w, y) /\ task_runs'[y] = writes[w][y]
           \/ /\ y \in Locked(w) /\ Unblocks(w, y) /\ Outcome(y) = "open" /\ Outcome(y)' = "open"
              /\ current[w] \in Locked(w) /\ writes[w][current[w]].state = "SUCCEEDED"
           \/ /\ y \in Locked(w) /\ Blocks(w, y) /\ Outcome(y) = "open" /\ Outcome(y)' = "skipped"
              /\ y \in Ledger!Below(current[w])
<1>0. FlowInv /\ LockInv /\ w \in Clients /\ w \notin Runs /\ Commit(w) /\ pc[w] = "committing"
    BY ClientsAssumption
    DEF LedgerInv, FlowInv, HistoryInv, OwnerInv, OpenInv, Clients, report_commit, CommitReport
<1>1. CASE y \notin Locked(w)
    BY <1>0, <1>1, CommitRows, OutcomeRow DEF View
<1>2. ASSUME y \in Locked(w)
      PROVE  task_runs'[y] = writes[w][y] /\ (Reports(w, y) \/ Unblocks(w, y) \/ Blocks(w, y))
    BY <1>0, <1>2, CommitRows, WrittenStates DEF Follows, Claims, Cancels
<1>3. CASE y \in Locked(w) /\ Unblocks(w, y)
    <2>1. current[w] \in TaskRuns /\ writes[w][current[w]].state = "SUCCEEDED"
        BY <1>3, ParentFacts DEF Unblocks
    <2>2. current[w] \in Locked(w)
        BY <2>1 DEF Locked, AbsentRow
    <2>3. task_runs[y].attempt = 0 /\ task_runs[y].state = "PENDING"
        BY <1>3 DEF Unblocks, LedgerInv, FlowInv, HistoryInv, HistoryOf
    <2>4. task_runs'[y].state \in {"PENDING", "READY"} /\ task_runs'[y].attempt = 0
        BY <1>2, <1>3, <2>3 DEF Unblocks
    <2>5. max_attempts[y[2]] # 0
        BY BudgetAssumption DEF TaskRuns
    <2> QED
        BY <1>3, <2>1, <2>2, <2>3, <2>4, <2>5, OutcomeRow, OutcomeCases
<1>4. CASE y \in Locked(w) /\ Blocks(w, y)
    <2>1. task_runs[y].state = "PENDING" /\ task_runs'[y].state = "BLOCKED"
        BY <1>0, <1>2, <1>4, BlocksWaiting DEF Blocks
    <2>2. y[2] \in Ledger!Descendants(current[w][2]) /\ y[1] = current[w][1]
        BY <1>4 DEF LedgerInv, WorkerBlocks, BlockedBelow, Blocks
    <2>3. y \in Ledger!Below(current[w])
        BY <2>2 DEF Ledger!Below, TaskRuns
    <2> QED
        BY <1>4, <2>1, <2>3, OutcomeRow, OutcomeCases
<1> QED
    BY <1>1, <1>2, <1>3, <1>4

\* A row that Blocks tells that the task of the report has not succeeded.
LEMMA BlocksOnlyFailed ==
    ASSUME LedgerInv, NEW w \in Workers, NEW y \in Locked(w), Blocks(w, y)
    PROVE  current[w] \in Locked(w) => writes[w][current[w]].state = "DEAD_LETTER"
BY DEF LedgerInv, WorkerBlocks, BlockedBelow, Blocks

\* Every report is one step of the ledger, or none.
LEMMA ReportDecides ==
    ASSUME LedgerInv, NEW w \in Workers, report_commit(w)
    PROVE  \/ UNCHANGED [x \in TaskRuns |-> Outcome(x)]
           \/ \E x \in TaskRuns : Ledger!Succeed(x) \/ Ledger!Fail(x) \/ Ledger!FailLate(x)
<1> DEFINE t == current[w]
<1>0. FlowInv /\ LockInv /\ w \in Clients /\ w \notin Runs /\ pc[w] = "committing" /\ t \in TaskRuns
    <2>1. FlowInv /\ LockInv /\ TypeInv /\ w \in Clients /\ pc[w] = "committing"
        BY DEF LedgerInv, FlowInv, HistoryInv, OwnerInv, OpenInv, LockInv, Clients,
            report_commit, CommitReport
    <2> QED
        BY <2>1, ClientsAssumption DEF TypeInv, JobHasTask
<1>r. \A y \in TaskRuns : y \in Locked(w) /\ Reports(w, y) => y = t
    BY DEF Reports
<1>1. CASE Locked(w) = {}
    <2>1. \A y \in TaskRuns : Outcome(y)' = Outcome(y)
        BY <1>1, ReportRows
    <2> QED
        BY <2>1, NoOutcome
<1>2. ASSUME t \in Locked(w)
      PROVE  /\ Reports(w, t) /\ task_runs'[t] = writes[w][t] /\ task_runs[t].state = "RUNNING"
             /\ Outcome(t) = "open" /\ Ledger!MayRun(t)
    <2>1. ~Unblocks(w, t)
        BY DEF Unblocks
    <2>2. ~Blocks(w, t)
        BY <1>2, BlocksOnlyFailed DEF Blocks
    <2>3. Reports(w, t) /\ task_runs'[t] = writes[w][t]
        BY <1>0, <1>2, <2>1, <2>2, ReportRows
    <2>4. task_runs[t].state = "RUNNING"
        BY <2>3 DEF Reports
    <2> QED
        BY <1>0, <2>3, <2>4, RunningMayRun, OutcomeRow, OutcomeCases
<1>3. CASE t \in Locked(w) /\ writes[w][t].state = "SUCCEEDED"
    <2>1. ASSUME NEW y \in TaskRuns
          PROVE  Outcome(y)' = IF y \in {t} /\ Outcome(y) \in {"open", "stuck"} THEN "done"
                                                                              ELSE Outcome(y)
        <3>1. CASE y = t
            BY <1>2, <1>3, <3>1, OutcomeRow, OutcomeCases
        <3>2. CASE y # t
            BY <1>3, <1>r, <3>2, ReportRows, BlocksOnlyFailed
        <3> QED
            BY <3>1, <3>2
    <2>2. [x \in TaskRuns |-> Outcome(x)]' = Ledger!Settled({t}, "done")
        BY <2>1, SettledRows
    <2>3. Ledger!Succeed(t)
        BY <1>2, <1>3, <2>2 DEF Ledger!Succeed
    <2> QED
        BY <1>0, <2>3
<1>4. CASE t \in Locked(w) /\ writes[w][t].state = "READY"
    <2>0. task_runs'[t].state = "READY" /\ task_runs'[t].attempt # max_attempts[t[2]]
        <3>1. writes[w][t].attempt < max_attempts[t[2]]
            BY <1>2, <1>4 DEF Reports
        <3>2. max_attempts[t[2]] \in Nat
            BY <1>0, BudgetAssumption DEF TaskRuns
        <3> QED
            BY <1>2, <1>4, <3>1, <3>2
    <2>1. ASSUME NEW y \in TaskRuns PROVE Outcome(y)' = Outcome(y)
        <3>1. CASE y = t
            BY <1>2, <1>4, <2>0, <3>1, OutcomeRow, OutcomeCases
        <3>2. CASE y # t
            BY <1>4, <1>r, <3>2, ReportRows, BlocksOnlyFailed
        <3> QED
            BY <3>1, <3>2
    <2> QED
        BY <2>1, NoOutcome
<1>5. ASSUME task_runs[t].state \in {"READY", "RUNNING"},
             \A x \in TaskRuns : t \in Parents(x) => View(w)[x].state \in {"BLOCKED", "CANCELLED"},
             NEW y \in TaskRuns, y \notin Locked(w), y \in Ledger!Below(t)
      PROVE  Outcome(y) \notin {"open", "stuck"}
    <2>1. y[2] \in Ledger!Descendants(t[2]) /\ y = <<t[1], y[2]>>
        BY <1>5 DEF Ledger!Below
    <2>2. View(w)[y].state \in {"BLOCKED", "CANCELLED"}
        BY <1>0, <1>5, <2>1, DescendantsSettled
    <2>3. task_runs[y].state \in {"BLOCKED", "CANCELLED"}
        BY <1>5, <2>2 DEF View
    <2> QED
        BY <2>3, OutcomeRow, OutcomeCases
<1>6. CASE t \in Locked(w) /\ writes[w][t].state = "DEAD_LETTER"
    <2>1. \A x \in TaskRuns : t \in Parents(x) => View(w)[x].state \in {"BLOCKED", "CANCELLED"}
        BY <1>0, <1>6 DEF FlowInv, WorkerFlows, ClosedView
    <2>2. \A y \in TaskRuns : y = t => Outcome(y)' = "failed"
        BY <1>2, <1>6, OutcomeRow, OutcomeCases
    <2>3. ASSUME NEW y \in TaskRuns, y # t
          PROVE  Outcome(y)' = IF y \in Ledger!Below(t) /\ Outcome(y) \in {"open", "stuck"}
                               THEN "skipped" ELSE Outcome(y)
        <3>1. CASE y \in Locked(w)
            BY <1>6, <1>r, <2>3, <3>1, ReportRows
        <3>2. CASE y \notin Locked(w)
            BY <1>2, <1>5, <1>6, <2>1, <3>2, ReportRows
        <3> QED
            BY <3>1, <3>2
    <2>4. [x \in TaskRuns |-> Outcome(x)]' =
            [Ledger!Settled(Ledger!Below(t), "skipped") EXCEPT ![t] = "failed"]
        BY <1>0, <2>2, <2>3 DEF Ledger!Settled, Ledger!Entries, TaskRuns
    <2>5. Ledger!Fail(t)
        BY <1>2, <1>6, <2>4 DEF Ledger!Fail
    <2> QED
        BY <1>0, <2>5
<1>7. CASE t \notin Locked(w) /\ Locked(w) # {}
    <2>0. Late(w)
        BY <1>0, <1>7 DEF Late, Reporting
    <2>1. task_runs[t].state = "READY" /\ task_runs[t].attempt = max_attempts[t[2]]
        BY <2>0 DEF LedgerInv, WorkerBlocks, LateIsStuck
    <2>2. \A x \in TaskRuns : t \in Parents(x) => View(w)[x].state \in {"BLOCKED", "CANCELLED"}
        BY <1>0, <2>0 DEF LedgerInv, WorkerBlocks, LateClosed
    <2>3. Outcome(t) = "stuck"
        BY <2>1, OutcomeRow, OutcomeCases
    <2>4. ASSUME NEW y \in TaskRuns
          PROVE  Outcome(y)' = IF y \in Ledger!Below(t) /\ Outcome(y) \in {"open", "stuck"}
                               THEN "skipped" ELSE Outcome(y)
        <3>1. CASE y \in Locked(w)
            BY <1>7, <1>r, <3>1, ReportRows
        <3>2. CASE y \notin Locked(w)
            BY <1>5, <2>1, <2>2, <3>2, ReportRows
        <3> QED
            BY <3>1, <3>2
    <2>5. [x \in TaskRuns |-> Outcome(x)]' = Ledger!Settled(Ledger!Below(t), "skipped")
        BY <2>4, SettledRows
    <2>6. Ledger!FailLate(t)
        BY <1>0, <2>3, <2>5 DEF Ledger!FailLate
    <2> QED
        BY <1>0, <2>6
<1> QED
    BY <1>1, <1>2, <1>3, <1>4, <1>6, <1>7 DEF Reports

\* Every step of the queue is a step of the ledger, or leaves the ledger alone.
LEMMA StepSimulation ==
    LedgerInv /\ [Next]_vars => [Ledger!Next]_([x \in TaskRuns |-> Outcome(x)])
<1> SUFFICES ASSUME LedgerInv, [Next]_vars, ~UNCHANGED [x \in TaskRuns |-> Outcome(x)]
             PROVE  Ledger!Next
    OBVIOUS
<1>0. LockInv /\ FlowInv
    BY DEF LedgerInv, FlowInv, HistoryInv, OwnerInv, OpenInv
<1>1. ~Quiet
    <2> SUFFICES ASSUME Quiet PROVE FALSE
        OBVIOUS
    <2>1. \A x \in TaskRuns : Outcome(x)' = Outcome(x)
        BY OutcomeRow, OutcomeSame DEF Quiet, SameRow
    <2> QED
        BY <2>1, NoOutcome
<1>2. CASE reap_expired_leases
    <2>1. \E xs \in SUBSET {x \in TaskRuns : Outcome(x) = "open"} : Ledger!Lose(xs)
        BY <1>2, ReapLoses
    <2>2. {x \in Ledger!Entries : [y \in TaskRuns |-> Outcome(y)][x] = "open"} =
            {x \in TaskRuns : Outcome(x) = "open"}
        BY DEF Ledger!Entries, TaskRuns
    <2> QED
        BY <2>1, <2>2 DEF Ledger!Next
<1>3. ASSUME NEW w \in Workers, claim_commit(w) PROVE FALSE
    <2>0. w \in Clients /\ Commit(w) /\ pc[w] = "claiming" /\ w \notin Runs
        BY <1>3, ClientsAssumption DEF claim_commit, Clients
    <2>1. ASSUME NEW x \in TaskRuns PROVE Outcome(x)' = Outcome(x)
        <3>1. CASE x \notin Locked(w)
            BY <1>0, <2>0, <3>1, CommitRows, OutcomeRow
        <3>2. CASE x \in Locked(w)
            <4>1. Claims(w, x) /\ task_runs'[x] = writes[w][x]
                BY <1>0, <2>0, <3>2, WrittenStates, CommitRows
                DEF Follows, Reports, Unblocks, Blocks, Cancels, Reporting
            <4>2. task_runs[x].attempt \in Nat /\ max_attempts[x[2]] \in Nat
                BY <1>0, BudgetAssumption DEF LockInv, TypeInv, TypeOK, TaskRunRow, TaskRuns
            <4>3. /\ task_runs[x].state = "READY" /\ task_runs[x].attempt # max_attempts[x[2]]
                  /\ task_runs'[x].state = "RUNNING"
                BY <4>1, <4>2 DEF Claims
            <4> QED
                BY <4>3, OutcomeRow, OutcomeCases
        <3> QED
            BY <3>1, <3>2
    <2> QED
        BY <2>1, NoOutcome
<1>4. ASSUME NEW w \in Workers, report_commit(w) PROVE Ledger!Next
    BY <1>4, ReportDecides DEF Ledger!Next, Ledger!Entries, TaskRuns
<1>5. ASSUME NEW r \in Runs, create_run(r) PROVE Ledger!Next
    BY <1>5, CreateSubmits DEF Ledger!Next
<1>6. ASSUME NEW r \in Runs, cancel_commit(r) PROVE Ledger!Next
    BY <1>6, CancelCancels DEF Ledger!Next
<1> QED
    BY <1>0, <1>1, <1>2, <1>3, <1>4, <1>5, <1>6, TableStep

\* The queue implements the ledger for every workflow, set of workers and set of runs:
\* whatever the statements of claims, reports, sweeps, cancellations and crashes do to
\* each other, what clients can see is a sequence of atomic decisions, each taken once.
THEOREM QueueImplementsLedger == Spec => ImplementsLedger
<1>1. Init => Ledger!Init
    <2> SUFFICES ASSUME Init PROVE Ledger!Init
        OBVIOUS
    <2>1. \A x \in TaskRuns : Outcome(x) = "absent"
        BY OutcomeRow, OutcomeCases DEF Init, AbsentRow
    <2> QED
        BY <2>1 DEF Ledger!Init, Ledger!Entries, TaskRuns
<1> QED
    BY <1>1, LedgerInit, LedgerStep, StepSimulation, PTL
    DEF Spec, ImplementsLedger, Ledger!Spec
=============================================================================
