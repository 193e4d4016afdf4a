--------------------------- MODULE TaskQueueProofs ---------------------------
(***************************************************************************)
(* Theorems about TaskQueue, for every set of workers, runs and tasks,     *)
(* every dependency relation, every attempt budget and batch size.         *)
(***************************************************************************)
EXTENDS TaskQueue, FiniteSetTheorems, TLAPS

\* While a worker works on a task it knows which: _execute's local variable.
JobHasTask ==
    \A w \in Workers :
        pc[w] \in {"executing", "succeeded", "failed", "failing", "blocking",
                   "refreshing", "committing"} => current[w] \in TaskRuns

TypeInv == TypeOK /\ JobHasTask

-----------------------------------------------------------------------------
(* Lemmas about the operators of the model.                                *)

\* The unmet dependency count create_run computes is a natural number.
LEMMA CreatedRowType == \A t \in Tasks : CreatedRow(t) \in TaskRunRow
<1> SUFFICES ASSUME NEW t \in Tasks PROVE CreatedRow(t) \in TaskRunRow
    OBVIOUS
<1>1. depends_on[t] \subseteq Tasks
    BY DependsOnAssumption
<1>2. Cardinality(depends_on[t]) \in Nat
    BY <1>1, TasksAssumption, FS_Subset, FS_CardinalityType
<1> QED
    BY <1>2, ClientsAssumption DEF CreatedRow, AbsentRow, TaskRunRow, TaskState

\* derive_run_state returns a run state, whatever the rows are.
LEMMA DeriveType == \A S : derive_run_state(S) \in RunState
    BY DEF derive_run_state, RunState

\* What a statement reads is a well-typed table.
LEMMA ViewType ==
    ASSUME TypeOK, NEW c \in Clients PROVE View(c) \in [TaskRuns -> TaskRunRow]
    BY DEF TypeOK, View

\* Closing an attempt yields attempt rows.
LEMMA ClosedAttemptType ==
    ASSUME TypeOK, NEW x, NEW n, NEW s \in TaskState
    PROVE  ClosedAttempt(x, n, s) \subseteq TaskAttemptRow
    BY DEF TypeOK, ClosedAttempt, TaskAttemptRow

\* Committing attempt rows yields a table of attempt rows.
LEMMA WithAttemptsType ==
    ASSUME TypeOK, NEW S \in SUBSET TaskAttemptRow
    PROVE  WithAttempts(S) \subseteq TaskAttemptRow
    BY DEF TypeOK, WithAttempts

\* What each UPDATE writes into a row it matches: a row of the table, with an
\* owner and a lease exactly if the statement leaves the task RUNNING.
LEMMA RowUpdateType ==
    ASSUME NEW row \in TaskRunRow
    PROVE  /\ \A w \in Workers : ClaimedRow(w, row) \in TaskRunRow
           /\ \A n \in Nat : SucceededRow(row, n) \in TaskRunRow
           /\ UnblockedRow(row) \in TaskRunRow
           /\ DeadRow(row) \in TaskRunRow
           /\ RetryRow(row) \in TaskRunRow
           /\ ReapedRow(row) \in TaskRunRow
           /\ BlockedRow(row) \in TaskRunRow
           /\ CancelledRow(row) \in TaskRunRow
           /\ RenewedRow(row) \in TaskRunRow
           /\ ExpiredRow(row) \in TaskRunRow
           /\ DueRow(row) \in TaskRunRow
<1>1. \A w \in Workers : ClaimedRow(w, row) \in TaskRunRow
    <2>1. row.attempt + 1 \in Nat
        BY DEF TaskRunRow
    <2> QED
        BY <2>1, Zenon DEF ClaimedRow, TaskRunRow, TaskState
<1>2. \A n \in Nat : SucceededRow(row, n) \in TaskRunRow
    BY DEF SucceededRow, TaskRunRow, TaskState
<1>3. UnblockedRow(row) \in TaskRunRow
    <2> DEFINE left == IF row.pending_deps > 0 THEN row.pending_deps - 1 ELSE 0
    <2> DEFINE next == IF left = 0 THEN "READY" ELSE "PENDING"
    <2>1. left \in Nat /\ next \in TaskState
        BY DEF TaskRunRow, TaskState
    <2> HIDE DEF left, next
    <2>2. [row EXCEPT !.pending_deps = left, !.state = next] \in TaskRunRow
        BY <2>1, Zenon DEF TaskRunRow
    <2> QED
        BY <2>2 DEF UnblockedRow, left, next
<1>4. DeadRow(row) \in TaskRunRow
    BY DEF DeadRow, TaskRunRow, TaskState
<1>5. RetryRow(row) \in TaskRunRow
    BY DEF RetryRow, TaskRunRow, TaskState
<1>6. ReapedRow(row) \in TaskRunRow
    BY DEF ReapedRow, TaskRunRow, TaskState
<1>7. BlockedRow(row) \in TaskRunRow
    BY DEF BlockedRow, TaskRunRow, TaskState
<1>8. CancelledRow(row) \in TaskRunRow
    BY DEF CancelledRow, TaskRunRow, TaskState
<1>9. RenewedRow(row) \in TaskRunRow
    BY DEF RenewedRow, TaskRunRow
<1>10. ExpiredRow(row) \in TaskRunRow
    BY DEF ExpiredRow, TaskRunRow
<1>11. DueRow(row) \in TaskRunRow
    BY DEF DueRow, TaskRunRow
<1> QED
    BY <1>1, <1>2, <1>3, <1>4, <1>5, <1>6, <1>7, <1>8, <1>9, <1>10, <1>11

\* A row that is not there has the type of a row ...
LEMMA AbsentRowType == AbsentRow \in TaskRunRow
    BY DEF AbsentRow, TaskRunRow, TaskState

\* A commit leaves the tables and the transactions well typed.
LEMMA CommitType ==
    ASSUME TypeOK, NEW c \in Clients, Commit(c)
    PROVE  /\ task_runs' \in [TaskRuns -> TaskRunRow]
           /\ task_attempts' \subseteq TaskAttemptRow
           /\ writes' \in [Clients -> [TaskRuns -> TaskRunRow]]
           /\ attempt_writes' \in [Clients -> SUBSET TaskAttemptRow]
           /\ derived' \in [Clients -> RunState]
<1>1. attempt_writes[c] \in SUBSET TaskAttemptRow
    BY DEF TypeOK
<1>2. task_attempts' \subseteq TaskAttemptRow
    BY <1>1, WithAttemptsType DEF Commit
<1> QED
    BY <1>2, ViewType, AbsentRowType
    DEF TypeOK, Commit, EndTransaction, NoWrites, RunState

-----------------------------------------------------------------------------
(* Type correctness.                                                       *)

\* Every action preserves the types and keeps the task a worker works on.
LEMMA TypeStep == TypeInv /\ [Next]_vars => TypeInv'
<1> SUFFICES ASSUME TypeInv, [Next]_vars PROVE TypeInv'
    OBVIOUS
<1> USE ClientsAssumption DEF TypeInv, TypeOK, JobHasTask, Clients, Pcs, job
<1>1. ASSUME NEW w \in Workers, claim_batch(w) PROVE TypeInv'
    <2>1. PICK B \in SUBSET TaskRuns :
            /\ Write(w, B, LAMBDA x : ClaimedRow(w, task_runs[x]))
            /\ attempt_writes' = [attempt_writes EXCEPT ![w] =
                   {[task_run_id |-> x, attempt |-> task_runs[x].attempt + 1,
                     worker_id |-> w, state |-> "RUNNING"] : x \in B}]
        BY <1>1 DEF claim_batch, Candidates
    <2>2. writes' \in [Clients -> [TaskRuns -> TaskRunRow]]
        BY <2>1, RowUpdateType DEF Write
    <2>3. \A x \in TaskRuns : task_runs[x].attempt + 1 \in Nat
        BY DEF TaskRunRow
    <2>4. attempt_writes' \in [Clients -> SUBSET TaskAttemptRow]
        BY <2>1, <2>3 DEF TaskAttemptRow, TaskState
    <2> QED
        BY <1>1, <2>2, <2>4 DEF claim_batch, tables
<1>2. ASSUME NEW w \in Workers, claim_batch_rejected(w) PROVE TypeInv'
    BY <1>2 DEF claim_batch_rejected, tables, transactions
<1>3. ASSUME NEW w \in Workers, claim_commit(w) PROVE TypeInv'
    <2>1. batch' \in [Workers -> [TaskRuns -> Nat]]
        BY <1>3 DEF claim_commit, TaskRunRow
    <2> QED
        BY <1>3, <2>1, CommitType DEF claim_commit
<1>4. ASSUME NEW w \in Workers, start_task(w) PROVE TypeInv'
    BY <1>4 DEF start_task, tables, transactions
<1>5. ASSUME NEW w \in Workers, renew_lease(w) PROVE TypeInv'
    <2>1. task_runs' \in [TaskRuns -> TaskRunRow]
        BY <1>5, RowUpdateType DEF renew_lease, Owns
    <2> QED
        BY <1>5, <2>1 DEF renew_lease, transactions
<1>6. ASSUME NEW w \in Workers, execute(w) PROVE TypeInv'
    BY <1>6 DEF execute, tables, transactions
<1>7. ASSUME NEW w \in Workers, discard_result(w) PROVE TypeInv'
    BY <1>7 DEF discard_result, TaskDone, ClearJob, tables, transactions
<1>8. ASSUME NEW w \in Workers, record_success(w) PROVE TypeInv'
    <2> DEFINE New(y) == IF y = current[w]
                           THEN SucceededRow(task_runs[current[w]], batch[w][current[w]])
                           ELSE UnblockedRow(task_runs[y])
    <2>0. \A y \in TaskRuns : New(y) \in TaskRunRow
        <3>1. current[w] \in TaskRuns /\ batch[w][current[w]] \in Nat
            BY <1>8 DEF record_success
        <3> QED
            BY <3>1, RowUpdateType
    <2>1. writes' \in [Clients -> [TaskRuns -> TaskRunRow]]
        <3>1. Write(w, {current[w]} \cup WaitingChildren(current[w]), New)
            BY <1>8 DEF record_success
        <3> HIDE DEF New
        <3> QED
            BY <2>0, <3>1 DEF Write
    <2>2. attempt_writes' \in [Clients -> SUBSET TaskAttemptRow]
        BY <1>8, ClosedAttemptType DEF record_success, TaskState
    <2> QED
        BY <1>8, <2>1, <2>2 DEF record_success, tables
<1>9. ASSUME NEW w \in Workers, record_success_rejected(w) PROVE TypeInv'
    BY <1>9 DEF record_success_rejected, tables, transactions
<1>10. ASSUME NEW w \in Workers, record_failure(w) PROVE TypeInv'
    <2>1. current[w] \in TaskRuns /\ task_runs[current[w]].attempt \in Nat
        BY <1>10 DEF record_failure, TaskRunRow
    <2> QED
        BY <1>10, <2>1 DEF record_failure, tables, transactions
<1>11. ASSUME NEW w \in Workers, record_failure_retry(w) PROVE TypeInv'
    <2>1. writes' \in [Clients -> [TaskRuns -> TaskRunRow]]
        BY <1>11, RowUpdateType DEF record_failure_retry, Write
    <2>2. attempt_writes' \in [Clients -> SUBSET TaskAttemptRow]
        BY <1>11, ClosedAttemptType DEF record_failure_retry, TaskState
    <2> QED
        BY <1>11, <2>1, <2>2 DEF record_failure_retry, tables
<1>12. ASSUME NEW w \in Workers, record_failure_terminal(w) PROVE TypeInv'
    <2>1. writes' \in [Clients -> [TaskRuns -> TaskRunRow]]
        BY <1>12, RowUpdateType DEF record_failure_terminal, Write
    <2>2. attempt_writes' \in [Clients -> SUBSET TaskAttemptRow]
        BY <1>12, ClosedAttemptType DEF record_failure_terminal, TaskState
    <2>3. {current[w][2]} \subseteq Tasks
        BY <1>12 DEF record_failure_terminal, TaskRuns
    <2> QED
        BY <1>12, <2>1, <2>2, <2>3 DEF record_failure_terminal, tables
<1>13. ASSUME NEW w \in Workers, block_descendants(w) PROVE TypeInv'
    <2>1. writes' \in [Clients -> [TaskRuns -> TaskRunRow]]
        BY <1>13, RowUpdateType, ViewType DEF block_descendants, Write
    <2> QED
        BY <1>13, <2>1 DEF block_descendants, NextFrontier, ChildrenOf, tables
<1>14. ASSUME NEW w \in Workers, block_descendants_done(w) PROVE TypeInv'
    BY <1>14 DEF block_descendants_done, tables, transactions
<1>15. ASSUME NEW c \in Clients, refresh_run_state(c) PROVE TypeInv'
    BY <1>15, DeriveType DEF refresh_run_state, tables
<1>16. ASSUME NEW w \in Workers, report_commit(w) PROVE TypeInv'
    BY <1>16, CommitType DEF report_commit, CommitReport, TaskDone, ClearJob
<1>17. ASSUME NEW w \in Workers, crash(w) PROVE TypeInv'
    BY <1>17, AbsentRowType DEF crash, EndTransaction, NoWrites, ClearJob, RunState, tables
<1>18. ASSUME NEW w \in Workers, request_shutdown(w) PROVE TypeInv'
    BY <1>18 DEF request_shutdown, tables, transactions
<1>19. ASSUME NEW w \in Workers, stop(w) PROVE TypeInv'
    BY <1>19 DEF stop, tables, transactions
<1>20. ASSUME NEW r \in Runs, create_run(r) PROVE TypeInv'
    <2>1. task_runs' \in [TaskRuns -> TaskRunRow]
        BY <1>20, CreatedRowType DEF create_run, TaskRuns
    <2> QED
        BY <1>20, <2>1 DEF create_run, transactions, process, RunState
<1>21. ASSUME NEW r \in Runs, cancel_run(r) PROVE TypeInv'
    BY <1>21 DEF cancel_run, tables, transactions
<1>22. ASSUME NEW r \in Runs, cancel(r) PROVE TypeInv'
    <2>1. writes' \in [Clients -> [TaskRuns -> TaskRunRow]]
        BY <1>22, RowUpdateType DEF cancel, Write
    <2> QED
        BY <1>22, <2>1 DEF cancel, tables
<1>23. ASSUME NEW r \in Runs, cancel_commit(r) PROVE TypeInv'
    BY <1>23, CommitType DEF cancel_commit, CommitReport
<1>24. ASSUME NEW r \in Runs, cancel_abort(r) PROVE TypeInv'
    BY <1>24, AbsentRowType
    DEF cancel_abort, EndTransaction, NoWrites, RunState, tables
<1>25. ASSUME reap_expired_leases PROVE TypeInv'
    <2>1. task_runs' \in [TaskRuns -> TaskRunRow]
        BY <1>25, RowUpdateType DEF reap_expired_leases
    <2>2. ReapedAttempts(ExpiredLeases) \in SUBSET TaskAttemptRow
        BY ClosedAttemptType DEF ReapedAttempts, TaskState
    <2>3. task_attempts' \subseteq TaskAttemptRow
        BY <1>25, <2>2, WithAttemptsType DEF reap_expired_leases
    <2> QED
        BY <1>25, <2>1, <2>3 DEF reap_expired_leases, transactions, process
<1>26. ASSUME NEW x \in TaskRuns, lease_expires(x) PROVE TypeInv'
    <2>1. task_runs' \in [TaskRuns -> TaskRunRow]
        BY <1>26, RowUpdateType DEF lease_expires
    <2> QED
        BY <1>26, <2>1 DEF lease_expires, transactions, process
<1>27. ASSUME NEW x \in TaskRuns, backoff_elapses(x) PROVE TypeInv'
    <2>1. task_runs' \in [TaskRuns -> TaskRunRow]
        BY <1>27, RowUpdateType DEF backoff_elapses
    <2> QED
        BY <1>27, <2>1 DEF backoff_elapses, transactions, process
<1>28. ASSUME UNCHANGED vars PROVE TypeInv'
    BY <1>28 DEF vars, tables, transactions, process
<1> HIDE DEF TypeInv, TypeOK, JobHasTask
<1> QED
    BY <1>1, <1>2, <1>3, <1>4, <1>5, <1>6, <1>7, <1>8, <1>9, <1>10, <1>11,
       <1>12, <1>13, <1>14, <1>15, <1>16, <1>17, <1>18, <1>19, <1>20, <1>21,
       <1>22, <1>23, <1>24, <1>25, <1>26, <1>27, <1>28
    DEF Next, WorkerStep, WorkerEvent, CancelStep, ClientEvent

\* Every reachable state is well typed (TypeOK): every table row satisfies its
\* columns' types, and every handler's variables are what its code assigns.
THEOREM TypeCorrect == Spec => []TypeOK
<1>1. Init => TypeInv
    BY AbsentRowType
    DEF Init, TypeInv, TypeOK, JobHasTask, NoWrites, RunState, Pcs, Clients
<1>2. TypeInv => TypeOK
    BY DEF TypeInv
<1> QED
    BY <1>1, <1>2, TypeStep, PTL DEF Spec

-----------------------------------------------------------------------------
(* Row locks, leases and terminal states.                                  *)

LeaseOK(row) ==
    /\ row.state = "RUNNING" <=> row.worker_id # NoWorker
    /\ row.state = "RUNNING" <=> row.lease # "none"

\* The CHECK constraint holds of the committed rows and of every uncommitted
\* version, so no commit can break it.
RowLeases ==
    \A x \in TaskRuns : /\ LeaseOK(task_runs[x])
                        /\ \A c \in Clients : LeaseOK(writes[c][x])

\* No two transactions have written the same row.
LocksExclusive ==
    \A c \in Clients : \A d \in Clients :
        c # d => Locked(c) \cap Locked(d) = {}

\* Only rows whose committed state is not terminal are ever written.
LockedIsActive ==
    \A c \in Clients : \A x \in Locked(c) :
        task_runs[x].state \in {"PENDING", "READY", "RUNNING", "RETRYING"}

\* A run that has not been created has no task rows.
AbsentTogether ==
    \A x \in TaskRuns : run_state[x[1]] = "ABSENT" => task_runs[x].state = "ABSENT"

LockInv == TypeInv /\ RowLeases /\ LocksExclusive /\ LockedIsActive /\ AbsentTogether

\* What the row updates do to the lease columns.
LEMMA RowUpdateLease ==
    ASSUME NEW row \in TaskRunRow
    PROVE  /\ \A w \in Workers : LeaseOK(ClaimedRow(w, row))
           /\ \A n \in Nat : LeaseOK(SucceededRow(row, n))
           /\ LeaseOK(DeadRow(row))
           /\ LeaseOK(RetryRow(row))
           /\ LeaseOK(ReapedRow(row))
           /\ LeaseOK(CancelledRow(row))
           /\ LeaseOK(row) /\ row.state = "PENDING" => LeaseOK(UnblockedRow(row))
           /\ LeaseOK(row) /\ row.state \in {"PENDING", "READY"} => LeaseOK(BlockedRow(row))
           /\ LeaseOK(row) /\ row.state = "RUNNING" => LeaseOK(RenewedRow(row))
           /\ LeaseOK(row) /\ row.lease = "live" => LeaseOK(ExpiredRow(row))
           /\ LeaseOK(row) => LeaseOK(DueRow(row))
<1> USE DEF LeaseOK, TaskRunRow
<1>1. \A w \in Workers : LeaseOK(ClaimedRow(w, row))
    BY ClientsAssumption DEF ClaimedRow
<1>2. \A n \in Nat : LeaseOK(SucceededRow(row, n))
    BY DEF SucceededRow
<1>3. LeaseOK(DeadRow(row)) /\ LeaseOK(RetryRow(row))
    BY DEF DeadRow, RetryRow
<1>4. LeaseOK(ReapedRow(row)) /\ LeaseOK(CancelledRow(row))
    BY DEF ReapedRow, CancelledRow
<1>5. LeaseOK(row) /\ row.state = "PENDING" => LeaseOK(UnblockedRow(row))
    <2>1. /\ UnblockedRow(row).lease = row.lease
          /\ UnblockedRow(row).worker_id = row.worker_id
          /\ UnblockedRow(row).state \in {"PENDING", "READY"}
        BY DEF UnblockedRow
    <2> QED
        BY <2>1
<1>6. LeaseOK(row) /\ row.state \in {"PENDING", "READY"} => LeaseOK(BlockedRow(row))
    BY DEF BlockedRow
<1>7. LeaseOK(row) /\ row.state = "RUNNING" => LeaseOK(RenewedRow(row))
    BY DEF RenewedRow
<1>8. LeaseOK(row) /\ row.lease = "live" => LeaseOK(ExpiredRow(row))
    BY DEF ExpiredRow
<1>9. LeaseOK(row) => LeaseOK(DueRow(row))
    BY DEF DueRow
<1> QED
    BY <1>1, <1>2, <1>3, <1>4, <1>5, <1>6, <1>7, <1>8, <1>9

\* Renewal and the passing of time leave the state and the output of a row alone.
LEMMA TimeUpdate ==
    ASSUME NEW row \in TaskRunRow
    PROVE  /\ RenewedRow(row).state = row.state /\ RenewedRow(row).output = row.output
           /\ ExpiredRow(row).state = row.state /\ ExpiredRow(row).output = row.output
           /\ DueRow(row).state = row.state /\ DueRow(row).output = row.output
    BY DEF RenewedRow, ExpiredRow, DueRow, TaskRunRow

\* A created row is READY or PENDING and holds no lease.
LEMMA CreatedRowLease ==
    ASSUME NEW t \in Tasks PROVE LeaseOK(CreatedRow(t))
    BY DEF CreatedRow, AbsentRow, LeaseOK

\* ... and holds no lease.
LEMMA AbsentRowLease == LeaseOK(AbsentRow)
    BY DEF AbsentRow, LeaseOK

\* A step that writes no row and commits nothing preserves the invariant.
LEMMA NoWriteStep ==
    ASSUME LockInv, TypeInv', UNCHANGED <<task_runs, run_state, writes>>
    PROVE  LockInv'
    BY DEF LockInv, RowLeases, LocksExclusive, LockedIsActive, AbsentTogether, Locked

\* A statement of c that writes unlocked, active rows xs preserves it.
LEMMA WriteStep ==
    ASSUME LockInv, TypeInv', UNCHANGED <<task_runs, run_state>>,
           NEW c \in Clients, NEW xs \in SUBSET TaskRuns, Unlocked(c, xs),
           \A x \in xs : \/ x \in Locked(c)
                         \/ task_runs[x].state \in {"PENDING", "READY", "RUNNING", "RETRYING"},
           \A x \in xs : LeaseOK(writes'[c][x]),
           \A x \in TaskRuns \ xs : writes'[c][x] = writes[c][x],
           \A d \in Clients \ {c} : writes'[d] = writes[d]
    PROVE  LockInv'
<1>1. RowLeases'
    BY DEF LockInv, RowLeases, LeaseOK
<1>2. Locked(c)' \subseteq Locked(c) \cup xs
    BY DEF Locked
<1>3. \A d \in Clients \ {c} : Locked(d)' = Locked(d)
    BY DEF Locked
<1>4. LocksExclusive'
    BY <1>2, <1>3 DEF LockInv, LocksExclusive, Unlocked
<1>5. LockedIsActive'
    BY <1>2, <1>3 DEF LockInv, LockedIsActive
<1> QED
    BY <1>1, <1>4, <1>5 DEF LockInv, AbsentTogether

\* The end of a transaction unlocks its rows and no others.
LEMMA UnlockStep ==
    ASSUME LockInv, NEW c \in Clients, EndTransaction(c)
    PROVE  /\ Locked(c)' = {}
           /\ \A d \in Clients \ {c} : Locked(d)' = Locked(d)
           /\ \A d \in Clients : \A x \in TaskRuns : LeaseOK(writes'[d][x])
<1>1. writes' = [writes EXCEPT ![c] = NoWrites] /\ writes \in [Clients -> [TaskRuns -> TaskRunRow]]
    BY DEF EndTransaction, LockInv, TypeInv, TypeOK
<1> QED
    BY <1>1, AbsentRowLease DEF Locked, NoWrites, LockInv, RowLeases

\* A rollback preserves the invariant.
LEMMA RollbackStep ==
    ASSUME LockInv, TypeInv', NEW c \in Clients, EndTransaction(c),
           UNCHANGED <<task_runs, run_state>>
    PROVE  LockInv'
    BY UnlockStep DEF LockInv, RowLeases, LocksExclusive, LockedIsActive, AbsentTogether, LeaseOK

\* A commit preserves it, and leaves every row c had not locked as it was.
LEMMA CommitStep ==
    ASSUME LockInv, TypeInv', NEW c \in Clients, Commit(c),
           \A r \in Runs : run_state'[r] = "ABSENT" => run_state[r] = "ABSENT"
    PROVE  LockInv'
<1>1. \A x \in TaskRuns : task_runs'[x] = IF x \in Locked(c) THEN writes[c][x]
                                                            ELSE task_runs[x]
    BY DEF Commit, View
<1>2. RowLeases'
    BY <1>1, UnlockStep DEF Commit, LockInv, RowLeases, LeaseOK
<1>3. LocksExclusive'
    BY UnlockStep DEF Commit, LockInv, LocksExclusive
<1>4. LockedIsActive'
    <2> SUFFICES ASSUME NEW d \in Clients, NEW x \in Locked(d)'
                 PROVE  task_runs'[x].state \in {"PENDING", "READY", "RUNNING", "RETRYING"}
        BY DEF LockedIsActive
    <2>1. d # c /\ x \in Locked(d) /\ x \in TaskRuns
        BY UnlockStep DEF Commit, Locked
    <2>2. x \notin Locked(c)
        BY <2>1 DEF LockInv, LocksExclusive
    <2> QED
        BY <1>1, <2>1, <2>2 DEF LockInv, LockedIsActive
<1>5. AbsentTogether'
    <2> SUFFICES ASSUME NEW x \in TaskRuns, run_state'[x[1]] = "ABSENT"
                 PROVE  task_runs'[x].state = "ABSENT"
        BY DEF AbsentTogether
    <2>1. task_runs[x].state = "ABSENT"
        BY DEF LockInv, AbsentTogether, TaskRuns
    <2>2. x \notin Locked(c)
        BY <2>1 DEF LockInv, LockedIsActive
    <2> QED
        BY <1>1, <2>1, <2>2
<1> QED
    BY <1>2, <1>3, <1>4, <1>5 DEF LockInv

\* Every action preserves the invariant.
LEMMA LockStep == LockInv /\ [Next]_vars => LockInv'
<1> SUFFICES ASSUME LockInv, [Next]_vars PROVE LockInv'
    OBVIOUS
<1>0. TypeInv /\ TypeInv' /\ RowLeases
    BY TypeStep DEF LockInv
<1>a. \A x \in TaskRuns : task_runs[x] \in TaskRunRow
    BY <1>0 DEF TypeInv, TypeOK
<1>b. writes \in [Clients -> [TaskRuns -> TaskRunRow]]
    BY <1>0 DEF TypeInv, TypeOK
<1> USE DEF Clients
<1>1. ASSUME NEW w \in Workers, claim_batch(w) PROVE LockInv'
    <2>1. PICK B \in SUBSET Candidates(w) :
            Write(w, B, LAMBDA x : ClaimedRow(w, task_runs[x]))
        BY <1>1 DEF claim_batch
    <2>2. /\ B \in SUBSET TaskRuns /\ Unlocked(w, B)
          /\ \A x \in B : task_runs[x].state = "READY"
        BY DEF Candidates, Unlocked
    <2>3. /\ \A x \in B : writes'[w][x] = ClaimedRow(w, task_runs[x])
          /\ \A x \in TaskRuns \ B : writes'[w][x] = writes[w][x]
          /\ \A d \in Clients \ {w} : writes'[d] = writes[d]
        BY <1>b, <2>1, <2>2 DEF Write
    <2>4. \A x \in B : LeaseOK(writes'[w][x])
        BY <1>a, <2>2, <2>3, RowUpdateLease
    <2> QED
        BY <1>0, <1>1, <2>2, <2>3, <2>4, WriteStep DEF claim_batch, tables
<1>2. ASSUME NEW w \in Workers,
             \/ claim_batch_rejected(w) \/ start_task(w) \/ execute(w)
             \/ discard_result(w) \/ record_success_rejected(w)
             \/ record_failure(w) \/ block_descendants_done(w)
             \/ request_shutdown(w) \/ stop(w)
      PROVE  LockInv'
    <2>1. UNCHANGED <<task_runs, run_state, writes>>
        BY <1>2 DEF claim_batch_rejected, start_task, execute, discard_result,
            record_success_rejected, record_failure, block_descendants_done,
            request_shutdown, stop, tables, transactions
    <2> QED
        BY <1>0, <2>1, NoWriteStep
<1>3. ASSUME NEW w \in Workers, claim_commit(w) PROVE LockInv'
    BY <1>0, <1>3, CommitStep DEF claim_commit
<1>4. ASSUME NEW w \in Workers, renew_lease(w) PROVE LockInv'
    <2>1. CASE Owns(w, current[w])
        <3>1. current[w] \in TaskRuns
            BY <1>0, <1>4 DEF renew_lease, TypeInv, JobHasTask
        <3>2. /\ task_runs' = [task_runs EXCEPT ![current[w]] = RenewedRow(@)]
              /\ UNCHANGED <<run_state, writes>>
            BY <1>4, <2>1 DEF renew_lease, transactions
        <3>3. \A x \in TaskRuns : /\ task_runs'[x].state = task_runs[x].state
                                   /\ LeaseOK(task_runs'[x])
            BY <1>0, <1>a, <2>1, <3>1, <3>2, TimeUpdate, RowUpdateLease
            DEF TypeInv, TypeOK, RowLeases, Owns
        <3> QED
            BY <1>0, <3>2, <3>3 DEF LockInv, RowLeases, LocksExclusive,
                LockedIsActive, AbsentTogether, Locked
    <2>2. CASE ~Owns(w, current[w])
        BY <1>0, <1>4, <2>2, NoWriteStep DEF renew_lease, transactions
    <2> QED
        BY <2>1, <2>2
<1>5. ASSUME NEW w \in Workers, record_success(w) PROVE LockInv'
    <2> DEFINE x == current[w]
    <2> DEFINE xs == {x} \cup WaitingChildren(x)
    <2>1. /\ x \in TaskRuns /\ batch[w][x] \in Nat
          /\ task_runs[x].state = "RUNNING"
        BY <1>0, <1>5 DEF record_success, TypeInv, TypeOK, JobHasTask, Owns
    <2>2. /\ xs \in SUBSET TaskRuns /\ Unlocked(w, xs)
          /\ \A y \in xs : task_runs[y].state \in {"PENDING", "RUNNING"}
          /\ \A y \in xs \ {x} : task_runs[y].state = "PENDING"
        BY <1>5, <2>1 DEF record_success, WaitingChildren
    <2>3. /\ writes'[w][x] = SucceededRow(task_runs[x], batch[w][x])
          /\ \A y \in xs \ {x} : writes'[w][y] = UnblockedRow(task_runs[y])
          /\ \A y \in TaskRuns \ xs : writes'[w][y] = writes[w][y]
          /\ \A d \in Clients \ {w} : writes'[d] = writes[d]
        BY <1>b, <1>5, <2>1, <2>2 DEF record_success, Write
    <2>4. \A y \in xs : LeaseOK(writes'[w][y])
        <3>1. LeaseOK(writes'[w][x])
            BY <1>a, <2>1, <2>3, RowUpdateLease
        <3>2. \A y \in xs \ {x} : LeaseOK(writes'[w][y])
            BY <1>0, <1>a, <2>2, <2>3, RowUpdateLease DEF RowLeases
        <3> QED
            BY <3>1, <3>2
    <2>5. UNCHANGED <<task_runs, run_state>>
        BY <1>5 DEF record_success, tables
    <2> HIDE DEF xs, x
    <2> QED
        BY <1>0, <2>2, <2>3, <2>4, <2>5, WriteStep
<1>6. ASSUME NEW w \in Workers, record_failure_retry(w) \/ record_failure_terminal(w)
      PROVE  LockInv'
    <2> DEFINE xs == StillMine(w)
    <2>1. /\ xs \in SUBSET TaskRuns /\ Unlocked(w, xs)
          /\ \A y \in xs : task_runs[y].worker_id = w
        BY <1>0, <1>6 DEF record_failure_retry, record_failure_terminal, StillMine,
            TypeInv, JobHasTask
    <2>2. \A y \in xs : task_runs[y].state = "RUNNING"
        BY <1>0, <2>1, ClientsAssumption DEF RowLeases, LeaseOK
    <2>3. /\ \A y \in xs : \/ writes'[w][y] = RetryRow(task_runs[y])
                            \/ writes'[w][y] = DeadRow(task_runs[y])
          /\ \A y \in TaskRuns \ xs : writes'[w][y] = writes[w][y]
          /\ \A d \in Clients \ {w} : writes'[d] = writes[d]
        BY <1>b, <1>6, <2>1 DEF record_failure_retry, record_failure_terminal, Write
    <2>4. \A y \in xs : LeaseOK(writes'[w][y])
        BY <1>a, <2>1, <2>3, RowUpdateLease
    <2>5. UNCHANGED <<task_runs, run_state>>
        BY <1>6 DEF record_failure_retry, record_failure_terminal, tables
    <2> HIDE DEF xs
    <2> QED
        BY <1>0, <2>1, <2>2, <2>3, <2>4, <2>5, WriteStep
<1>7. ASSUME NEW w \in Workers, block_descendants(w) PROVE LockInv'
    <2> DEFINE xs == BlockableLayer(w)
    <2>1. /\ xs \in SUBSET TaskRuns /\ Unlocked(w, xs)
          /\ \A y \in xs : View(w)[y].state \in {"PENDING", "READY"}
        BY <1>7 DEF block_descendants, BlockableLayer
    <2>2. \A y \in xs : /\ y \in Locked(w) => View(w)[y] = writes[w][y]
                        /\ y \notin Locked(w) => View(w)[y] = task_runs[y]
        BY <2>1 DEF View
    <2>3. /\ \A y \in xs : writes'[w][y] = BlockedRow(View(w)[y])
          /\ \A y \in TaskRuns \ xs : writes'[w][y] = writes[w][y]
          /\ \A d \in Clients \ {w} : writes'[d] = writes[d]
        BY <1>b, <1>7, <2>1 DEF block_descendants, Write
    <2>4. \A y \in xs : LeaseOK(View(w)[y]) /\ View(w)[y] \in TaskRunRow
        BY <1>0, <1>a, <1>b, <2>1, <2>2 DEF RowLeases
    <2>5. \A y \in xs : LeaseOK(writes'[w][y])
        BY <2>1, <2>3, <2>4, RowUpdateLease
    <2>6. UNCHANGED <<task_runs, run_state>>
        BY <1>7 DEF block_descendants, tables
    <2> HIDE DEF xs
    <2> QED
        BY <1>0, <2>1, <2>2, <2>3, <2>5, <2>6, WriteStep
<1>8. ASSUME NEW c \in Clients, refresh_run_state(c) PROVE LockInv'
    BY <1>0, <1>8, NoWriteStep DEF refresh_run_state, tables
<1>9. ASSUME NEW c \in Clients, CommitReport(c) PROVE LockInv'
    <2>1. derived[c] # "ABSENT"
        BY <1>0 DEF TypeInv, TypeOK, RunState
    <2>2. \A r \in Runs : run_state'[r] = "ABSENT" => run_state[r] = "ABSENT"
        BY <1>0, <1>9, <2>1 DEF CommitReport, TypeInv, TypeOK
    <2> QED
        BY <1>0, <1>9, <2>2, CommitStep DEF CommitReport
<1>10. ASSUME NEW c \in Clients, EndTransaction(c), UNCHANGED tables PROVE LockInv'
    BY <1>0, <1>10, RollbackStep DEF tables
<1>11. ASSUME NEW r \in Runs, create_run(r) PROVE LockInv'
    <2>1. \A x \in TaskRuns : /\ x[1] # r => task_runs'[x] = task_runs[x]
                              /\ x[1] = r => task_runs'[x] = CreatedRow(x[2])
        BY <1>11 DEF create_run
    <2>2. UNCHANGED writes /\ run_state[r] = "ABSENT"
          /\ \A q \in Runs : run_state'[q] = IF q = r THEN "PENDING" ELSE run_state[q]
        BY <1>0, <1>11 DEF create_run, transactions, TypeInv, TypeOK
    <2>3. \A x \in TaskRuns : x[1] \in Runs /\ x[2] \in Tasks
        BY DEF TaskRuns
    <2>4. RowLeases'
        BY <1>0, <2>1, <2>2, <2>3, CreatedRowLease DEF RowLeases, LeaseOK
    <2>5. \A c \in Clients : Locked(c)' = Locked(c)
        BY <2>2 DEF Locked
    <2>6. LocksExclusive'
        BY <2>5 DEF LockInv, LocksExclusive
    <2>7. LockedIsActive'
        <3> SUFFICES ASSUME NEW c \in Clients, NEW x \in Locked(c)
                     PROVE  task_runs'[x] = task_runs[x]
            BY <2>5 DEF LockInv, LockedIsActive
        <3>1. x \in TaskRuns /\ task_runs[x].state # "ABSENT"
            BY DEF LockInv, LockedIsActive, Locked
        <3> QED
            BY <2>1, <2>2, <3>1 DEF LockInv, AbsentTogether
    <2>8. AbsentTogether'
        BY <2>1, <2>2, <2>3 DEF LockInv, AbsentTogether
    <2> QED
        BY <1>0, <2>4, <2>6, <2>7, <2>8 DEF LockInv
<1>12. ASSUME NEW r \in Runs, cancel_run(r) PROVE LockInv'
    BY <1>0, <1>12, NoWriteStep DEF cancel_run, tables, transactions
<1>13. ASSUME NEW r \in Runs, cancel(r) PROVE LockInv'
    <2> DEFINE xs == Cancellable(r)
    <2>1. /\ xs \in SUBSET TaskRuns /\ Unlocked(r, xs)
          /\ \A y \in xs : task_runs[y].state \in {"PENDING", "READY", "RUNNING", "RETRYING"}
        BY <1>13 DEF cancel, Cancellable
    <2>2. /\ \A y \in xs : writes'[r][y] = CancelledRow(task_runs[y])
          /\ \A y \in TaskRuns \ xs : writes'[r][y] = writes[r][y]
          /\ \A d \in Clients \ {r} : writes'[d] = writes[d]
        BY <1>b, <1>13, <2>1 DEF cancel, Write
    <2>3. \A y \in xs : LeaseOK(writes'[r][y])
        BY <1>a, <2>1, <2>2, RowUpdateLease
    <2>4. UNCHANGED <<task_runs, run_state>>
        BY <1>13 DEF cancel, tables
    <2> HIDE DEF xs
    <2> QED
        BY <1>0, <2>1, <2>2, <2>3, <2>4, WriteStep
<1>14. ASSUME reap_expired_leases PROVE LockInv'
    <2>1. /\ \A x \in ExpiredLeases : task_runs'[x] = ReapedRow(task_runs[x])
          /\ \A x \in TaskRuns \ ExpiredLeases : task_runs'[x] = task_runs[x]
          /\ ExpiredLeases \subseteq TaskRuns
          /\ \A x \in ExpiredLeases : task_runs[x].state = "RUNNING"
          /\ \A c \in Clients : ExpiredLeases \cap Locked(c) = {}
          /\ UNCHANGED <<run_state, writes>>
        BY <1>14 DEF reap_expired_leases, ExpiredLeases, transactions
    <2>2. \A x \in TaskRuns : LeaseOK(task_runs'[x])
        BY <1>0, <1>a, <2>1, RowUpdateLease DEF RowLeases
    <2> HIDE DEF Clients
    <2>3. \A c \in Clients : Locked(c)' = Locked(c) /\ Locked(c) \subseteq TaskRuns
        BY <2>1 DEF Locked
    <2>4. LockedIsActive'
        BY <2>1, <2>3 DEF LockInv, LockedIsActive
    <2>5. AbsentTogether'
        BY <2>1 DEF LockInv, AbsentTogether
    <2> QED
        BY <1>0, <2>1, <2>2, <2>3, <2>4, <2>5 DEF LockInv, RowLeases, LocksExclusive
<1>15. ASSUME NEW x \in TaskRuns, lease_expires(x) \/ backoff_elapses(x) PROVE LockInv'
    <2>1. UNCHANGED <<run_state, writes>>
        BY <1>15 DEF lease_expires, backoff_elapses, transactions
    <2>2. \A y \in TaskRuns : /\ task_runs'[y].state = task_runs[y].state
                               /\ LeaseOK(task_runs'[y])
        <3>1. CASE lease_expires(x)
            BY <1>0, <1>a, <3>1, TimeUpdate, RowUpdateLease
            DEF lease_expires, TypeInv, TypeOK, RowLeases
        <3>2. CASE backoff_elapses(x)
            BY <1>0, <1>a, <3>2, TimeUpdate, RowUpdateLease
            DEF backoff_elapses, TypeInv, TypeOK, RowLeases
        <3> QED
            BY <1>15, <3>1, <3>2
    <2> QED
        BY <1>0, <2>1, <2>2 DEF LockInv, RowLeases, LocksExclusive,
            LockedIsActive, AbsentTogether, Locked
<1>16. ASSUME UNCHANGED vars PROVE LockInv'
    BY <1>0, <1>16, NoWriteStep DEF vars, tables, transactions
<1>17. ASSUME NEW w \in Workers, report_commit(w) PROVE LockInv'
    BY <1>9, <1>17 DEF report_commit
<1>18. ASSUME NEW r \in Runs, cancel_commit(r) PROVE LockInv'
    BY <1>9, <1>18 DEF cancel_commit
<1>19. ASSUME NEW w \in Workers, crash(w) PROVE LockInv'
    BY <1>10, <1>19 DEF crash
<1>20. ASSUME NEW r \in Runs, cancel_abort(r) PROVE LockInv'
    BY <1>10, <1>20 DEF cancel_abort
<1> QED
    BY <1>1, <1>2, <1>3, <1>4, <1>5, <1>6, <1>7, <1>8, <1>11, <1>12, <1>13,
       <1>14, <1>15, <1>16, <1>17, <1>18, <1>19, <1>20
    DEF Next, WorkerStep, WorkerEvent, CancelStep, ClientEvent

\* The initial state satisfies the invariant: nothing is created, nothing locked.
LEMMA LockInit == Init => LockInv
<1> SUFFICES ASSUME Init PROVE LockInv
    OBVIOUS
<1>1. TypeInv
    BY AbsentRowType
    DEF Init, TypeInv, TypeOK, JobHasTask, NoWrites, RunState, Pcs, Clients
<1>2. \A c \in Clients : Locked(c) = {}
    BY DEF Init, Locked, NoWrites
<1>3. RowLeases /\ AbsentTogether
    BY AbsentRowLease DEF Init, RowLeases, AbsentTogether, NoWrites, AbsentRow
<1> QED
    BY <1>1, <1>2, <1>3 DEF LockInv, LocksExclusive, LockedIsActive

\* ck_task_runs_lease_iff_running is kept by the transactions themselves: no
\* interleaving of claims, reports, renewals, sweeps, cancellations and crashes
\* makes a row RUNNING without an owner and a lease, or leaves either behind.
THEOREM LeaseCorrect == Spec => []LeaseIffRunning
<1>1. LockInv => LeaseIffRunning
    BY DEF LockInv, RowLeases, LeaseOK, LeaseIffRunning
<1> QED
    BY <1>1, LockInit, LockStep, PTL DEF Spec

-----------------------------------------------------------------------------
(* Terminal task states.                                                   *)

\* A row that is not active changes neither state nor output, except that the
\* rows of a run appear when the run is created.
LEMMA InactiveIsStable ==
    ASSUME LockInv, [Next]_vars, NEW x \in TaskRuns,
           task_runs[x].state \notin ActiveTaskStates,
           run_state[x[1]] # "ABSENT"
    PROVE  /\ task_runs'[x].state = task_runs[x].state
           /\ task_runs'[x].output = task_runs[x].output
<1> DEFINE Same == /\ task_runs'[x].state = task_runs[x].state
                   /\ task_runs'[x].output = task_runs[x].output
<1> USE DEF Clients
<1>1. \A c \in Clients : x \notin Locked(c)
    BY DEF LockInv, LockedIsActive, ActiveTaskStates
<1>2. task_runs \in [TaskRuns -> TaskRunRow]
    BY DEF LockInv, TypeInv, TypeOK
<1>3. ASSUME NEW c \in Clients, Commit(c) PROVE Same
    BY <1>1, <1>3 DEF Commit, View
<1>4. ASSUME UNCHANGED task_runs PROVE Same
    BY <1>4
<1>5. ASSUME NEW w \in Workers, WorkerStep(w) PROVE Same
    <2>1. CASE claim_commit(w) \/ report_commit(w)
        BY <1>3, <2>1 DEF claim_commit, report_commit, CommitReport
    <2>2. CASE ~(claim_commit(w) \/ report_commit(w))
        <3>1. UNCHANGED task_runs
            BY <1>5, <2>2 DEF WorkerStep, claim_batch, claim_batch_rejected,
                start_task, execute, discard_result, record_success,
                record_success_rejected, record_failure, record_failure_retry,
                record_failure_terminal, block_descendants, block_descendants_done,
                refresh_run_state, stop, tables
        <3> QED
            BY <1>4, <3>1
    <2> QED
        BY <2>1, <2>2
<1>6. ASSUME NEW w \in Workers, WorkerEvent(w) PROVE Same
    <2>1. CASE renew_lease(w)
        BY <1>2, <2>1, TimeUpdate DEF renew_lease
    <2>2. CASE crash(w) \/ request_shutdown(w)
        BY <1>4, <2>2 DEF crash, request_shutdown, tables
    <2> QED
        BY <1>6, <2>1, <2>2 DEF WorkerEvent
<1>7. ASSUME NEW r \in Runs, CancelStep(r) PROVE Same
    <2>1. CASE cancel_commit(r)
        BY <1>3, <2>1 DEF cancel_commit, CommitReport
    <2>2. CASE cancel(r) \/ refresh_run_state(r)
        BY <1>4, <2>2 DEF cancel, refresh_run_state, tables
    <2> QED
        BY <1>7, <2>1, <2>2 DEF CancelStep
<1>8. ASSUME NEW r \in Runs, ClientEvent(r) PROVE Same
    <2>1. CASE create_run(r)
        BY <2>1 DEF create_run
    <2>2. CASE cancel_run(r) \/ cancel_abort(r)
        BY <1>4, <2>2 DEF cancel_run, cancel_abort, tables
    <2> QED
        BY <1>8, <2>1, <2>2 DEF ClientEvent
<1>9. ASSUME reap_expired_leases PROVE Same
    BY <1>9 DEF reap_expired_leases, ExpiredLeases, ActiveTaskStates
<1>10. ASSUME NEW y \in TaskRuns, lease_expires(y) \/ backoff_elapses(y) PROVE Same
    <2>1. CASE lease_expires(y)
        BY <1>2, <2>1, TimeUpdate DEF lease_expires
    <2>2. CASE backoff_elapses(y)
        BY <1>2, <2>2, TimeUpdate DEF backoff_elapses
    <2> QED
        BY <1>10, <2>1, <2>2
<1>11. ASSUME UNCHANGED vars PROVE Same
    BY <1>4, <1>11 DEF vars, tables
<1> QED
    BY <1>5, <1>6, <1>7, <1>8, <1>9, <1>10, <1>11 DEF Next

\* Exactly-once effects: once a task is terminal in the database, no zombie
\* report, retry, sweep or cancellation changes its state or its output. The
\* worker_id and state predicates and the row locks together make it so.
THEOREM TerminalFinal == Spec => TerminalIsFinal
<1>1. LockInv /\ [Next]_vars =>
        [\A x \in TaskRuns :
            task_runs[x].state \in TerminalTaskStates =>
                /\ task_runs'[x].state = task_runs[x].state
                /\ task_runs'[x].output = task_runs[x].output]_vars
    <2> SUFFICES ASSUME LockInv, [Next]_vars, NEW x \in TaskRuns,
                        task_runs[x].state \in TerminalTaskStates
                 PROVE  /\ task_runs'[x].state = task_runs[x].state
                        /\ task_runs'[x].output = task_runs[x].output
        OBVIOUS
    <2>1. task_runs[x].state \notin ActiveTaskStates
        BY DEF TerminalTaskStates, ActiveTaskStates
    <2>2. run_state[x[1]] # "ABSENT"
        BY DEF LockInv, AbsentTogether, TerminalTaskStates
    <2> QED
        BY <2>1, <2>2, InactiveIsStable
<1> QED
    BY <1>1, LockInit, LockStep, PTL DEF Spec, TerminalIsFinal

-----------------------------------------------------------------------------
(* The cached state of a finished run.                                     *)

\* A terminal state a transaction is about to write is still what its own view
\* of the rows says, however long ago it read them.
DerivedIsSound ==
    \A c \in Clients :
        pc[c] = "committing" /\ derived[c] \in TerminalRunStates =>
            derived[c] = derive_run_state(StatesIn(View(c), RunOf(c)))

RunInv == LockInv /\ DerivedIsSound /\ TerminalRunIsTrue

\* derive_run_state calls a run terminal only if it has rows and none is active.
LEMMA DeriveTerminal ==
    ASSUME NEW S, derive_run_state(S) \in TerminalRunStates
    PROVE  S # {} /\ S \cap ActiveTaskStates = {}
    BY DEF derive_run_state, TerminalRunStates, ActiveTaskStates, NotYetStarted

\* StatesIn depends on nothing but the states of the run's rows.
LEMMA StatesInSame ==
    ASSUME NEW f, NEW g, NEW r,
           \A x \in TaskRuns : x[1] = r => f[x].state = g[x].state
    PROVE  StatesIn(f, r) = StatesIn(g, r)
    BY DEF StatesIn

\* If the rows of r that c sees derive to a terminal state, none is active and r
\* has been created.
LEMMA ViewTerminal ==
    ASSUME LockInv, NEW c \in Clients, NEW r,
           derive_run_state(StatesIn(View(c), r)) \in TerminalRunStates
    PROVE  /\ \A x \in TaskRuns : x[1] = r => View(c)[x].state \notin ActiveTaskStates
           /\ run_state[r] # "ABSENT"
<1>1. /\ StatesIn(View(c), r) # {}
      /\ StatesIn(View(c), r) \cap ActiveTaskStates = {}
    BY DeriveTerminal
<1>2. \A x \in TaskRuns : x[1] = r => View(c)[x].state \notin ActiveTaskStates
    BY <1>1 DEF StatesIn, ActiveTaskStates
<1>3. PICK x \in TaskRuns : x[1] = r /\ View(c)[x].state # "ABSENT"
    BY <1>1 DEF StatesIn
<1>4. task_runs[x].state # "ABSENT"
    BY <1>3 DEF View, LockInv, LockedIsActive
<1> QED
    BY <1>2, <1>3, <1>4 DEF LockInv, AbsentTogether

\* A client that is about to commit has just read the rows, or nothing of its
\* transaction changed.
LEMMA CommittingFrame ==
    ASSUME LockInv, [Next]_vars, NEW c \in Clients, pc'[c] = "committing"
    PROVE  \/ refresh_run_state(c)
           \/ /\ pc[c] = "committing"
              /\ writes'[c] = writes[c]
              /\ derived'[c] = derived[c]
              /\ RunOf(c)' = RunOf(c)
<1> DEFINE Frame == /\ pc[c] = "committing"
                    /\ writes'[c] = writes[c]
                    /\ derived'[c] = derived[c]
                    /\ RunOf(c)' = RunOf(c)
<1> USE DEF Clients, RunOf
<1>0. /\ pc \in [Clients -> Pcs] /\ DOMAIN writes = Clients
      /\ DOMAIN derived = Clients /\ DOMAIN current = Workers
    BY DEF LockInv, TypeInv, TypeOK
<1>1. ASSUME NEW w \in Workers, WorkerStep(w), ~refresh_run_state(c) PROVE Frame
    <2>1. CASE claim_batch(w) \/ claim_batch_rejected(w) \/ claim_commit(w)
        BY <1>0, <2>1, ClientsAssumption DEF claim_batch, claim_batch_rejected,
            claim_commit, Commit, EndTransaction, Write, job, transactions
    <2>2. CASE start_task(w) \/ execute(w) \/ discard_result(w)
        BY <1>0, <2>2, ClientsAssumption DEF start_task, execute, discard_result,
            TaskDone, ClearJob, job, transactions
    <2>3. CASE record_success(w) \/ record_success_rejected(w)
        BY <1>0, <2>3, ClientsAssumption DEF record_success,
            record_success_rejected, Write, job, transactions
    <2>4. CASE record_failure(w) \/ record_failure_retry(w) \/ record_failure_terminal(w)
        BY <1>0, <2>4, ClientsAssumption DEF record_failure, record_failure_retry,
            record_failure_terminal, Write, job, transactions
    <2>5. CASE block_descendants(w) \/ block_descendants_done(w)
        BY <1>0, <2>5, ClientsAssumption DEF block_descendants,
            block_descendants_done, Write, transactions
    <2>6. CASE refresh_run_state(w)
        BY <1>0, <1>1, <2>6, ClientsAssumption DEF refresh_run_state, job
    <2>7. CASE report_commit(w)
        BY <1>0, <2>7, ClientsAssumption DEF report_commit, CommitReport, Commit,
            EndTransaction, TaskDone, ClearJob
    <2>8. CASE stop(w)
        BY <1>0, <2>8, ClientsAssumption DEF stop, job, transactions
    <2> QED
        BY <1>1, <2>1, <2>2, <2>3, <2>4, <2>5, <2>6, <2>7, <2>8 DEF WorkerStep
<1>2. ASSUME NEW w \in Workers, WorkerEvent(w) PROVE Frame
    <2>1. CASE renew_lease(w) \/ request_shutdown(w)
        BY <2>1 DEF renew_lease, request_shutdown, job, transactions
    <2>2. CASE crash(w)
        BY <1>0, <2>2, ClientsAssumption DEF crash, EndTransaction, ClearJob
    <2> QED
        BY <1>2, <2>1, <2>2 DEF WorkerEvent
<1>3. ASSUME NEW r \in Runs, CancelStep(r), ~refresh_run_state(c) PROVE Frame
    <2>1. CASE cancel(r)
        BY <1>0, <2>1, ClientsAssumption DEF cancel, Write, job
    <2>2. CASE refresh_run_state(r)
        BY <1>0, <1>3, <2>2, ClientsAssumption DEF refresh_run_state, job
    <2>3. CASE cancel_commit(r)
        BY <1>0, <2>3, ClientsAssumption DEF cancel_commit, CommitReport, Commit,
            EndTransaction, job
    <2> QED
        BY <1>3, <2>1, <2>2, <2>3 DEF CancelStep
<1>4. ASSUME NEW r \in Runs, ClientEvent(r) PROVE Frame
    <2>1. CASE create_run(r)
        BY <2>1 DEF create_run, transactions, process, job
    <2>2. CASE cancel_run(r) \/ cancel_abort(r)
        BY <1>0, <2>2, ClientsAssumption DEF cancel_run, cancel_abort,
            EndTransaction, transactions, job
    <2> QED
        BY <1>4, <2>1, <2>2 DEF ClientEvent
<1>5. ASSUME reap_expired_leases PROVE Frame
    BY <1>5 DEF reap_expired_leases, transactions, process, job
<1>6. ASSUME NEW x \in TaskRuns, lease_expires(x) \/ backoff_elapses(x) PROVE Frame
    BY <1>6 DEF lease_expires, backoff_elapses, transactions, process, job
<1>7. ASSUME UNCHANGED vars PROVE Frame
    BY <1>7 DEF vars, transactions, process, job
<1> QED
    BY <1>1, <1>2, <1>3, <1>4, <1>5, <1>6, <1>7 DEF Next

\* A cached run state changes by creation or by the commit of a report.
LEMMA RunStateFrame ==
    ASSUME LockInv, [Next]_vars, NEW r \in Runs
    PROVE  \/ run_state'[r] = run_state[r]
           \/ run_state'[r] = "PENDING"
           \/ \E c \in Clients : /\ CommitReport(c)
                                 /\ RunOf(c) = r
                                 /\ run_state'[r] = derived[c]
<1> DEFINE Frame == \/ run_state'[r] = run_state[r]
                    \/ run_state'[r] = "PENDING"
                    \/ \E c \in Clients : /\ CommitReport(c)
                                          /\ RunOf(c) = r
                                          /\ run_state'[r] = derived[c]
<1>0. DOMAIN run_state = Runs
    BY DEF LockInv, TypeInv, TypeOK
<1> USE DEF Clients
<1>1. ASSUME NEW c \in Clients, CommitReport(c) PROVE Frame
    BY <1>0, <1>1 DEF CommitReport
<1>2. ASSUME NEW w \in Workers, WorkerStep(w) \/ WorkerEvent(w) PROVE Frame
    <2>1. CASE report_commit(w)
        BY <1>1, <2>1 DEF report_commit
    <2>2. CASE ~report_commit(w)
        <3>1. UNCHANGED run_state
            BY <1>2, <2>2 DEF WorkerStep, WorkerEvent, claim_batch,
                claim_batch_rejected, claim_commit, start_task, execute,
                discard_result, record_success, record_success_rejected,
                record_failure, record_failure_retry, record_failure_terminal,
                block_descendants, block_descendants_done, refresh_run_state,
                stop, renew_lease, crash, request_shutdown, tables
        <3> QED
            BY <3>1
    <2> QED
        BY <2>1, <2>2
<1>3. ASSUME NEW q \in Runs, CancelStep(q) \/ ClientEvent(q) PROVE Frame
    <2>1. CASE cancel_commit(q)
        BY <1>1, <2>1 DEF cancel_commit
    <2>2. CASE create_run(q)
        BY <1>0, <2>2 DEF create_run
    <2>3. CASE ~cancel_commit(q) /\ ~create_run(q)
        BY <1>3, <2>3 DEF CancelStep, ClientEvent, cancel, refresh_run_state,
            cancel_run, cancel_abort, tables
    <2> QED
        BY <2>1, <2>2, <2>3
<1>4. ASSUME \/ reap_expired_leases
             \/ \E x \in TaskRuns : lease_expires(x) \/ backoff_elapses(x)
             \/ UNCHANGED vars
      PROVE  Frame
    BY <1>4 DEF reap_expired_leases, lease_expires, backoff_elapses, vars, tables
<1> QED
    BY <1>2, <1>3, <1>4 DEF Next

\* Every action preserves the invariant about finished runs.
LEMMA RunStep == RunInv /\ [Next]_vars => RunInv'
<1> SUFFICES ASSUME RunInv, [Next]_vars PROVE RunInv'
    OBVIOUS
<1>0. LockInv /\ LockInv'
    BY LockStep DEF RunInv
<1>1. DerivedIsSound'
    <2> SUFFICES ASSUME NEW c \in Clients, pc'[c] = "committing",
                        derived'[c] \in TerminalRunStates
                 PROVE  derived'[c] = derive_run_state(StatesIn(View(c)', RunOf(c)'))
        BY DEF DerivedIsSound, StatesIn
    <2>1. CASE refresh_run_state(c)
        <3>1. View(c)' = View(c) /\ RunOf(c)' = RunOf(c)
            BY <2>1 DEF refresh_run_state, View, Locked, RunOf, tables, job
        <3>2. derived'[c] = derive_run_state(StatesIn(View(c), RunOf(c)))
            BY <1>0, <2>1 DEF refresh_run_state, LockInv, TypeInv, TypeOK
        <3> QED
            BY <3>1, <3>2
    <2>2. CASE ~refresh_run_state(c)
        <3>1. /\ pc[c] = "committing" /\ writes'[c] = writes[c]
              /\ derived'[c] = derived[c] /\ RunOf(c)' = RunOf(c)
            BY <1>0, <2>2, CommittingFrame
        <3>2. derived[c] = derive_run_state(StatesIn(View(c), RunOf(c)))
            BY <3>1 DEF RunInv, DerivedIsSound
        <3>3. /\ \A x \in TaskRuns :
                    x[1] = RunOf(c) => View(c)[x].state \notin ActiveTaskStates
              /\ run_state[RunOf(c)] # "ABSENT"
            BY <1>0, <3>1, <3>2, ViewTerminal
        <3>4. \A x \in TaskRuns : x[1] = RunOf(c) => View(c)'[x].state = View(c)[x].state
            <4> SUFFICES ASSUME NEW x \in TaskRuns, x[1] = RunOf(c)
                         PROVE  View(c)'[x].state = View(c)[x].state
                OBVIOUS
            <4>1. Locked(c)' = Locked(c)
                BY <3>1 DEF Locked
            <4>2. CASE x \in Locked(c)
                BY <3>1, <4>1, <4>2 DEF View
            <4>3. CASE x \notin Locked(c)
                <5>1. View(c)[x] = task_runs[x] /\ View(c)'[x] = task_runs'[x]
                    BY <4>1, <4>3 DEF View
                <5>2. task_runs'[x].state = task_runs[x].state
                    BY <1>0, <3>3, <5>1, InactiveIsStable
                <5> QED
                    BY <5>1, <5>2
            <4> QED
                BY <4>2, <4>3
        <3>5. StatesIn(View(c)', RunOf(c)) = StatesIn(View(c), RunOf(c))
            BY <3>4, StatesInSame
        <3> QED
            BY <3>1, <3>2, <3>5
    <2> QED
        BY <2>1, <2>2
<1>2. TerminalRunIsTrue'
    <2> SUFFICES ASSUME NEW r \in Runs, run_state'[r] \in TerminalRunStates
                 PROVE  run_state'[r] = derive_run_state(StatesIn(task_runs', r))
        BY DEF TerminalRunIsTrue, StatesIn
    <2>1. ASSUME NEW c \in Clients, CommitReport(c), RunOf(c) = r,
                 run_state'[r] = derived[c]
          PROVE  run_state'[r] = derive_run_state(StatesIn(task_runs', r))
        <3>1. pc[c] = "committing" /\ task_runs' = View(c)
            BY <2>1 DEF CommitReport, Commit
        <3> QED
            BY <2>1, <3>1 DEF RunInv, DerivedIsSound
    <2>2. CASE run_state'[r] = run_state[r]
        <3>1. run_state[r] = derive_run_state(StatesIn(task_runs, r))
            BY <2>2 DEF RunInv, TerminalRunIsTrue
        <3>2. StatesIn(task_runs, r) \cap ActiveTaskStates = {}
            BY <2>2, <3>1, DeriveTerminal
        <3>3. \A x \in TaskRuns : x[1] = r => task_runs[x].state \notin ActiveTaskStates
            BY <3>2 DEF StatesIn, ActiveTaskStates
        <3>4. \A x \in TaskRuns : x[1] = r => task_runs'[x].state = task_runs[x].state
            BY <1>0, <2>2, <3>3, InactiveIsStable DEF TerminalRunStates
        <3>5. StatesIn(task_runs', r) = StatesIn(task_runs, r)
            BY <3>4, StatesInSame
        <3> QED
            BY <2>2, <3>1, <3>5
    <2> QED
        BY <1>0, <2>1, <2>2, RunStateFrame DEF TerminalRunStates
<1> QED
    BY <1>0, <1>1, <1>2 DEF RunInv

\* A run is never reported complete while a task row says otherwise, and never
\* with the wrong outcome: although refreshes race and the last one wins, a stale
\* refresh can only write a terminal state that is still true.
THEOREM FinishedRunTrue == Spec => []TerminalRunIsTrue
<1>1. Init => RunInv
    BY LockInit DEF RunInv, Init, DerivedIsSound, TerminalRunIsTrue, TerminalRunStates
<1>2. RunInv => TerminalRunIsTrue
    BY DEF RunInv
<1> QED
    BY <1>1, <1>2, RunStep, PTL DEF Spec
=============================================================================
