-------------------------- MODULE TaskHistoryProofs --------------------------
(***************************************************************************)
(* Who may report what, and what the attempt rows tell: the invariants     *)
(* that tie a row's owner to the batch the owner holds, an uncommitted row *)
(* to the committed one it will replace, and task_attempts to task_runs.   *)
(***************************************************************************)
EXTENDS TaskQueueProofs

-----------------------------------------------------------------------------
(* What a step does to the tables, and to the transaction of one client.   *)

\* The columns no clock and no heartbeat touches.
SameRow(old, new) ==
    /\ new.state = old.state
    /\ new.pending_deps = old.pending_deps
    /\ new.attempt = old.attempt
    /\ new.worker_id = old.worker_id
    /\ new.output = old.output

\* A step that changes no row but for leases and due times.
Quiet ==
    /\ task_attempts' = task_attempts
    /\ \A x \in TaskRuns : SameRow(task_runs[x], task_runs'[x])

\* A renewal and the clock leave those columns alone.
LEMMA TimeUpdateSame ==
    ASSUME NEW row \in TaskRunRow
    PROVE  /\ SameRow(row, RenewedRow(row))
           /\ SameRow(row, ExpiredRow(row))
           /\ SameRow(row, DueRow(row))
    BY DEF SameRow, RenewedRow, ExpiredRow, DueRow, TaskRunRow

\* The tables change by a commit, a sweep or the creation of a run, or not at all.
LEMMA TableStep ==
    ASSUME LockInv, [Next]_vars
    PROVE  \/ Quiet
           \/ reap_expired_leases
           \/ \E w \in Workers : claim_commit(w) \/ report_commit(w)
           \/ \E r \in Runs : create_run(r) \/ cancel_commit(r)
<1>0. task_runs \in [TaskRuns -> TaskRunRow]
    BY DEF LockInv, TypeInv, TypeOK
<1>1. ASSUME UNCHANGED <<task_runs, task_attempts>> PROVE Quiet
    BY <1>1 DEF Quiet, SameRow
<1>2. ASSUME NEW w \in Workers, WorkerStep(w)
      PROVE  Quiet \/ claim_commit(w) \/ report_commit(w)
    <2>1. CASE claim_commit(w) \/ report_commit(w)
        BY <2>1
    <2>2. CASE ~(claim_commit(w) \/ report_commit(w))
        <3>1. UNCHANGED <<task_runs, task_attempts>>
            BY <1>2, <2>2 DEF WorkerStep, claim_batch, claim_batch_rejected,
                start_task, execute, discard_result, record_success,
                record_success_rejected, record_failure, record_failure_retry,
                record_failure_terminal, block_descendants, block_descendants_done,
                refresh_run_state, stop, tables
        <3> QED
            BY <1>1, <3>1
    <2> QED
        BY <2>1, <2>2
<1>3. ASSUME NEW w \in Workers, WorkerEvent(w) PROVE Quiet
    <2>1. CASE renew_lease(w)
        <3>1. CASE UNCHANGED task_runs
            BY <1>1, <2>1, <3>1 DEF renew_lease
        <3>2. CASE ~UNCHANGED task_runs
            <4>1. /\ task_runs' = [task_runs EXCEPT ![current[w]] = RenewedRow(@)]
                  /\ task_attempts' = task_attempts
                BY <2>1, <3>2 DEF renew_lease
            <4>2. \A x \in TaskRuns : SameRow(task_runs[x], task_runs'[x])
                BY <1>0, <4>1, TimeUpdateSame DEF SameRow
            <4> QED
                BY <4>1, <4>2 DEF Quiet
        <3> QED
            BY <3>1, <3>2
    <2>2. CASE crash(w) \/ request_shutdown(w)
        BY <1>1, <2>2 DEF crash, request_shutdown, tables
    <2> QED
        BY <1>3, <2>1, <2>2 DEF WorkerEvent
<1>4. ASSUME NEW r \in Runs, CancelStep(r) \/ ClientEvent(r)
      PROVE  Quiet \/ create_run(r) \/ cancel_commit(r)
    BY <1>1, <1>4 DEF CancelStep, ClientEvent, cancel, refresh_run_state,
        cancel_run, cancel_abort, tables
<1>5. ASSUME NEW x \in TaskRuns, lease_expires(x) \/ backoff_elapses(x) PROVE Quiet
    <2>1. CASE lease_expires(x)
        BY <1>0, <2>1, TimeUpdateSame DEF lease_expires, Quiet, SameRow
    <2>2. CASE backoff_elapses(x)
        BY <1>0, <2>2, TimeUpdateSame DEF backoff_elapses, Quiet, SameRow
    <2> QED
        BY <1>5, <2>1, <2>2
<1>6. ASSUME UNCHANGED vars PROVE Quiet
    BY <1>1, <1>6 DEF vars, tables
<1> QED
    BY <1>2, <1>3, <1>4, <1>5, <1>6 DEF Next

\* The ways one row changes, whatever the other rows do.
RowCreated(x) ==
    /\ run_state[x[1]] = "ABSENT" /\ run_state'[x[1]] # "ABSENT"
    /\ task_runs'[x] = CreatedRow(x[2])

RowReaped(x) ==
    /\ reap_expired_leases
    /\ task_runs[x].state = "RUNNING"
    /\ \A c \in Clients : x \notin Locked(c)
    /\ task_runs'[x] = ReapedRow(task_runs[x])

RowCommitted(c, x) ==
    /\ pc[c] \in {"claiming", "committing"}
    /\ pc'[c] \notin {"claiming", "committing"}
    /\ x \in Locked(c)
    /\ task_runs'[x] = writes[c][x]
    /\ Locked(c)' = {}

\* A row keeps its columns, or is created, swept, or committed by who locked it.
LEMMA RowStep ==
    ASSUME LockInv, [Next]_vars, NEW x \in TaskRuns
    PROVE  \/ SameRow(task_runs[x], task_runs'[x])
           \/ RowCreated(x)
           \/ RowReaped(x)
           \/ \E c \in Clients : RowCommitted(c, x)
<1> DEFINE Goal == \/ SameRow(task_runs[x], task_runs'[x])
                   \/ RowCreated(x)
                   \/ RowReaped(x)
                   \/ \E c \in Clients : RowCommitted(c, x)
<1>0. /\ task_runs \in [TaskRuns -> TaskRunRow]
      /\ run_state \in [Runs -> RunState \cup {"ABSENT"}]
      /\ pc \in [Clients -> Pcs]
      /\ writes \in [Clients -> [TaskRuns -> TaskRunRow]]
    BY DEF LockInv, TypeInv, TypeOK
<1>1. ASSUME NEW c \in Clients, Commit(c), pc[c] \in {"claiming", "committing"},
             pc'[c] \notin {"claiming", "committing"}
      PROVE  Goal
    <2>1. CASE x \in Locked(c)
        <3>1. Locked(c)' = {}
            BY <1>0, <1>1 DEF Commit, EndTransaction, Locked, NoWrites
        <3>2. task_runs'[x] = writes[c][x]
            BY <1>1, <2>1 DEF Commit, View
        <3> QED
            BY <1>1, <2>1, <3>1, <3>2 DEF RowCommitted
    <2>2. CASE x \notin Locked(c)
        BY <1>1, <2>2 DEF Commit, View, SameRow
    <2> QED
        BY <2>1, <2>2
<1>2. ASSUME NEW w \in Workers, claim_commit(w) \/ report_commit(w) PROVE Goal
    BY <1>0, <1>1, <1>2 DEF claim_commit, report_commit, CommitReport, TaskDone, Clients
<1>3. ASSUME NEW r \in Runs, create_run(r) \/ cancel_commit(r) PROVE Goal
    <2>1. CASE create_run(r)
        BY <1>0, <2>1 DEF create_run, RowCreated, SameRow
    <2>2. CASE cancel_commit(r)
        BY <1>0, <1>1, <2>2 DEF cancel_commit, CommitReport, Clients
    <2> QED
        BY <1>3, <2>1, <2>2
<1>4. ASSUME reap_expired_leases PROVE Goal
    BY <1>4 DEF reap_expired_leases, RowReaped, ExpiredLeases, SameRow
<1> QED
    BY <1>2, <1>3, <1>4, TableStep DEF Quiet

\* Nobody else changes a row that c has locked.
LEMMA LockedRowStep ==
    ASSUME LockInv, [Next]_vars, NEW c \in Clients, NEW x \in Locked(c),
           ~RowCommitted(c, x)
    PROVE  SameRow(task_runs[x], task_runs'[x])
<1>1. x \in TaskRuns /\ task_runs[x].state # "ABSENT"
    BY DEF Locked, LockInv, LockedIsActive
<1>2. ~RowCreated(x)
    BY <1>1 DEF RowCreated, LockInv, AbsentTogether
<1>3. ~RowReaped(x)
    BY DEF RowReaped
<1>4. \A d \in Clients \ {c} : ~RowCommitted(d, x)
    BY DEF RowCommitted, LockInv, LocksExclusive
<1> QED
    BY <1>1, <1>2, <1>3, <1>4, RowStep

\* The variables of a worker's transaction and of its _execute.
WorkerIdle(w) ==
    /\ pc'[w] = pc[w]
    /\ writes'[w] = writes[w]
    /\ attempt_writes'[w] = attempt_writes[w]
    /\ batch'[w] = batch[w]
    /\ current'[w] = current[w]
    /\ lost'[w] = lost[w]
    /\ seen'[w] = seen[w]
    /\ frontier'[w] = frontier[w]

RequestIdle(r) ==
    /\ pc'[r] = pc[r]
    /\ writes'[r] = writes[r]
    /\ attempt_writes'[r] = attempt_writes[r]

\* A worker's transaction and local variables change by its own steps only.
LEMMA WorkerFrame ==
    ASSUME TypeInv, [Next]_vars, NEW w \in Workers
    PROVE  WorkerStep(w) \/ WorkerEvent(w) \/ WorkerIdle(w)
<1>0. /\ DOMAIN pc = Clients /\ DOMAIN writes = Clients /\ DOMAIN attempt_writes = Clients
      /\ DOMAIN batch = Workers /\ DOMAIN current = Workers /\ DOMAIN lost = Workers
      /\ DOMAIN seen = Workers /\ DOMAIN frontier = Workers
    BY DEF TypeInv, TypeOK
<1> USE <1>0, ClientsAssumption DEF Clients, WorkerIdle, job
<1>1. ASSUME NEW v \in Workers, v # w, WorkerStep(v) PROVE WorkerIdle(w)
    <2>1. CASE claim_batch(v) \/ claim_batch_rejected(v) \/ claim_commit(v)
        BY <1>1, <2>1 DEF claim_batch, claim_batch_rejected, claim_commit, Commit,
            EndTransaction, Write, transactions
    <2>2. CASE start_task(v) \/ execute(v) \/ discard_result(v)
        BY <1>1, <2>2 DEF start_task, execute, discard_result, TaskDone, ClearJob,
            transactions
    <2>3. CASE record_success(v) \/ record_success_rejected(v)
        BY <1>1, <2>3 DEF record_success, record_success_rejected, Write, transactions
    <2>4. CASE record_failure(v) \/ record_failure_retry(v) \/ record_failure_terminal(v)
        BY <1>1, <2>4 DEF record_failure, record_failure_retry,
            record_failure_terminal, Write, transactions
    <2>5. CASE block_descendants(v) \/ block_descendants_done(v)
        BY <1>1, <2>5 DEF block_descendants, block_descendants_done, Write, transactions
    <2>6. CASE refresh_run_state(v) \/ stop(v)
        BY <1>1, <2>6 DEF refresh_run_state, stop, transactions
    <2>7. CASE report_commit(v)
        BY <1>1, <2>7 DEF report_commit, CommitReport, Commit, EndTransaction,
            TaskDone, ClearJob
    <2> QED
        BY <1>1, <2>1, <2>2, <2>3, <2>4, <2>5, <2>6, <2>7 DEF WorkerStep
<1>2. ASSUME NEW v \in Workers, v # w, WorkerEvent(v) PROVE WorkerIdle(w)
    BY <1>2 DEF WorkerEvent, renew_lease, request_shutdown, crash, EndTransaction,
        ClearJob, transactions
<1>3. ASSUME NEW r \in Runs, CancelStep(r) \/ ClientEvent(r) PROVE WorkerIdle(w)
    <2>0. r # w
        OBVIOUS
    <2>1. CASE cancel(r) \/ refresh_run_state(r)
        BY <2>0, <2>1 DEF cancel, refresh_run_state, Write
    <2>2. CASE cancel_commit(r)
        BY <2>0, <2>2 DEF cancel_commit, CommitReport, Commit, EndTransaction
    <2>3. CASE ClientEvent(r)
        BY <2>0, <2>3 DEF ClientEvent, create_run, cancel_run, cancel_abort,
            EndTransaction, transactions, process
    <2> QED
        BY <1>3, <2>1, <2>2, <2>3 DEF CancelStep
<1>4. ASSUME \/ reap_expired_leases
             \/ \E x \in TaskRuns : lease_expires(x) \/ backoff_elapses(x)
             \/ UNCHANGED vars
      PROVE  WorkerIdle(w)
    BY <1>4 DEF reap_expired_leases, lease_expires, backoff_elapses, vars,
        transactions, process
<1> QED
    BY <1>1, <1>2, <1>3, <1>4 DEF Next

\* A cancel request's transaction changes by the request's own steps only.
LEMMA RequestFrame ==
    ASSUME TypeInv, [Next]_vars, NEW r \in Runs
    PROVE  CancelStep(r) \/ ClientEvent(r) \/ RequestIdle(r)
<1>0. DOMAIN pc = Clients /\ DOMAIN writes = Clients /\ DOMAIN attempt_writes = Clients
    BY DEF TypeInv, TypeOK
<1> USE <1>0, ClientsAssumption DEF Clients, RequestIdle
<1>1. ASSUME NEW w \in Workers, WorkerStep(w) PROVE RequestIdle(r)
    <2>0. r # w
        OBVIOUS
    <2>1. CASE claim_batch(w) \/ claim_batch_rejected(w) \/ claim_commit(w)
        BY <2>0, <2>1 DEF claim_batch, claim_batch_rejected, claim_commit, Commit,
            EndTransaction, Write, transactions
    <2>2. CASE start_task(w) \/ execute(w) \/ discard_result(w)
        BY <2>0, <2>2 DEF start_task, execute, discard_result, TaskDone, transactions
    <2>3. CASE record_success(w) \/ record_success_rejected(w)
        BY <2>0, <2>3 DEF record_success, record_success_rejected, Write, transactions
    <2>4. CASE record_failure(w) \/ record_failure_retry(w) \/ record_failure_terminal(w)
        BY <2>0, <2>4 DEF record_failure, record_failure_retry,
            record_failure_terminal, Write, transactions
    <2>5. CASE block_descendants(w) \/ block_descendants_done(w)
        BY <2>0, <2>5 DEF block_descendants, block_descendants_done, Write, transactions
    <2>6. CASE refresh_run_state(w) \/ stop(w)
        BY <2>0, <2>6 DEF refresh_run_state, stop, transactions
    <2>7. CASE report_commit(w)
        BY <2>0, <2>7 DEF report_commit, CommitReport, Commit, EndTransaction, TaskDone
    <2> QED
        BY <1>1, <2>1, <2>2, <2>3, <2>4, <2>5, <2>6, <2>7 DEF WorkerStep
<1>2. ASSUME NEW w \in Workers, WorkerEvent(w) PROVE RequestIdle(r)
    BY <1>2 DEF WorkerEvent, renew_lease, request_shutdown, crash, EndTransaction,
        transactions
<1>3. ASSUME NEW q \in Runs, q # r, CancelStep(q) \/ ClientEvent(q) PROVE RequestIdle(r)
    <2>1. CASE cancel(q) \/ refresh_run_state(q)
        BY <1>3, <2>1 DEF cancel, refresh_run_state, Write
    <2>2. CASE cancel_commit(q)
        BY <1>3, <2>2 DEF cancel_commit, CommitReport, Commit, EndTransaction
    <2>3. CASE ClientEvent(q)
        BY <1>3, <2>3 DEF ClientEvent, create_run, cancel_run, cancel_abort,
            EndTransaction, transactions, process
    <2> QED
        BY <1>3, <2>1, <2>2, <2>3 DEF CancelStep
<1>4. ASSUME \/ reap_expired_leases
             \/ \E x \in TaskRuns : lease_expires(x) \/ backoff_elapses(x)
             \/ UNCHANGED vars
      PROVE  RequestIdle(r)
    BY <1>4 DEF reap_expired_leases, lease_expires, backoff_elapses, vars,
        transactions, process
<1> QED
    BY <1>1, <1>2, <1>3, <1>4 DEF Next

-----------------------------------------------------------------------------
(* The statements: which rows each locks, and what it writes into them.    *)

\* The points of a handler at which its transaction may hold writes.
InTransaction == {"claiming", "blocking", "refreshing", "committing"}

\* A client between transactions has written nothing.
OpenOnly ==
    \A c \in Clients : pc[c] \notin InTransaction =>
        Locked(c) = {} /\ attempt_writes[c] = {}

OpenInv == LockInv /\ OpenOnly

\* The end of a transaction leaves nothing behind.
LEMMA EndedTransaction ==
    ASSUME TypeInv, NEW c \in Clients, EndTransaction(c)
    PROVE  Locked(c)' = {} /\ attempt_writes'[c] = {}
<1>1. /\ writes' = [writes EXCEPT ![c] = NoWrites] /\ DOMAIN writes = Clients
      /\ attempt_writes' = [attempt_writes EXCEPT ![c] = {}]
      /\ DOMAIN attempt_writes = Clients
    BY DEF EndTransaction, TypeInv, TypeOK
<1> QED
    BY <1>1 DEF Locked, NoWrites

\* Every action keeps clients between transactions free of writes.
LEMMA OpenStep == OpenInv /\ [Next]_vars => OpenInv'
<1> SUFFICES ASSUME OpenInv, [Next]_vars PROVE OpenOnly'
    BY LockStep DEF OpenInv
<1>0. TypeInv /\ pc \in [Clients -> Pcs]
    BY DEF OpenInv, LockInv, TypeInv, TypeOK
<1> DEFINE Goal(c) == pc'[c] \notin InTransaction =>
                          Locked(c)' = {} /\ attempt_writes'[c] = {}
<1>a. ASSUME NEW c \in Clients, writes'[c] = writes[c],
             attempt_writes'[c] = attempt_writes[c], pc[c] \notin InTransaction
      PROVE  Goal(c)
    BY <1>a DEF Locked, OpenInv, OpenOnly
<1>b. ASSUME NEW c \in Clients, EndTransaction(c) PROVE Goal(c)
    BY <1>0, <1>b, EndedTransaction
<1>1. ASSUME NEW w \in Workers PROVE Goal(w)
    <2> USE DEF Clients
    <2>1. CASE WorkerIdle(w)
        BY <2>1 DEF WorkerIdle, Locked, OpenInv, OpenOnly
    <2>2. CASE \/ claim_batch(w) \/ record_success(w) \/ record_success_rejected(w)
               \/ record_failure_retry(w) \/ record_failure_terminal(w)
               \/ block_descendants(w) \/ block_descendants_done(w)
               \/ refresh_run_state(w)
        BY <1>0, <2>2 DEF claim_batch, record_success, record_success_rejected,
            record_failure_retry, record_failure_terminal, block_descendants,
            block_descendants_done, refresh_run_state, InTransaction
    <2>3. CASE claim_commit(w) \/ report_commit(w) \/ crash(w)
        BY <1>b, <2>3 DEF claim_commit, report_commit, CommitReport, Commit, crash
    <2>4. CASE \/ claim_batch_rejected(w) \/ start_task(w) \/ execute(w)
               \/ discard_result(w) \/ record_failure(w) \/ stop(w) \/ renew_lease(w)
        <3>1. UNCHANGED <<writes, attempt_writes>> /\ pc[w] \notin InTransaction
            BY <2>4 DEF claim_batch_rejected, start_task, execute, discard_result,
                record_failure, stop, MayStop, renew_lease, InTransaction, transactions
        <3> QED
            BY <1>a, <3>1
    <2>5. CASE request_shutdown(w)
        BY <2>5 DEF request_shutdown, transactions, Locked, OpenInv, OpenOnly
    <2> QED
        BY <1>0, <2>1, <2>2, <2>3, <2>4, <2>5, WorkerFrame DEF WorkerStep, WorkerEvent
<1>2. ASSUME NEW r \in Runs PROVE Goal(r)
    <2> USE DEF Clients
    <2>1. CASE RequestIdle(r) \/ create_run(r)
        BY <2>1 DEF RequestIdle, create_run, transactions, process, Locked,
            OpenInv, OpenOnly
    <2>2. CASE cancel(r) \/ refresh_run_state(r)
        BY <1>0, <2>2 DEF cancel, refresh_run_state, InTransaction
    <2>3. CASE cancel_commit(r) \/ cancel_abort(r)
        BY <1>b, <2>3 DEF cancel_commit, CommitReport, Commit, cancel_abort
    <2>4. CASE cancel_run(r)
        BY <1>a, <2>4 DEF cancel_run, transactions, InTransaction
    <2> QED
        BY <1>0, <2>1, <2>2, <2>3, <2>4, RequestFrame DEF CancelStep, ClientEvent
<1> QED
    BY <1>1, <1>2 DEF OpenOnly, Clients

\* What a terminal report, a retry, a sweep or a cancellation leaves of a row.
Released(row, new, state) ==
    /\ new.state = state
    /\ new.worker_id = NoWorker
    /\ new.pending_deps = row.pending_deps
    /\ new.attempt = row.attempt

\* The columns each statement writes.
LEMMA UpdateFields ==
    ASSUME NEW row \in TaskRunRow
    PROVE  /\ \A w : /\ ClaimedRow(w, row).state = "RUNNING"
                     /\ ClaimedRow(w, row).worker_id = w
                     /\ ClaimedRow(w, row).attempt = row.attempt + 1
                     /\ ClaimedRow(w, row).pending_deps = row.pending_deps
                     /\ ClaimedRow(w, row).output = row.output
           /\ \A n : /\ Released(row, SucceededRow(row, n), "SUCCEEDED")
                     /\ SucceededRow(row, n).output = n
           /\ Released(row, DeadRow(row), "DEAD_LETTER") /\ DeadRow(row).output = row.output
           /\ Released(row, RetryRow(row), "READY") /\ RetryRow(row).output = row.output
           /\ Released(row, ReapedRow(row), "READY") /\ ReapedRow(row).output = row.output
           /\ /\ Released(row, CancelledRow(row), "CANCELLED")
              /\ CancelledRow(row).output = row.output
           /\ /\ BlockedRow(row).state = "BLOCKED"
              /\ BlockedRow(row).worker_id = row.worker_id
              /\ BlockedRow(row).pending_deps = row.pending_deps
              /\ BlockedRow(row).attempt = row.attempt
              /\ BlockedRow(row).output = row.output
           /\ /\ UnblockedRow(row).worker_id = row.worker_id
              /\ UnblockedRow(row).attempt = row.attempt
              /\ UnblockedRow(row).output = row.output
              /\ UnblockedRow(row).pending_deps =
                    IF row.pending_deps > 0 THEN row.pending_deps - 1 ELSE 0
              /\ UnblockedRow(row).state =
                    IF UnblockedRow(row).pending_deps = 0 THEN "READY" ELSE "PENDING"
<1> USE DEF TaskRunRow
<1>1. \A w : /\ ClaimedRow(w, row).state = "RUNNING"
             /\ ClaimedRow(w, row).worker_id = w
             /\ ClaimedRow(w, row).attempt = row.attempt + 1
             /\ ClaimedRow(w, row).pending_deps = row.pending_deps
             /\ ClaimedRow(w, row).output = row.output
    BY DEF ClaimedRow
<1>2. \A n : /\ Released(row, SucceededRow(row, n), "SUCCEEDED")
             /\ SucceededRow(row, n).output = n
    BY DEF SucceededRow, Released
<1>3. Released(row, DeadRow(row), "DEAD_LETTER") /\ DeadRow(row).output = row.output
    BY DEF DeadRow, Released
<1>4. Released(row, RetryRow(row), "READY") /\ RetryRow(row).output = row.output
    BY DEF RetryRow, Released
<1>5. Released(row, ReapedRow(row), "READY") /\ ReapedRow(row).output = row.output
    BY DEF ReapedRow, Released
<1>6. /\ Released(row, CancelledRow(row), "CANCELLED")
      /\ CancelledRow(row).output = row.output
    BY DEF CancelledRow, Released
<1>7. /\ BlockedRow(row).state = "BLOCKED"
      /\ BlockedRow(row).worker_id = row.worker_id
      /\ BlockedRow(row).pending_deps = row.pending_deps
      /\ BlockedRow(row).attempt = row.attempt
      /\ BlockedRow(row).output = row.output
    BY DEF BlockedRow
<1>8. /\ UnblockedRow(row).worker_id = row.worker_id
      /\ UnblockedRow(row).attempt = row.attempt
      /\ UnblockedRow(row).output = row.output
      /\ UnblockedRow(row).pending_deps =
            IF row.pending_deps > 0 THEN row.pending_deps - 1 ELSE 0
      /\ UnblockedRow(row).state =
            IF UnblockedRow(row).pending_deps = 0 THEN "READY" ELSE "PENDING"
    BY DEF UnblockedRow
<1> QED
    BY <1>1, <1>2, <1>3, <1>4, <1>5, <1>6, <1>7, <1>8

\* claim_batch locks READY rows it may claim, and opens an attempt for each.
LEMMA ClaimWrites ==
    ASSUME OpenInv, NEW w \in Workers, claim_batch(w)
    PROVE  /\ \A x \in Locked(w)' :
                /\ x \in TaskRuns /\ task_runs[x].state = "READY" /\ MayClaim(x)
                /\ writes'[w][x] = ClaimedRow(w, task_runs[x])
           /\ attempt_writes'[w] =
                {[task_run_id |-> x, attempt |-> task_runs[x].attempt + 1,
                  worker_id |-> w, state |-> "RUNNING"] : x \in Locked(w)'}
           /\ \A x \in TaskRuns \ Locked(w)' : writes'[w][x] = AbsentRow
<1>0. /\ task_runs \in [TaskRuns -> TaskRunRow] /\ w \in Clients
      /\ writes \in [Clients -> [TaskRuns -> TaskRunRow]]
      /\ attempt_writes \in [Clients -> SUBSET TaskAttemptRow]
    BY DEF OpenInv, LockInv, TypeInv, TypeOK, Clients
<1>1. PICK B \in SUBSET Candidates(w) :
        /\ \A x \in B : MayClaim(x)
        /\ Write(w, B, LAMBDA x : ClaimedRow(w, task_runs[x]))
        /\ attempt_writes' = [attempt_writes EXCEPT ![w] =
               {[task_run_id |-> x, attempt |-> task_runs[x].attempt + 1,
                 worker_id |-> w, state |-> "RUNNING"] : x \in B}]
    BY DEF claim_batch
<1>2. B \subseteq TaskRuns /\ \A x \in B : task_runs[x].state = "READY"
    BY DEF Candidates
<1>3. Locked(w) = {}
    BY <1>0 DEF claim_batch, OpenInv, OpenOnly, InTransaction
<1>4. \A x \in TaskRuns : writes'[w][x] = IF x \in B THEN ClaimedRow(w, task_runs[x])
                                                      ELSE AbsentRow
    BY <1>0, <1>1, <1>3 DEF Write, Locked
<1>5. \A x \in B : ClaimedRow(w, task_runs[x]) # AbsentRow
    BY <1>0, <1>2, UpdateFields DEF AbsentRow
<1>6. Locked(w)' = B
    BY <1>2, <1>4, <1>5 DEF Locked
<1>7. attempt_writes'[w] = {[task_run_id |-> x, attempt |-> task_runs[x].attempt + 1,
                             worker_id |-> w, state |-> "RUNNING"] : x \in B}
    BY <1>0, <1>1
<1> QED
    BY <1>1, <1>2, <1>4, <1>6, <1>7

\* record_success locks its task and the children that wait for it.
LEMMA SuccessWrites ==
    ASSUME OpenInv, NEW w \in Workers, record_success(w)
    PROVE  /\ current[w] \in TaskRuns
           /\ Locked(w)' = {current[w]} \cup WaitingChildren(current[w])
           /\ current[w] \notin WaitingChildren(current[w])
           /\ writes'[w][current[w]] =
                SucceededRow(task_runs[current[w]], batch[w][current[w]])
           /\ \A y \in WaitingChildren(current[w]) :
                writes'[w][y] = UnblockedRow(task_runs[y])
           /\ attempt_writes'[w] =
                ClosedAttempt(current[w], task_runs[current[w]].attempt, "SUCCEEDED")
           /\ \A y \in TaskRuns \ Locked(w)' : writes'[w][y] = AbsentRow
<1> DEFINE x == current[w]
<1>0. /\ task_runs \in [TaskRuns -> TaskRunRow] /\ w \in Clients
      /\ writes \in [Clients -> [TaskRuns -> TaskRunRow]]
      /\ attempt_writes \in [Clients -> SUBSET TaskAttemptRow]
      /\ x \in TaskRuns
    BY DEF OpenInv, LockInv, TypeInv, TypeOK, JobHasTask, Clients, record_success
<1>1. Locked(w) = {}
    BY <1>0 DEF record_success, OpenInv, OpenOnly, InTransaction
<1>2. x \notin WaitingChildren(x) /\ WaitingChildren(x) \subseteq TaskRuns
    BY DEF record_success, Owns, WaitingChildren
<1>3. \A y \in TaskRuns :
        writes'[w][y] = IF y = x THEN SucceededRow(task_runs[x], batch[w][x])
                        ELSE IF y \in WaitingChildren(x) THEN UnblockedRow(task_runs[y])
                        ELSE AbsentRow
    BY <1>0, <1>1 DEF record_success, Write, Locked
<1>4. /\ SucceededRow(task_runs[x], batch[w][x]) # AbsentRow
      /\ \A y \in WaitingChildren(x) : UnblockedRow(task_runs[y]) # AbsentRow
    <2>1. AbsentRow.state = "ABSENT"
        BY DEF AbsentRow
    <2>2. SucceededRow(task_runs[x], batch[w][x]).state = "SUCCEEDED"
        BY <1>0, UpdateFields DEF Released
    <2>3. \A y \in WaitingChildren(x) :
             UnblockedRow(task_runs[y]).state \in {"READY", "PENDING"}
        BY <1>0, <1>2, UpdateFields
    <2> QED
        BY <2>1, <2>2, <2>3
<1>5. Locked(w)' = {x} \cup WaitingChildren(x)
    BY <1>0, <1>2, <1>3, <1>4 DEF Locked
<1>6. attempt_writes'[w] = ClosedAttempt(x, task_runs[x].attempt, "SUCCEEDED")
    BY <1>0 DEF record_success
<1> QED
    BY <1>0, <1>2, <1>3, <1>5, <1>6

\* record_failure's UPDATE locks the task if it is still the worker's.
LEMMA FailureWrites ==
    ASSUME OpenInv, NEW w \in Workers,
           record_failure_retry(w) \/ record_failure_terminal(w)
    PROVE  /\ current[w] \in TaskRuns
           /\ Locked(w)' = StillMine(w)
           /\ record_failure_retry(w) =>
                /\ \A y \in StillMine(w) : writes'[w][y] = RetryRow(task_runs[y])
                /\ attempt_writes'[w] = ClosedAttempt(current[w], seen[w], "RETRYING")
           /\ record_failure_terminal(w) =>
                /\ \A y \in StillMine(w) : writes'[w][y] = DeadRow(task_runs[y])
                /\ attempt_writes'[w] = ClosedAttempt(current[w], seen[w], "DEAD_LETTER")
           /\ \A y \in TaskRuns \ Locked(w)' : writes'[w][y] = AbsentRow
<1>0. /\ task_runs \in [TaskRuns -> TaskRunRow] /\ w \in Clients
      /\ writes \in [Clients -> [TaskRuns -> TaskRunRow]]
      /\ attempt_writes \in [Clients -> SUBSET TaskAttemptRow]
      /\ current[w] \in TaskRuns
    BY DEF OpenInv, LockInv, TypeInv, TypeOK, JobHasTask, Clients,
        record_failure_retry, record_failure_terminal
<1>1. Locked(w) = {}
    BY <1>0 DEF record_failure_retry, record_failure_terminal, OpenInv, OpenOnly,
        InTransaction
<1>2. StillMine(w) \subseteq TaskRuns
    BY <1>0 DEF StillMine
<1>3. /\ record_failure_retry(w) =>
           \A y \in TaskRuns : writes'[w][y] = IF y \in StillMine(w)
                                               THEN RetryRow(task_runs[y]) ELSE AbsentRow
      /\ record_failure_terminal(w) =>
           \A y \in TaskRuns : writes'[w][y] = IF y \in StillMine(w)
                                               THEN DeadRow(task_runs[y]) ELSE AbsentRow
    BY <1>0, <1>1 DEF record_failure_retry, record_failure_terminal, Write, Locked
<1>4. \A y \in StillMine(w) : /\ RetryRow(task_runs[y]) # AbsentRow
                              /\ DeadRow(task_runs[y]) # AbsentRow
    <2>1. AbsentRow.state = "ABSENT"
        BY DEF AbsentRow
    <2> QED
        BY <1>0, <1>2, <2>1, UpdateFields DEF Released
<1>5. Locked(w)' = StillMine(w)
    BY <1>2, <1>3, <1>4 DEF Locked
<1>6. /\ record_failure_retry(w) =>
           attempt_writes'[w] = ClosedAttempt(current[w], seen[w], "RETRYING")
      /\ record_failure_terminal(w) =>
           attempt_writes'[w] = ClosedAttempt(current[w], seen[w], "DEAD_LETTER")
    BY <1>0 DEF record_failure_retry, record_failure_terminal
<1> QED
    BY <1>0, <1>2, <1>3, <1>5, <1>6

\* One layer of _block_descendants adds the layer's rows to the locked ones.
LEMMA BlockWrites ==
    ASSUME OpenInv, NEW w \in Workers, block_descendants(w)
    PROVE  /\ BlockableLayer(w) \subseteq TaskRuns
           /\ Locked(w)' = Locked(w) \cup BlockableLayer(w)
           /\ \A y \in BlockableLayer(w) : writes'[w][y] = BlockedRow(View(w)[y])
           /\ \A y \in TaskRuns \ BlockableLayer(w) : writes'[w][y] = writes[w][y]
           /\ attempt_writes'[w] = attempt_writes[w]
<1>0. /\ w \in Clients /\ View(w) \in [TaskRuns -> TaskRunRow]
      /\ writes \in [Clients -> [TaskRuns -> TaskRunRow]]
    BY ViewType DEF OpenInv, LockInv, TypeInv, TypeOK, Clients
<1>1. BlockableLayer(w) \subseteq TaskRuns
    BY DEF BlockableLayer
<1>2. \A y \in TaskRuns : writes'[w][y] = IF y \in BlockableLayer(w)
                                          THEN BlockedRow(View(w)[y]) ELSE writes[w][y]
    BY <1>0 DEF block_descendants, Write
<1>3. \A y \in BlockableLayer(w) : BlockedRow(View(w)[y]) # AbsentRow
    BY <1>0, <1>1, UpdateFields DEF AbsentRow
<1>4. Locked(w)' = Locked(w) \cup BlockableLayer(w)
    BY <1>1, <1>2, <1>3 DEF Locked
<1> QED
    BY <1>1, <1>2, <1>4 DEF block_descendants

\* cancel locks the run's rows that are not terminal.
LEMMA CancelWrites ==
    ASSUME OpenInv, NEW r \in Runs, cancel(r)
    PROVE  /\ Locked(r)' = Cancellable(r)
           /\ \A y \in Cancellable(r) : /\ y \in TaskRuns
                                        /\ writes'[r][y] = CancelledRow(task_runs[y])
           /\ \A y \in TaskRuns \ Locked(r)' : writes'[r][y] = AbsentRow
           /\ attempt_writes'[r] = {}
<1>0. /\ task_runs \in [TaskRuns -> TaskRunRow] /\ r \in Clients
      /\ writes \in [Clients -> [TaskRuns -> TaskRunRow]]
    BY DEF OpenInv, LockInv, TypeInv, TypeOK, Clients
<1>1. Locked(r) = {} /\ attempt_writes[r] = {}
    BY <1>0 DEF cancel, OpenInv, OpenOnly, InTransaction
<1>2. Cancellable(r) \subseteq TaskRuns
    BY DEF Cancellable
<1>3. \A y \in TaskRuns : writes'[r][y] = IF y \in Cancellable(r)
                                          THEN CancelledRow(task_runs[y]) ELSE AbsentRow
    BY <1>0, <1>1 DEF cancel, Write, Locked
<1>4. \A y \in Cancellable(r) : CancelledRow(task_runs[y]) # AbsentRow
    BY <1>0, <1>2, UpdateFields DEF AbsentRow, Released
<1>5. Locked(r)' = Cancellable(r)
    BY <1>2, <1>3, <1>4 DEF Locked
<1> QED
    BY <1>1, <1>2, <1>3, <1>5 DEF cancel

-----------------------------------------------------------------------------
(* Owners.                                                                 *)

Reporting == {"blocking", "refreshing", "committing"}

\* An uncommitted row has an owner only if it is a claim, for who claims it.
ClaimedOnly ==
    \A c \in Clients : \A x \in Locked(c) :
        writes[c][x].worker_id # NoWorker =>
            /\ pc[c] = "claiming"
            /\ writes[c][x].worker_id = c
            /\ writes[c][x].attempt > 0

RunningIsAttempted ==
    \A x \in TaskRuns : task_runs[x].state = "RUNNING" => task_runs[x].attempt > 0

\* A worker without a batch owns nothing.
IdleOwnsNothing(w) ==
    pc[w] \in {"idle", "claiming", "stopped"} =>
        \A x \in TaskRuns : task_runs[x].worker_id # w

\* A report that has not released its task found it gone.
ReportReleases(w) ==
    pc[w] \in Reporting /\ current[w] \notin Locked(w) =>
        task_runs[current[w]].worker_id # w

\* A heartbeat says the lease is lost only when it is.
LostIsGone(w) ==
    lost[w] => pc[w] = "executing" /\ task_runs[current[w]].worker_id # w

HoldsCurrent(w) ==
    \A x \in TaskRuns : task_runs[x].worker_id = w =>
        pc[w] = "dead" \/ batch[w][x] = task_runs[x].attempt

WorkerOwns(w) ==
    IdleOwnsNothing(w) /\ ReportReleases(w) /\ LostIsGone(w) /\ HoldsCurrent(w)

OwnerInv ==
    /\ OpenInv
    /\ ClaimedOnly
    /\ RunningIsAttempted
    /\ \A w \in Workers : WorkerOwns(w)

\* Every statement but a claim clears the owner of the rows it writes.
LEMMA ClaimedOnlyStep == OpenInv /\ ClaimedOnly /\ [Next]_vars => ClaimedOnly'
<1> SUFFICES ASSUME OpenInv, ClaimedOnly, [Next]_vars PROVE ClaimedOnly'
    OBVIOUS
<1>0. /\ TypeInv /\ pc \in [Clients -> Pcs] /\ RowLeases
      /\ task_runs \in [TaskRuns -> TaskRunRow]
      /\ OpenInv'
    BY OpenStep DEF OpenInv, LockInv, TypeInv, TypeOK
<1> DEFINE Goal(c) == \A x \in Locked(c)' :
                          writes'[c][x].worker_id # NoWorker =>
                              /\ pc'[c] = "claiming"
                              /\ writes'[c][x].worker_id = c
                              /\ writes'[c][x].attempt > 0
<1>a. ASSUME NEW c \in Clients, writes'[c] = writes[c],
             pc[c] # "claiming" \/ pc'[c] = pc[c]
      PROVE  Goal(c)
    BY <1>a DEF Locked, ClaimedOnly
<1>b. ASSUME NEW c \in Clients, EndTransaction(c) PROVE Goal(c)
    BY <1>0, <1>b, EndedTransaction
<1>1. ASSUME NEW w \in Workers PROVE Goal(w)
    <2> USE DEF Clients
    <2>1. CASE claim_batch(w)
        <3>1. \A x \in Locked(w)' : /\ writes'[w][x].worker_id = w
                                    /\ writes'[w][x].attempt > 0
            BY <1>0, <2>1, ClaimWrites, UpdateFields DEF TaskRunRow
        <3> QED
            BY <1>0, <2>1, <3>1 DEF claim_batch
    <2>2. CASE record_success(w)
        <3>1. writes'[w][current[w]].worker_id = NoWorker
            BY <1>0, <2>2, SuccessWrites, UpdateFields DEF Released
        <3>2. \A y \in WaitingChildren(current[w]) : writes'[w][y].worker_id = NoWorker
            <4>1. \A y \in WaitingChildren(current[w]) :
                     /\ task_runs[y] \in TaskRunRow
                     /\ task_runs[y].worker_id = NoWorker
                BY <1>0 DEF WaitingChildren, RowLeases, LeaseOK
            <4> QED
                BY <2>2, <4>1, SuccessWrites, UpdateFields
        <3> QED
            BY <2>2, <3>1, <3>2, SuccessWrites
    <2>3. CASE record_failure_retry(w) \/ record_failure_terminal(w)
        <3>1. \A y \in StillMine(w) : y \in TaskRuns
            BY <2>3, FailureWrites DEF StillMine
        <3>2. \A y \in StillMine(w) : writes'[w][y].worker_id = NoWorker
            BY <1>0, <2>3, <3>1, FailureWrites, UpdateFields DEF Released
        <3> QED
            BY <2>3, <3>2, FailureWrites
    <2>4. CASE block_descendants(w)
        <3>1. \A y \in BlockableLayer(w) : /\ View(w)[y].worker_id = NoWorker
                                           /\ View(w)[y] \in TaskRunRow
            BY <1>0, ViewType DEF BlockableLayer, View, RowLeases, LeaseOK, TypeInv
        <3>2. \A y \in BlockableLayer(w) : writes'[w][y].worker_id = NoWorker
            BY <2>4, <3>1, BlockWrites, UpdateFields
        <3>3. \A y \in Locked(w) \ BlockableLayer(w) : writes'[w][y] = writes[w][y]
            BY <2>4, BlockWrites DEF Locked
        <3>4. pc[w] # "claiming"
            BY <2>4 DEF block_descendants
        <3> QED
            BY <2>4, <3>2, <3>3, <3>4, BlockWrites DEF ClaimedOnly
    <2>5. CASE claim_commit(w) \/ report_commit(w) \/ crash(w)
        BY <1>b, <2>5 DEF claim_commit, report_commit, CommitReport, Commit, crash
    <2>6. CASE \/ claim_batch_rejected(w) \/ start_task(w) \/ execute(w)
               \/ discard_result(w) \/ record_success_rejected(w) \/ record_failure(w)
               \/ block_descendants_done(w) \/ refresh_run_state(w) \/ stop(w)
               \/ renew_lease(w) \/ request_shutdown(w) \/ WorkerIdle(w)
        <3>1. writes'[w] = writes[w] /\ (pc[w] # "claiming" \/ pc'[w] = pc[w])
            BY <2>6 DEF claim_batch_rejected, start_task, execute, discard_result,
                record_success_rejected, record_failure, block_descendants_done,
                refresh_run_state, stop, MayStop, renew_lease, request_shutdown,
                WorkerIdle, transactions
        <3> QED
            BY <1>a, <3>1
    <2> QED
        BY <1>0, <2>1, <2>2, <2>3, <2>4, <2>5, <2>6, WorkerFrame
        DEF WorkerStep, WorkerEvent
<1>2. ASSUME NEW r \in Runs PROVE Goal(r)
    <2> USE DEF Clients
    <2>1. CASE cancel(r)
        BY <1>0, <2>1, CancelWrites, UpdateFields DEF Released
    <2>2. CASE cancel_commit(r) \/ cancel_abort(r)
        BY <1>b, <2>2 DEF cancel_commit, CommitReport, Commit, cancel_abort
    <2>3. CASE refresh_run_state(r) \/ create_run(r) \/ cancel_run(r) \/ RequestIdle(r)
        <3>1. writes'[r] = writes[r] /\ (pc[r] # "claiming" \/ pc'[r] = pc[r])
            BY <2>3 DEF refresh_run_state, create_run, cancel_run, RequestIdle,
                transactions, process
        <3> QED
            BY <1>a, <3>1
    <2> QED
        BY <1>0, <2>1, <2>2, <2>3, RequestFrame DEF CancelStep, ClientEvent
<1> QED
    BY <1>1, <1>2 DEF ClaimedOnly, Clients

\* A worker comes to own a row by committing a claim of it, and in no other way.
LEMMA OwnershipArises ==
    ASSUME OpenInv, ClaimedOnly, [Next]_vars, NEW w \in Workers, NEW x \in TaskRuns,
           task_runs'[x].worker_id = w
    PROVE  \/ task_runs[x].worker_id = w /\ task_runs'[x].attempt = task_runs[x].attempt
           \/ /\ claim_commit(w)
              /\ x \in Locked(w)
              /\ task_runs'[x] = writes[w][x]
<1>0. /\ TypeInv /\ LockInv /\ task_runs \in [TaskRuns -> TaskRunRow]
      /\ w # NoWorker
    BY ClientsAssumption DEF OpenInv, LockInv, TypeInv, TypeOK
<1>1. CASE SameRow(task_runs[x], task_runs'[x])
    BY <1>1 DEF SameRow
<1>2. CASE RowCreated(x)
    BY <1>0, <1>2 DEF RowCreated, CreatedRow, AbsentRow
<1>3. CASE RowReaped(x)
    BY <1>0, <1>3, UpdateFields DEF RowReaped, Released
<1>4. ASSUME NEW c \in Clients, RowCommitted(c, x)
      PROVE  \/ task_runs[x].worker_id = w /\ task_runs'[x].attempt = task_runs[x].attempt
             \/ /\ claim_commit(w)
                /\ x \in Locked(w)
                /\ task_runs'[x] = writes[w][x]
    <2>1. /\ c = w /\ pc[w] = "claiming" /\ pc'[w] # "claiming"
          /\ x \in Locked(w) /\ task_runs'[x] = writes[w][x]
        BY <1>0, <1>4 DEF RowCommitted, ClaimedOnly
    <2>2. claim_commit(w) \/ crash(w)
        BY <1>0, <2>1, WorkerFrame DEF WorkerStep, WorkerEvent, WorkerIdle,
            claim_batch, claim_batch_rejected, start_task, execute, discard_result,
            record_success, record_success_rejected, record_failure,
            record_failure_retry, record_failure_terminal, block_descendants,
            block_descendants_done, refresh_run_state, report_commit, CommitReport,
            stop, MayStop, renew_lease, request_shutdown
    <2>3. crash(w) => task_runs' = task_runs
        BY DEF crash, tables
    <2> QED
        BY <2>1, <2>2, <2>3
<1> QED
    BY <1>0, <1>1, <1>2, <1>3, <1>4, RowStep

\* A worker that is done with a task it does not own keeps the rest of its batch.
LEMMA TaskDoneOwns ==
    ASSUME OwnerInv, OpenInv', RunningIsAttempted', NEW w \in Workers, TaskDone(w),
           current[w] \in TaskRuns, pc[w] # "dead",
           task_runs'[current[w]].worker_id # w,
           \A x \in TaskRuns : task_runs'[x].worker_id = w =>
               /\ task_runs[x].worker_id = w
               /\ task_runs'[x].attempt = task_runs[x].attempt
    PROVE  WorkerOwns(w)'
<1>0. /\ pc \in [Clients -> Pcs] /\ batch \in [Workers -> [TaskRuns -> Nat]]
      /\ DOMAIN lost = Workers /\ w \in Clients /\ w # NoWorker
    BY ClientsAssumption DEF OwnerInv, OpenInv, LockInv, TypeInv, TypeOK, Clients
<1>1. lost'[w] = FALSE
    BY <1>0 DEF TaskDone, ClearJob
<1>2. pc'[w] \in {"batch", "idle"}
    BY <1>0 DEF TaskDone
<1>3. \A x \in TaskRuns : x # current[w] => batch'[w][x] = batch[w][x]
    BY <1>0 DEF TaskDone
<1>4. HoldsCurrent(w)'
    BY <1>3 DEF OwnerInv, WorkerOwns, HoldsCurrent
<1>5. ASSUME pc'[w] = "idle", NEW x \in TaskRuns, task_runs'[x].worker_id = w
      PROVE  FALSE
    <2>1. [batch[w] EXCEPT ![current[w]] = 0][x] = 0
        BY <1>0, <1>5 DEF TaskDone
    <2>2. task_runs'[x].attempt = 0
        BY <1>0, <1>2, <1>3, <1>4, <1>5, <2>1 DEF HoldsCurrent
    <2>3. task_runs'[x].state = "RUNNING"
        BY <1>0, <1>5 DEF OwnerInv, OpenInv, LockInv, RowLeases, LeaseOK
    <2> QED
        BY <2>2, <2>3 DEF RunningIsAttempted
<1>6. IdleOwnsNothing(w)'
    BY <1>2, <1>5 DEF IdleOwnsNothing
<1> QED
    BY <1>1, <1>2, <1>4, <1>6 DEF WorkerOwns, ReportReleases, LostIsGone, Reporting

\* Every action preserves the invariant about owners.
LEMMA OwnerStep == OwnerInv /\ [Next]_vars => OwnerInv'
<1> SUFFICES ASSUME OwnerInv, [Next]_vars PROVE OwnerInv'
    OBVIOUS
<1>0. /\ OpenInv /\ OpenInv' /\ ClaimedOnly /\ ClaimedOnly' /\ LockInv /\ TypeInv
      /\ RowLeases /\ RowLeases'
    BY OpenStep, ClaimedOnlyStep DEF OwnerInv, OpenInv, LockInv
<1>a. /\ pc \in [Clients -> Pcs] /\ batch \in [Workers -> [TaskRuns -> Nat]]
      /\ lost \in [Workers -> BOOLEAN] /\ DOMAIN current = Workers
      /\ task_runs \in [TaskRuns -> TaskRunRow]
    BY <1>0 DEF TypeInv, TypeOK
<1>1. RunningIsAttempted'
    <2> SUFFICES ASSUME NEW x \in TaskRuns, task_runs'[x].state = "RUNNING"
                 PROVE  task_runs'[x].attempt > 0
        BY DEF RunningIsAttempted
    <2>1. CASE SameRow(task_runs[x], task_runs'[x])
        BY <2>1 DEF SameRow, OwnerInv, RunningIsAttempted
    <2>2. ~RowCreated(x)
        BY DEF RowCreated, CreatedRow, AbsentRow
    <2>4. ~RowReaped(x)
        BY <1>a, UpdateFields DEF RowReaped, Released
    <2>3. ASSUME NEW c \in Clients, RowCommitted(c, x) PROVE task_runs'[x].attempt > 0
        BY <1>0, <2>3 DEF RowCommitted, RowLeases, LeaseOK, ClaimedOnly
    <2> QED
        BY <1>0, <2>1, <2>2, <2>3, <2>4, RowStep
<1>2. ASSUME NEW w \in Workers PROVE WorkerOwns(w)'
    <2> USE DEF Clients
    <2>0. /\ w # NoWorker /\ IdleOwnsNothing(w) /\ ReportReleases(w) /\ LostIsGone(w)
          /\ HoldsCurrent(w)
        BY ClientsAssumption DEF OwnerInv, WorkerOwns
    <2>1. CASE claim_commit(w)
        <3>1. \A x \in TaskRuns : task_runs'[x].worker_id = w =>
                 x \in Locked(w) /\ task_runs'[x] = writes[w][x]
            BY <1>0, <2>0, <2>1, OwnershipArises DEF claim_commit, IdleOwnsNothing
        <3>2. \A x \in Locked(w) : batch'[w][x] = writes[w][x].attempt
            BY <1>a, <2>1 DEF claim_commit, Locked
        <3>3. pc'[w] = "batch" /\ lost'[w] = FALSE
            BY <1>a, <2>0, <2>1 DEF claim_commit, LostIsGone, job
        <3> QED
            BY <3>1, <3>2, <3>3 DEF WorkerOwns, IdleOwnsNothing, ReportReleases,
                LostIsGone, HoldsCurrent, Reporting
    <2> SUFFICES ASSUME ~claim_commit(w) PROVE WorkerOwns(w)'
        BY <2>1
    <2>2. \A x \in TaskRuns : task_runs'[x].worker_id = w =>
             /\ task_runs[x].worker_id = w
             /\ task_runs'[x].attempt = task_runs[x].attempt
        BY <1>0, OwnershipArises
    <2>3. ASSUME pc'[w] = pc[w], writes'[w] = writes[w], batch'[w] = batch[w],
                 current'[w] = current[w], lost'[w] = lost[w]
          PROVE  WorkerOwns(w)'
        <3>1. Locked(w)' = Locked(w)
            BY <2>3 DEF Locked
        <3>2. IdleOwnsNothing(w)' /\ HoldsCurrent(w)'
            BY <2>0, <2>2, <2>3 DEF IdleOwnsNothing, HoldsCurrent
        <3>3. ReportReleases(w)'
            <4> SUFFICES ASSUME pc'[w] \in Reporting, current[w] \notin Locked(w)
                         PROVE  task_runs'[current[w]].worker_id # w
                BY <2>3, <3>1 DEF ReportReleases
            <4>1. current[w] \in TaskRuns
                BY <1>0, <2>3 DEF TypeInv, JobHasTask, Reporting
            <4> QED
                BY <2>0, <2>2, <2>3, <4>1 DEF ReportReleases
        <3>4. LostIsGone(w)'
            <4> SUFFICES ASSUME lost[w] PROVE /\ pc[w] = "executing"
                                              /\ task_runs'[current[w]].worker_id # w
                BY <2>3 DEF LostIsGone
            <4>1. pc[w] = "executing" /\ task_runs[current[w]].worker_id # w
                BY <2>0 DEF LostIsGone
            <4>2. current[w] \in TaskRuns
                BY <1>0, <4>1 DEF TypeInv, JobHasTask
            <4> QED
                BY <2>2, <4>1, <4>2
        <3> QED
            BY <3>2, <3>3, <3>4 DEF WorkerOwns
    <2>4. CASE WorkerIdle(w) \/ request_shutdown(w)
        BY <2>3, <2>4 DEF WorkerIdle, request_shutdown, transactions, job
    <2>5. CASE claim_batch(w) \/ claim_batch_rejected(w) \/ stop(w)
        <3>1. /\ pc'[w] \in {"claiming", "dead", "stopped"} /\ lost'[w] = FALSE
              /\ pc[w] = "idle"
            BY <1>a, <2>0, <2>5 DEF claim_batch, claim_batch_rejected, stop, MayStop,
                LostIsGone, job
        <3> QED
            BY <2>0, <2>2, <3>1 DEF WorkerOwns, IdleOwnsNothing, ReportReleases,
                LostIsGone, HoldsCurrent, Reporting
    <2>6. CASE start_task(w) \/ execute(w)
        <3>1. /\ pc'[w] \in {"executing", "succeeded", "failed"} /\ lost'[w] = FALSE
              /\ batch'[w] = batch[w] /\ pc[w] # "dead"
            BY <1>a, <2>0, <2>6 DEF start_task, execute, LostIsGone, job
        <3> QED
            BY <2>0, <2>2, <3>1 DEF WorkerOwns, IdleOwnsNothing, ReportReleases,
                LostIsGone, HoldsCurrent, Reporting
    <2>7. CASE renew_lease(w)
        <3>1. /\ pc'[w] = "executing" /\ batch'[w] = batch[w] /\ current'[w] = current[w]
              /\ pc[w] = "executing"
            BY <2>7 DEF renew_lease
        <3>2. lost'[w] => task_runs[current[w]].worker_id # w
            BY <1>0, <1>a, <2>0, <2>7 DEF renew_lease, Owns, RowLeases, LeaseOK,
                TypeInv, JobHasTask
        <3>3. current[w] \in TaskRuns
            BY <1>0, <3>1 DEF TypeInv, JobHasTask
        <3> QED
            BY <2>0, <2>2, <3>1, <3>2, <3>3 DEF WorkerOwns, IdleOwnsNothing,
                ReportReleases, LostIsGone, HoldsCurrent, Reporting
    <2>8. CASE discard_result(w)
        <3>1. /\ TaskDone(w) /\ current[w] \in TaskRuns /\ pc[w] # "dead"
              /\ task_runs[current[w]].worker_id # w
            BY <1>0, <2>0, <2>8 DEF discard_result, TypeInv, JobHasTask, LostIsGone
        <3> QED
            BY <1>0, <1>1, <2>2, <3>1, TaskDoneOwns
    <2>9. CASE report_commit(w)
        <3>1. /\ TaskDone(w) /\ Commit(w) /\ current[w] \in TaskRuns /\ pc[w] = "committing"
            BY <1>0, <2>9 DEF report_commit, CommitReport, TypeInv, JobHasTask
        <3>2. CASE current[w] \in Locked(w)
            <4>1. task_runs'[current[w]].worker_id = NoWorker
                BY <1>0, <3>1, <3>2 DEF Commit, View, ClaimedOnly
            <4> QED
                BY <1>0, <1>1, <2>0, <2>2, <3>1, <4>1, TaskDoneOwns
        <3>3. CASE current[w] \notin Locked(w)
            <4>1. task_runs[current[w]].worker_id # w
                BY <2>0, <3>1, <3>3 DEF ReportReleases, Reporting
            <4> QED
                BY <1>0, <1>1, <2>2, <3>1, <4>1, TaskDoneOwns
        <3> QED
            BY <3>2, <3>3
    <2>10. CASE crash(w)
        <3>1. pc'[w] = "dead" /\ lost'[w] = FALSE
            BY <1>a, <2>10 DEF crash, ClearJob
        <3> QED
            BY <3>1 DEF WorkerOwns, IdleOwnsNothing, ReportReleases, LostIsGone,
                HoldsCurrent, Reporting
    \* The statements of a report: the rows are as they were.
    <2>11. ASSUME UNCHANGED task_runs, batch'[w] = batch[w], current'[w] = current[w],
                  pc[w] \notin {"idle", "claiming", "stopped", "executing", "dead"},
                  pc'[w] \in {"failing"} \cup Reporting, lost'[w] = lost[w],
                  pc'[w] \in Reporting /\ current[w] \notin Locked(w)' =>
                      task_runs[current[w]].worker_id # w
           PROVE  WorkerOwns(w)'
        BY <2>0, <2>11 DEF WorkerOwns, IdleOwnsNothing, ReportReleases, LostIsGone,
            HoldsCurrent, Reporting
    <2>12. CASE record_success(w)
        <3>1. current[w] \in Locked(w)'
            BY <1>0, <2>12, SuccessWrites
        <3> QED
            BY <1>a, <2>11, <2>12, <3>1 DEF record_success, tables, job, Reporting
    <2>13. CASE record_success_rejected(w)
        <3>1. task_runs[current[w]].worker_id # w
            BY <1>0, <2>0, <2>13 DEF record_success_rejected, Owns, RowLeases, LeaseOK,
                TypeInv, JobHasTask
        <3> QED
            BY <1>a, <2>11, <2>13, <3>1 DEF record_success_rejected, tables, job, Reporting
    <2>14. CASE record_failure(w)
        BY <1>a, <2>11, <2>14 DEF record_failure, tables, Reporting
    <2>15. CASE record_failure_retry(w) \/ record_failure_terminal(w)
        <3>1. current[w] \notin Locked(w)' => task_runs[current[w]].worker_id # w
            BY <1>0, <2>15, FailureWrites DEF StillMine
        <3>2. /\ UNCHANGED task_runs /\ batch'[w] = batch[w] /\ current'[w] = current[w]
              /\ lost'[w] = lost[w] /\ pc[w] = "failing"
              /\ pc'[w] \in {"refreshing", "blocking"}
            BY <1>a, <2>15 DEF record_failure_retry, record_failure_terminal, tables, job
        <3> QED
            BY <2>11, <3>1, <3>2 DEF Reporting
    <2>16. CASE block_descendants(w)
        <3>1. Locked(w) \subseteq Locked(w)'
            BY <1>0, <2>16, BlockWrites
        <3> QED
            BY <1>a, <2>0, <2>11, <2>16, <3>1
            DEF block_descendants, ReportReleases, tables, Reporting
    <2>17. CASE block_descendants_done(w) \/ refresh_run_state(w)
        <3>1. /\ UNCHANGED task_runs /\ batch'[w] = batch[w] /\ current'[w] = current[w]
              /\ lost'[w] = lost[w] /\ pc[w] \in {"blocking", "refreshing"}
              /\ pc'[w] \in {"refreshing", "committing"} /\ writes' = writes
            BY <1>a, <2>17 DEF block_descendants_done, refresh_run_state, tables,
                transactions, job
        <3> QED
            BY <2>0, <2>11, <3>1 DEF ReportReleases, Locked, Reporting
    <2> QED
        BY <1>0, <2>4, <2>5, <2>6, <2>7, <2>8, <2>9, <2>10, <2>12, <2>13, <2>14,
           <2>15, <2>16, <2>17, WorkerFrame DEF WorkerStep, WorkerEvent
<1> QED
    BY <1>0, <1>1, <1>2 DEF OwnerInv

\* The initial state satisfies it: nothing is owned.
LEMMA OwnerInit == Init => OwnerInv
<1> SUFFICES ASSUME Init PROVE OwnerInv
    OBVIOUS
<1>1. \A c \in Clients : Locked(c) = {} /\ attempt_writes[c] = {}
    BY DEF Init, Locked, NoWrites
<1>2. OpenInv /\ ClaimedOnly
    BY <1>1, LockInit DEF OpenInv, OpenOnly, ClaimedOnly
<1>3. \A x \in TaskRuns : /\ task_runs[x].worker_id = NoWorker
                          /\ task_runs[x].state = "ABSENT"
    BY DEF Init, AbsentRow
<1>4. \A w \in Workers : WorkerOwns(w)
    BY <1>3, ClientsAssumption DEF Init, WorkerOwns, IdleOwnsNothing, ReportReleases,
        LostIsGone, HoldsCurrent, Reporting, Clients
<1> QED
    BY <1>2, <1>3, <1>4 DEF OwnerInv, RunningIsAttempted

\* The lease predicate is sound although it names the worker and not the attempt: a
\* worker whose id is on a row holds that row's current attempt, so an earlier
\* claim's result can never be committed under a later claim by the same worker.
THEOREM OwnerIsCurrent == Spec => []OwnerHoldsCurrentAttempt
<1>1. OwnerInv => OwnerHoldsCurrentAttempt
    BY DEF OwnerInv, WorkerOwns, HoldsCurrent, OwnerHoldsCurrentAttempt
<1> QED
    BY <1>1, OwnerInit, OwnerStep, PTL DEF Spec

\* A worker that stopped on SIGTERM leaves no lease behind, whatever was in its
\* batch when the signal arrived.
THEOREM StoppedIsEmpty == Spec => []StoppedHoldsNothing
<1>1. OwnerInv => StoppedHoldsNothing
    BY DEF OwnerInv, WorkerOwns, IdleOwnsNothing, StoppedHoldsNothing
<1> QED
    BY <1>1, OwnerInit, OwnerStep, PTL DEF Spec

-----------------------------------------------------------------------------
(* What an uncommitted row is, relative to the committed one it replaces.  *)

\* The claim of a READY task with budget left, with the next attempt number.
Claims(c, x) ==
    LET old == task_runs[x]
        new == writes[c][x]
    IN  /\ c \in Workers /\ pc[c] = "claiming"
        /\ old.state = "READY" /\ new.state = "RUNNING"
        /\ new.worker_id = c
        /\ new.attempt = old.attempt + 1
        /\ new.attempt <= max_attempts[x[2]]
        /\ new.pending_deps = old.pending_deps
        /\ new.output = old.output

\* The report of the owner, on the attempt that is running.
Reports(c, x) ==
    LET old == task_runs[x]
        new == writes[c][x]
    IN  /\ c \in Workers /\ pc[c] \in Reporting /\ x = current[c]
        /\ old.state = "RUNNING" /\ old.worker_id = c
        /\ new.attempt = old.attempt
        /\ new.pending_deps = old.pending_deps
        /\ \/ /\ new.state = "SUCCEEDED" /\ new.output = new.attempt
              /\ pc[c] # "blocking"
           \/ /\ new.state = "READY" /\ new.output = old.output
              /\ new.attempt < max_attempts[x[2]]
              /\ pc[c] # "blocking"
           \/ /\ new.state = "DEAD_LETTER" /\ new.output = old.output
              /\ new.attempt = max_attempts[x[2]]

\* One parent less for a child of the task that is reported successful.
Unblocks(c, x) ==
    LET old == task_runs[x]
        new == writes[c][x]
    IN  /\ c \in Workers /\ pc[c] \in {"refreshing", "committing"}
        /\ current[c] \in Parents(x) /\ writes[c][current[c]].state = "SUCCEEDED"
        /\ old.state = "PENDING"
        /\ new.attempt = old.attempt /\ new.output = old.output
        /\ new.pending_deps = IF old.pending_deps > 0 THEN old.pending_deps - 1 ELSE 0
        /\ new.state = IF new.pending_deps = 0 THEN "READY" ELSE "PENDING"

\* A descendant of a task that failed for good.
Blocks(c, x) ==
    LET old == task_runs[x]
        new == writes[c][x]
    IN  /\ c \in Workers /\ pc[c] \in Reporting /\ x[1] = current[c][1]
        /\ old.state \in {"PENDING", "READY"} /\ new.state = "BLOCKED"
        /\ new.attempt = old.attempt /\ new.output = old.output

\* A task withdrawn with its run.
Cancels(c, x) ==
    LET old == task_runs[x]
        new == writes[c][x]
    IN  /\ c \in Runs /\ pc[c] \in {"refreshing", "committing"} /\ x[1] = c
        /\ new.state = "CANCELLED"
        /\ new.attempt = old.attempt /\ new.output = old.output

Follows(c, x) ==
    Claims(c, x) \/ Reports(c, x) \/ Unblocks(c, x) \/ Blocks(c, x) \/ Cancels(c, x)

WritesFollow == \A c \in Clients : \A x \in Locked(c) : Follows(c, x)

\* A handler that goes on without a statement keeps what its writes are.
LEMMA FollowsStable ==
    ASSUME NEW c \in Clients, NEW x, SameRow(task_runs[x], task_runs'[x]),
           writes'[c] = writes[c], current'[c] = current[c] \/ c \in Runs,
           \/ pc'[c] = pc[c]
           \/ pc[c] \in Reporting /\ pc'[c] \in {"refreshing", "committing"}
    PROVE  /\ Claims(c, x) => Claims(c, x)'
           /\ Reports(c, x) => Reports(c, x)'
           /\ Follows(c, x) => Follows(c, x)'
<1> USE ClientsAssumption DEF SameRow, Reporting
<1>1. Claims(c, x) => Claims(c, x)'
    BY DEF Claims
<1>2. Reports(c, x) => Reports(c, x)'
    BY DEF Reports
<1>3. Unblocks(c, x) => Unblocks(c, x)'
    BY DEF Unblocks, Parents
<1>4. Blocks(c, x) => Blocks(c, x)'
    BY DEF Blocks
<1>5. Cancels(c, x) => Cancels(c, x)'
    BY DEF Cancels
<1> QED
    BY <1>1, <1>2, <1>3, <1>4, <1>5 DEF Follows

-----------------------------------------------------------------------------
(* The attempt rows.                                                       *)

SameKey(a, b) == a.task_run_id = b.task_run_id /\ a.attempt = b.attempt

\* UNIQUE (task_run_id, attempt), of a set of attempt rows.
UniqueKeys(rows) == \A a, b \in rows : SameKey(a, b) => a = b

\* What an attempt row and its task's row tell of each other.
Agree(a, row) ==
    /\ a.attempt \in 1..row.attempt
    /\ a.state = "RUNNING" => /\ a.attempt = row.attempt
                              /\ row.state \in {"RUNNING", "CANCELLED"}
    /\ a.state = "SUCCEEDED" <=> row.state = "SUCCEEDED" /\ a.attempt = row.attempt
    /\ row.state = "RUNNING" /\ a.attempt = row.attempt =>
         a.state = "RUNNING" /\ a.worker_id = row.worker_id

HistoryOf(x) ==
    LET row == task_runs[x]
    IN  /\ row.attempt <= max_attempts[x[2]]
        /\ row.state \in {"ABSENT", "PENDING"} => row.attempt = 0
        /\ row.output = IF row.state = "SUCCEEDED" THEN row.attempt ELSE 0
        /\ \A n \in 1..row.attempt :
             \E a \in task_attempts : a.task_run_id = x /\ a.attempt = n
        /\ \A a \in task_attempts : a.task_run_id = x => Agree(a, row)

\* The attempt row a claim inserts.
Opens(c, b) ==
    /\ c \in Workers /\ pc[c] = "claiming"
    /\ b.task_run_id \in Locked(c)
    /\ b.attempt = task_runs[b.task_run_id].attempt + 1
    /\ b.worker_id = c /\ b.state = "RUNNING"

\* The attempt row a report closes: its own running attempt, or one whose task
\* was cancelled under it.
Closes(c, b) ==
    /\ c \in Workers /\ pc[c] \in Reporting
    /\ b.task_run_id = current[c] /\ b.state # "RUNNING"
    /\ \E a \in task_attempts : SameKey(a, b) /\ a.worker_id = b.worker_id
    /\ \/ /\ current[c] \in Locked(c) /\ Reports(c, current[c])
          /\ b.attempt = task_runs[current[c]].attempt
          /\ b.state = "SUCCEEDED" <=> writes[c][current[c]].state = "SUCCEEDED"
       \/ /\ task_runs[current[c]].state = "CANCELLED"
          /\ b.state # "SUCCEEDED"

AttemptWritesFollow(c) ==
    /\ UniqueKeys(attempt_writes[c])
    /\ \A b \in attempt_writes[c] : Opens(c, b) \/ Closes(c, b)
    /\ \A x \in Locked(c) : Claims(c, x) \/ Reports(c, x) =>
         \E b \in attempt_writes[c] : b.task_run_id = x

\* Between record_failure's read and its update the attempt it read is the
\* worker's own, and has not been reported successful.
SeenIsMine(w) ==
    pc[w] = "failing" =>
        /\ seen[w] = batch[w][current[w]]
        /\ \E a \in task_attempts : /\ a.task_run_id = current[w]
                                    /\ a.attempt = seen[w]
                                    /\ a.worker_id = w
                                    /\ a.state # "SUCCEEDED"

HistoryInv ==
    /\ OwnerInv
    /\ WritesFollow
    /\ UniqueKeys(task_attempts)
    /\ \A x \in TaskRuns : HistoryOf(x)
    /\ \A c \in Clients : AttemptWritesFollow(c)
    /\ \A w \in Workers : SeenIsMine(w)

\* The steps in which c's transaction goes on without a statement that writes.
GoesOn(c) ==
    /\ writes'[c] = writes[c]
    /\ attempt_writes'[c] = attempt_writes[c]
    /\ current'[c] = current[c] \/ c \in Runs
    /\ \/ pc'[c] = pc[c]
       \/ pc[c] \in Reporting /\ pc'[c] \in {"refreshing", "committing"}

\* What a step is for the transaction of a worker.
LEMMA WorkerTransaction ==
    ASSUME OpenInv, [Next]_vars, NEW w \in Workers
    PROVE  \/ claim_batch(w) \/ record_success(w)
           \/ record_failure_retry(w) \/ record_failure_terminal(w)
           \/ block_descendants(w)
           \/ EndTransaction(w)
           \/ /\ UNCHANGED <<writes, attempt_writes>>
              /\ Locked(w) = {} /\ attempt_writes[w] = {}
           \/ GoesOn(w)
<1>0. TypeInv /\ pc \in [Clients -> Pcs] /\ w \in Clients
    BY DEF OpenInv, LockInv, TypeInv, TypeOK, Clients
<1>1. CASE claim_commit(w) \/ report_commit(w) \/ crash(w)
    BY <1>1 DEF claim_commit, report_commit, CommitReport, Commit, crash
<1>2. CASE \/ claim_batch_rejected(w) \/ start_task(w) \/ execute(w)
           \/ discard_result(w) \/ record_failure(w) \/ stop(w)
           \/ record_success_rejected(w) \/ renew_lease(w)
    <2>1. UNCHANGED <<writes, attempt_writes>> /\ pc[w] \notin InTransaction
        BY <1>2 DEF claim_batch_rejected, start_task, execute, discard_result,
            record_failure, stop, MayStop, record_success_rejected, renew_lease,
            InTransaction, transactions
    <2> QED
        BY <1>0, <2>1 DEF OpenInv, OpenOnly
<1>3. CASE block_descendants_done(w) \/ refresh_run_state(w)
    BY <1>0, <1>3 DEF block_descendants_done, refresh_run_state, GoesOn, Reporting,
        transactions, job
<1>4. CASE request_shutdown(w) \/ WorkerIdle(w)
    BY <1>4 DEF request_shutdown, WorkerIdle, GoesOn, transactions, job
<1> QED
    BY <1>0, <1>1, <1>2, <1>3, <1>4, WorkerFrame DEF WorkerStep, WorkerEvent

\* The same for a cancel request.
LEMMA RequestTransaction ==
    ASSUME OpenInv, [Next]_vars, NEW r \in Runs
    PROVE  \/ cancel(r)
           \/ EndTransaction(r)
           \/ /\ UNCHANGED <<writes, attempt_writes>>
              /\ Locked(r) = {} /\ attempt_writes[r] = {}
           \/ GoesOn(r)
<1>0. TypeInv /\ pc \in [Clients -> Pcs] /\ r \in Clients
    BY DEF OpenInv, LockInv, TypeInv, TypeOK, Clients
<1>1. CASE cancel_commit(r) \/ cancel_abort(r)
    BY <1>1 DEF cancel_commit, CommitReport, Commit, cancel_abort
<1>2. CASE cancel_run(r)
    BY <1>0, <1>2 DEF cancel_run, transactions, OpenInv, OpenOnly, InTransaction
<1>3. CASE refresh_run_state(r) \/ create_run(r) \/ RequestIdle(r)
    BY <1>0, <1>3 DEF refresh_run_state, create_run, RequestIdle, GoesOn, Reporting,
        transactions, process
<1> QED
    BY <1>0, <1>1, <1>2, <1>3, RequestFrame DEF CancelStep, ClientEvent

\* A row c keeps locked keeps its committed version.
LEMMA StillLocked ==
    ASSUME LockInv, [Next]_vars, NEW c \in Clients, NEW x \in Locked(c), Locked(c)' # {}
    PROVE  SameRow(task_runs[x], task_runs'[x])
    BY LockedRowStep DEF RowCommitted

\* The rows of a layer are rows the transaction has not written yet.
LEMMA LayerIsNew ==
    ASSUME HistoryInv, NEW w \in Workers, pc[w] = "blocking", NEW y \in BlockableLayer(w)
    PROVE  /\ y \in TaskRuns /\ y \notin Locked(w)
           /\ y[1] = current[w][1]
           /\ View(w)[y] = task_runs[y]
           /\ task_runs[y].state \in {"PENDING", "READY"}
<1>1. /\ y \in TaskRuns /\ View(w)[y].state \in {"PENDING", "READY"}
      /\ y[1] = current[w][1]
    BY DEF BlockableLayer
<1>2. ASSUME y \in Locked(w) PROVE FALSE
    <2>1. writes[w][y].state \in {"PENDING", "READY"}
        BY <1>1, <1>2 DEF View
    <2>2. Follows(w, y) /\ w \notin Runs
        BY <1>2, ClientsAssumption DEF HistoryInv, WritesFollow, Clients
    <2> QED
        BY <2>1, <2>2 DEF Follows, Claims, Reports, Unblocks, Blocks, Cancels
<1> QED
    BY <1>1, <1>2 DEF View

\* Every statement writes what the handler's decision says, on the row it read.
LEMMA WritesFollowStep == HistoryInv /\ [Next]_vars => WritesFollow'
<1> SUFFICES ASSUME HistoryInv, [Next]_vars PROVE WritesFollow'
    OBVIOUS
<1>0. /\ OwnerInv /\ OpenInv /\ LockInv /\ TypeInv
      /\ pc \in [Clients -> Pcs] /\ task_runs \in [TaskRuns -> TaskRunRow]
      /\ WritesFollow /\ \A x \in TaskRuns : HistoryOf(x)
    BY DEF HistoryInv, OwnerInv, OpenInv, LockInv, TypeInv, TypeOK
<1>a. ASSUME NEW c \in Clients, EndTransaction(c) PROVE Locked(c)' = {}
    BY <1>0, <1>a, EndedTransaction
<1>b. ASSUME NEW c \in Clients, GoesOn(c), NEW x \in Locked(c)' PROVE Follows(c, x)'
    <2>1. x \in Locked(c) /\ Locked(c)' # {}
        BY <1>b DEF GoesOn, Locked
    <2>2. SameRow(task_runs[x], task_runs'[x])
        BY <1>0, <2>1, StillLocked
    <2> QED
        BY <1>0, <1>b, <2>1, <2>2, FollowsStable DEF GoesOn, WritesFollow
<1>1. ASSUME NEW w \in Workers, NEW x \in Locked(w)' PROVE Follows(w, x)'
    <2> USE DEF Clients
    <2>0. x \in TaskRuns
        BY DEF Locked
    <2>1. CASE claim_batch(w)
        <3>1. /\ pc'[w] = "claiming" /\ UNCHANGED task_runs
            BY <1>0, <2>1 DEF claim_batch, tables
        <3>2. /\ task_runs[x].state = "READY" /\ MayClaim(x)
              /\ writes'[w][x] = ClaimedRow(w, task_runs[x])
            BY <1>0, <2>1, ClaimWrites
        <3> QED
            BY <1>0, <2>0, <3>1, <3>2, UpdateFields DEF Follows, Claims, MayClaim
    <2>2. CASE record_success(w)
        <3>1. /\ pc'[w] = "refreshing" /\ UNCHANGED <<task_runs, current>>
              /\ pc[w] = "succeeded" /\ Owns(w, current[w]) /\ current[w] \in TaskRuns
            BY <1>0, <2>2, SuccessWrites DEF record_success, tables, job
        <3>2. batch[w][current[w]] = task_runs[current[w]].attempt
            BY <1>0, <3>1 DEF OwnerInv, WorkerOwns, HoldsCurrent, Owns
        <3>3. /\ writes'[w][current[w]] =
                    SucceededRow(task_runs[current[w]], batch[w][current[w]])
              /\ writes'[w][current[w]].state = "SUCCEEDED"
            BY <1>0, <2>2, <3>1, SuccessWrites, UpdateFields DEF Released
        <3>4. CASE x = current[w]
            BY <1>0, <3>1, <3>2, <3>3, <3>4, UpdateFields
            DEF Follows, Reports, Reporting, Owns, Released
        <3>5. CASE x # current[w]
            <4>1. /\ x \in WaitingChildren(current[w])
                  /\ writes'[w][x] = UnblockedRow(task_runs[x])
                BY <1>0, <2>2, <3>5, SuccessWrites
            <4>2. task_runs[x].state = "PENDING" /\ current[w] \in Parents(x)
                BY <3>1, <4>1 DEF WaitingChildren, ChildrenOf, Parents, TaskRuns
            <4>3. Unblocks(w, x)'
                BY <1>0, <2>0, <3>1, <3>3, <4>1, <4>2, UpdateFields
                DEF Unblocks, Parents
            <4> QED
                BY <4>3 DEF Follows
        <3> QED
            BY <3>4, <3>5
    <2>3. CASE record_failure_retry(w) \/ record_failure_terminal(w)
        <3>1. /\ x = current[w] /\ task_runs[x].worker_id = w /\ x \in StillMine(w)
            BY <1>0, <2>3, FailureWrites DEF StillMine
        <3>2. /\ pc[w] = "failing" /\ UNCHANGED <<task_runs, current>>
              /\ record_failure_retry(w) => pc'[w] = "refreshing" /\ should_retry(w)
              /\ record_failure_terminal(w) => pc'[w] = "blocking" /\ ~should_retry(w)
            BY <1>0, <2>3 DEF record_failure_retry, record_failure_terminal, tables, job
        <3>3. task_runs[x].attempt = seen[w]
            BY <2>0, <1>0, <3>1, <3>2 DEF OwnerInv, WorkerOwns, HoldsCurrent,
                HistoryInv, SeenIsMine
        <3>4. task_runs[x].state = "RUNNING"
            BY <1>0, <2>0, <3>1, ClientsAssumption DEF LockInv, RowLeases, LeaseOK
        <3>5. /\ max_attempts[x[2]] \in Nat /\ task_runs[x].attempt \in Nat
              /\ task_runs[x].attempt <= max_attempts[x[2]]
            BY <1>0, <2>0, BudgetAssumption DEF TaskRuns, TaskRunRow, HistoryOf
        <3>6. CASE record_failure_retry(w)
            <4>1. writes'[w][x] = RetryRow(task_runs[x])
                BY <1>0, <3>1, <3>6, FailureWrites
            <4>2. task_runs[x].attempt < max_attempts[x[2]]
                BY <3>1, <3>2, <3>3, <3>6 DEF should_retry
            <4> QED
                BY <1>0, <2>0, <3>1, <3>2, <3>4, <3>6, <4>1, <4>2, UpdateFields
                DEF Follows, Reports, Reporting, Released
        <3>7. CASE record_failure_terminal(w)
            <4>1. writes'[w][x] = DeadRow(task_runs[x])
                BY <1>0, <3>1, <3>7, FailureWrites
            <4>2. task_runs[x].attempt = max_attempts[x[2]]
                BY <3>1, <3>2, <3>3, <3>5, <3>7 DEF should_retry
            <4> QED
                BY <1>0, <2>0, <3>1, <3>2, <3>4, <3>7, <4>1, <4>2, UpdateFields
                DEF Follows, Reports, Reporting, Released
        <3> QED
            BY <2>3, <3>6, <3>7
    <2>4. CASE block_descendants(w)
        <3>1. /\ pc[w] = "blocking" /\ pc' = pc /\ UNCHANGED <<task_runs, current>>
            BY <2>4 DEF block_descendants, tables
        <3>2. CASE x \in BlockableLayer(w)
            <4>1. /\ writes'[w][x] = BlockedRow(task_runs[x]) /\ x[1] = current[w][1]
                  /\ task_runs[x].state \in {"PENDING", "READY"}
                BY <1>0, <2>4, <3>1, <3>2, BlockWrites, LayerIsNew
            <4> QED
                BY <1>0, <2>0, <3>1, <4>1, UpdateFields DEF Follows, Blocks, Reporting
        <3>3. CASE x \notin BlockableLayer(w)
            <4>1. x \in Locked(w) /\ writes'[w][x] = writes[w][x]
                BY <1>0, <2>0, <2>4, <3>3, BlockWrites
            <4>2. Follows(w, x) /\ w \notin Runs
                BY <1>0, <4>1, ClientsAssumption DEF WritesFollow
            <4> QED
                BY <3>1, <4>1, <4>2
                DEF Follows, Claims, Reports, Unblocks, Blocks, Cancels
        <3> QED
            BY <3>2, <3>3
    <2>5. CASE UNCHANGED <<writes, attempt_writes>> /\ Locked(w) = {}
        BY <2>5 DEF Locked
    <2> QED
        BY <1>0, <1>a, <1>b, <2>1, <2>2, <2>3, <2>4, <2>5, WorkerTransaction
<1>2. ASSUME NEW r \in Runs, NEW x \in Locked(r)' PROVE Follows(r, x)'
    <2> USE DEF Clients
    <2>1. CASE cancel(r)
        <3>1. /\ x \in Cancellable(r) /\ x \in TaskRuns
              /\ writes'[r][x] = CancelledRow(task_runs[x])
            BY <1>0, <2>1, CancelWrites
        <3>2. x[1] = r /\ pc'[r] = "refreshing" /\ UNCHANGED task_runs
            BY <1>0, <2>1, <3>1 DEF cancel, Cancellable, tables
        <3> QED
            BY <1>0, <3>1, <3>2, UpdateFields DEF Follows, Cancels, Released
    <2>2. CASE UNCHANGED <<writes, attempt_writes>> /\ Locked(r) = {}
        BY <2>2 DEF Locked
    <2> QED
        BY <1>0, <1>a, <1>b, <2>1, <2>2, RequestTransaction
<1> QED
    BY <1>1, <1>2 DEF WritesFollow, Clients

-----------------------------------------------------------------------------
(* The attempt rows through commits and sweeps.                            *)

\* The attempts table after new rows: the rest of the old ones, and the new.
LEMMA WithAttemptsMember ==
    ASSUME NEW S, NEW a
    PROVE  a \in WithAttempts(S) <=>
               a \in S \/ (a \in task_attempts /\ \A b \in S : ~SameKey(a, b))
    BY DEF WithAttempts, SameKey

\* The rows a sweep writes: open attempts of expired leases, closed as FAILED.
LEMMA ReapedMember ==
    ASSUME TypeInv, NEW b
    PROVE  b \in ReapedAttempts(ExpiredLeases) <=>
               \E a \in task_attempts :
                  /\ a.task_run_id \in ExpiredLeases
                  /\ a.attempt = task_runs[a.task_run_id].attempt
                  /\ a.state = "RUNNING"
                  /\ b = [a EXCEPT !.state = "FAILED"]
    BY DEF ReapedAttempts, ClosedAttempt

\* Closing an attempt row changes its state and nothing else.
LEMMA ClosedFields ==
    ASSUME NEW a \in TaskAttemptRow, NEW s
    PROVE  LET b == [a EXCEPT !.state = s]
           IN  /\ SameKey(a, b) /\ SameKey(b, a) /\ b.worker_id = a.worker_id /\ b.state = s
               /\ b.task_run_id = a.task_run_id /\ b.attempt = a.attempt
    BY DEF TaskAttemptRow, SameKey

\* A transaction that has locked a row writes attempt rows of it only for a claim
\* or a report; one that has not, only to close an attempt of a cancelled task.
LEMMA AttemptWriteKinds ==
    ASSUME HistoryInv, NEW c \in Clients, NEW b \in attempt_writes[c]
    PROVE  \/ Opens(c, b) /\ Claims(c, b.task_run_id)
           \/ /\ Closes(c, b) /\ b.task_run_id \in Locked(c) /\ Reports(c, b.task_run_id)
              /\ b.attempt = task_runs[b.task_run_id].attempt
              /\ b.state = "SUCCEEDED" <=> writes[c][b.task_run_id].state = "SUCCEEDED"
           \/ /\ Closes(c, b) /\ b.task_run_id \notin Locked(c)
              /\ task_runs[b.task_run_id].state = "CANCELLED" /\ b.state # "SUCCEEDED"
<1>1. Opens(c, b) \/ Closes(c, b)
    BY DEF HistoryInv, AttemptWritesFollow
<1>2. CASE Opens(c, b)
    <2>1. Follows(c, b.task_run_id) /\ pc[c] = "claiming" /\ c \notin Runs
        BY <1>2, ClientsAssumption DEF Opens, HistoryInv, WritesFollow
    <2> QED
        BY <1>2, <2>1 DEF Follows, Reports, Unblocks, Blocks, Cancels, Reporting
<1>3. CASE Closes(c, b)
    <2>1. \A x \in Locked(c) : task_runs[x].state # "CANCELLED"
        BY DEF HistoryInv, OwnerInv, OpenInv, LockInv, LockedIsActive
    <2> QED
        BY <1>3, <2>1 DEF Closes
<1> QED
    BY <1>1, <1>2, <1>3

\* Attempt rows are never deleted and never change hands; one becomes successful
\* only by the commit of its own worker's report.
LEMMA AttemptsPersist ==
    ASSUME HistoryInv, [Next]_vars, NEW a \in task_attempts
    PROVE  \E b \in task_attempts' :
              /\ SameKey(b, a) /\ b.worker_id = a.worker_id
              /\ b.state = "SUCCEEDED" =>
                    a.state = "SUCCEEDED" \/ report_commit(a.worker_id)
<1> DEFINE Goal == \E b \in task_attempts' :
              /\ SameKey(b, a) /\ b.worker_id = a.worker_id
              /\ b.state = "SUCCEEDED" =>
                    a.state = "SUCCEEDED" \/ report_commit(a.worker_id)
<1>0. /\ LockInv /\ TypeInv /\ a \in TaskAttemptRow /\ UniqueKeys(task_attempts)
      /\ \A x \in TaskRuns : HistoryOf(x)
    BY DEF HistoryInv, OwnerInv, OpenInv, LockInv, TypeInv, TypeOK
<1>a. a.task_run_id \in TaskRuns /\ a.attempt \in Nat
    BY <1>0 DEF TaskAttemptRow
<1>b. Agree(a, task_runs[a.task_run_id])
    BY <1>0, <1>a DEF HistoryOf
<1>1. CASE task_attempts' = task_attempts
    BY <1>1 DEF SameKey
<1>2. ASSUME NEW c \in Clients, Commit(c), c \in Workers => claim_commit(c) \/ report_commit(c)
      PROVE  Goal
    <2>1. task_attempts' = WithAttempts(attempt_writes[c])
        BY <1>2 DEF Commit
    <2>2. CASE \A b \in attempt_writes[c] : ~SameKey(a, b)
        BY <2>1, <2>2, WithAttemptsMember DEF SameKey
    <2>3. ASSUME NEW b \in attempt_writes[c], SameKey(a, b) PROVE Goal
        <3>1. b \in task_attempts'
            BY <2>1, WithAttemptsMember
        <3>2. ~Opens(c, b)
            <4>1. task_runs[a.task_run_id].attempt \in Nat
                BY <1>0, <1>a DEF TypeInv, TypeOK, TaskRunRow
            <4> QED
                BY <1>b, <2>3, <4>1 DEF Opens, SameKey, Agree
        <3>3. Closes(c, b)
            BY <3>2 DEF HistoryInv, AttemptWritesFollow
        <3>4. b.worker_id = a.worker_id
            BY <1>0, <2>3, <3>3 DEF Closes, UniqueKeys, SameKey
        <3>5. b.state = "SUCCEEDED" => report_commit(a.worker_id)
            <4> SUFFICES ASSUME b.state = "SUCCEEDED" PROVE report_commit(a.worker_id)
                OBVIOUS
            <4>1. /\ Reports(c, a.task_run_id)
                  /\ a.attempt = task_runs[a.task_run_id].attempt
                BY <2>3, <3>2, AttemptWriteKinds DEF SameKey
            <4>2. a.worker_id = c /\ c \in Workers /\ pc[c] # "claiming"
                BY <1>b, <4>1 DEF Reports, Agree, Reporting
            <4> QED
                BY <1>2, <4>2 DEF claim_commit
        <3> QED
            BY <2>3, <3>1, <3>4, <3>5 DEF SameKey
    <2> QED
        BY <2>2, <2>3
<1>3. CASE reap_expired_leases
    <2>1. task_attempts' = WithAttempts(ReapedAttempts(ExpiredLeases))
        BY <1>3 DEF reap_expired_leases
    <2>2. CASE \A b \in ReapedAttempts(ExpiredLeases) : ~SameKey(a, b)
        BY <2>1, <2>2, WithAttemptsMember DEF SameKey
    <2>3. ASSUME NEW b \in ReapedAttempts(ExpiredLeases), SameKey(a, b) PROVE Goal
        <3>1. PICK d \in task_attempts : b = [d EXCEPT !.state = "FAILED"]
            BY <1>0, ReapedMember
        <3>2. d \in TaskAttemptRow
            BY <1>0 DEF TypeInv, TypeOK
        <3>3. SameKey(d, b) /\ b.worker_id = d.worker_id /\ b.state = "FAILED"
            BY <3>1, <3>2, ClosedFields
        <3>4. d = a
            BY <1>0, <2>3, <3>3 DEF SameKey, UniqueKeys
        <3>5. b \in task_attempts'
            BY <2>1, WithAttemptsMember
        <3> QED
            BY <2>3, <3>3, <3>4, <3>5 DEF SameKey
    <2> QED
        BY <2>2, <2>3
<1>4. ASSUME NEW w \in Workers, claim_commit(w) \/ report_commit(w) PROVE Goal
    BY <1>2, <1>4 DEF claim_commit, report_commit, CommitReport, Clients
<1>5. ASSUME NEW r \in Runs, create_run(r) \/ cancel_commit(r) PROVE Goal
    BY <1>1, <1>2, <1>5, ClientsAssumption
    DEF create_run, cancel_commit, CommitReport, Clients
<1> QED
    BY <1>0, <1>1, <1>3, <1>4, <1>5, TableStep DEF Quiet

\* UNIQUE (task_run_id, attempt) is kept by the handlers themselves.
LEMMA UniqueKeysStep ==
    ASSUME HistoryInv, [Next]_vars PROVE UniqueKeys(task_attempts)'
<1>0. /\ LockInv /\ TypeInv /\ UniqueKeys(task_attempts) /\ task_attempts \subseteq TaskAttemptRow
    BY DEF HistoryInv, OwnerInv, OpenInv, LockInv, TypeInv, TypeOK
<1>1. ASSUME NEW S, UniqueKeys(S), task_attempts' = WithAttempts(S)
      PROVE  UniqueKeys(task_attempts)'
    <2> SUFFICES ASSUME NEW a \in WithAttempts(S), NEW b \in WithAttempts(S), SameKey(a, b)
                 PROVE  a = b
        BY <1>1 DEF UniqueKeys, SameKey
    <2>1. SameKey(b, a)
        BY DEF SameKey
    <2> QED
        BY <1>0, <1>1, <2>1, WithAttemptsMember DEF UniqueKeys
<1>2. CASE task_attempts' = task_attempts
    BY <1>0, <1>2 DEF UniqueKeys, SameKey
<1>3. ASSUME NEW c \in Clients, Commit(c) PROVE UniqueKeys(task_attempts)'
    BY <1>1, <1>3 DEF Commit, HistoryInv, AttemptWritesFollow
<1>4. CASE reap_expired_leases
    <2>1. UniqueKeys(ReapedAttempts(ExpiredLeases))
        <3> SUFFICES ASSUME NEW a \in ReapedAttempts(ExpiredLeases),
                            NEW b \in ReapedAttempts(ExpiredLeases), SameKey(a, b)
                     PROVE  a = b
            BY DEF UniqueKeys
        <3>1. PICK d \in task_attempts : a = [d EXCEPT !.state = "FAILED"]
            BY <1>0, ReapedMember
        <3>2. PICK e \in task_attempts : b = [e EXCEPT !.state = "FAILED"]
            BY <1>0, ReapedMember
        <3>3. SameKey(d, a) /\ SameKey(e, b)
            BY <1>0, <3>1, <3>2, ClosedFields
        <3>4. d = e
            BY <1>0, <3>3 DEF UniqueKeys, SameKey
        <3> QED
            BY <3>1, <3>2, <3>4
    <2> QED
        BY <1>1, <1>4, <2>1 DEF reap_expired_leases
<1> QED
    BY <1>0, <1>2, <1>3, <1>4, TableStep DEF Quiet, create_run, claim_commit,
        report_commit, cancel_commit, CommitReport, Clients

\* A commit keeps the history of every task true.
LEMMA CommitHistory ==
    ASSUME HistoryInv, NEW c \in Clients, Commit(c), pc[c] \in {"claiming", "committing"},
           NEW x \in TaskRuns
    PROVE  HistoryOf(x)'
<1> DEFINE S == attempt_writes[c]
           old == task_runs[x]
           new == task_runs'[x]
<1>0. /\ HistoryOf(x) /\ old \in TaskRunRow /\ task_attempts \subseteq TaskAttemptRow
      /\ S \subseteq TaskAttemptRow /\ max_attempts[x[2]] \in Nat
      /\ writes[c][x] \in TaskRunRow
    BY BudgetAssumption
    DEF HistoryInv, OwnerInv, OpenInv, LockInv, TypeInv, TypeOK, TaskRuns
<1>1. /\ task_attempts' = WithAttempts(S)
      /\ new = IF x \in Locked(c) THEN writes[c][x] ELSE old
    BY DEF Commit, View
<1>2. old.attempt \in Nat /\ new.attempt \in Nat
    BY <1>0, <1>1 DEF TaskRunRow
<1>3. \A a \in task_attempts : a.attempt \in Nat /\ (a.task_run_id = x => Agree(a, old))
    BY <1>0 DEF HistoryOf, TaskAttemptRow
<1>4. CASE \A b \in S : b.task_run_id # x
    <2>1. \A a : a.task_run_id = x => (a \in task_attempts' <=> a \in task_attempts)
        BY <1>1, <1>4, WithAttemptsMember DEF SameKey
    <2>2. CASE x \notin Locked(c)
        BY <1>0, <1>1, <2>1, <2>2 DEF HistoryOf, Agree
    <2>3. CASE x \in Locked(c)
        <3>1. Follows(c, x) /\ old.state \in {"PENDING", "READY", "RUNNING", "RETRYING"}
            BY <2>3 DEF HistoryInv, WritesFollow, OwnerInv, OpenInv, LockInv, LockedIsActive
        <3>2. ~Claims(c, x) /\ ~Reports(c, x)
            BY <1>4, <2>3 DEF HistoryInv, AttemptWritesFollow
        <3>3. /\ new.attempt = old.attempt /\ new.output = old.output
              /\ new.state \in {"PENDING", "READY", "BLOCKED", "CANCELLED"}
              /\ new.state # "CANCELLED" => old.state \in {"PENDING", "READY"}
              /\ new.state = "PENDING" => old.state = "PENDING"
            BY <1>1, <2>3, <3>1, <3>2 DEF Follows, Unblocks, Blocks, Cancels
        <3>4. \A a \in task_attempts : a.task_run_id = x => Agree(a, new)
            BY <1>3, <3>1, <3>3 DEF Agree
        <3>5. /\ new.output = 0 /\ new.attempt <= max_attempts[x[2]]
              /\ new.state = "PENDING" => new.attempt = 0
            BY <1>0, <3>1, <3>3 DEF HistoryOf
        <3> QED
            BY <1>0, <2>1, <3>3, <3>4, <3>5 DEF HistoryOf
    <2> QED
        BY <2>2, <2>3
<1>5. ASSUME NEW b \in S, b.task_run_id = x PROVE HistoryOf(x)'
    <2>1. b \in task_attempts' /\ b.attempt \in Nat
        BY <1>0, <1>1, <1>5, WithAttemptsMember DEF TaskAttemptRow
    <2>2. CASE Opens(c, b) /\ Claims(c, x)
        <3>1. /\ x \in Locked(c) /\ pc[c] = "claiming" /\ b.attempt = old.attempt + 1
              /\ b.worker_id = c /\ b.state = "RUNNING"
            BY <1>5, <2>2 DEF Opens
        <3>2. /\ new.attempt = old.attempt + 1 /\ new.state = "RUNNING"
              /\ new.worker_id = c /\ new.output = old.output
              /\ new.attempt <= max_attempts[x[2]] /\ old.state = "READY"
            BY <1>1, <2>2, <3>1 DEF Claims
        <3>3. \A d \in S : d.task_run_id = x => d = b
            <4> SUFFICES ASSUME NEW d \in S, d.task_run_id = x PROVE d = b
                OBVIOUS
            <4>1. Opens(c, d)
                BY <3>1 DEF HistoryInv, AttemptWritesFollow, Closes, Reporting
            <4>2. SameKey(d, b)
                BY <1>5, <3>1, <4>1 DEF Opens, SameKey
            <4> QED
                BY <4>2 DEF HistoryInv, AttemptWritesFollow, UniqueKeys
        <3>4. \A a \in task_attempts : a.task_run_id = x =>
                 /\ a \in task_attempts'
                 /\ a.attempt \in 1..old.attempt
                 /\ a.state \notin {"RUNNING", "SUCCEEDED"}
            <4>1. \A a \in task_attempts : a.task_run_id = x =>
                     a.attempt \in 1..old.attempt /\ a.state \notin {"RUNNING", "SUCCEEDED"}
                BY <1>3, <3>2 DEF Agree
            <4>2. \A a \in task_attempts : a.task_run_id = x =>
                     \A d \in S : ~SameKey(a, d)
                BY <1>2, <3>1, <3>3, <4>1 DEF SameKey
            <4> QED
                BY <1>1, <4>1, <4>2, WithAttemptsMember
        <3>5. \A a \in task_attempts' : a.task_run_id = x => Agree(a, new)
            <4> SUFFICES ASSUME NEW a \in task_attempts', a.task_run_id = x
                         PROVE  Agree(a, new)
                OBVIOUS
            <4>1. CASE a = b
                BY <1>2, <3>1, <3>2, <4>1 DEF Agree
            <4>2. CASE a # b
                <5>1. a \in task_attempts
                    BY <1>1, <3>3, <4>2, WithAttemptsMember
                <5> QED
                    BY <1>2, <3>2, <3>4, <5>1 DEF Agree
            <4> QED
                BY <4>1, <4>2
        <3>6. \A n \in 1..new.attempt :
                 \E a \in task_attempts' : a.task_run_id = x /\ a.attempt = n
            <4> SUFFICES ASSUME NEW n \in 1..new.attempt
                         PROVE  \E a \in task_attempts' : a.task_run_id = x /\ a.attempt = n
                OBVIOUS
            <4>1. n = old.attempt + 1 \/ n \in 1..old.attempt
                BY <1>2, <3>2
            <4> QED
                BY <1>0, <1>5, <2>1, <3>1, <3>4, <4>1 DEF HistoryOf
        <3>7. new.output = 0
            BY <1>0, <3>2 DEF HistoryOf
        <3> QED
            BY <3>2, <3>5, <3>6, <3>7 DEF HistoryOf
    <2>3. ASSUME Closes(c, b), b.attempt \in 1..old.attempt, new.attempt = old.attempt,
                 \A d \in S : d.task_run_id = x =>
                     d.attempt \in 1..old.attempt /\ Agree(d, new),
                 \A a \in task_attempts : a.task_run_id = x =>
                     Agree(a, new) \/ \E d \in S : SameKey(a, d)
          PROVE  /\ \A n \in 1..new.attempt :
                      \E a \in task_attempts' : a.task_run_id = x /\ a.attempt = n
                 /\ \A a \in task_attempts' : a.task_run_id = x => Agree(a, new)
        <3>1. ASSUME NEW n \in 1..new.attempt
              PROVE  \E a \in task_attempts' : a.task_run_id = x /\ a.attempt = n
            <4>1. PICK a \in task_attempts : a.task_run_id = x /\ a.attempt = n
                BY <1>0, <2>3, <3>1 DEF HistoryOf
            <4>2. CASE \A d \in S : ~SameKey(a, d)
                BY <1>1, <4>1, <4>2, WithAttemptsMember
            <4>3. ASSUME NEW d \in S, SameKey(a, d)
                  PROVE  \E e \in task_attempts' : e.task_run_id = x /\ e.attempt = n
                BY <1>1, <4>1, <4>3, WithAttemptsMember DEF SameKey
            <4> QED
                BY <4>2, <4>3
        <3>2. ASSUME NEW a \in task_attempts', a.task_run_id = x PROVE Agree(a, new)
            BY <1>1, <2>3, <3>2, WithAttemptsMember
        <3> QED
            BY <3>1, <3>2
    <2>4. CASE /\ Closes(c, b) /\ x \in Locked(c) /\ Reports(c, x)
               /\ b.attempt = old.attempt
               /\ b.state = "SUCCEEDED" <=> writes[c][x].state = "SUCCEEDED"
        <3>1. /\ old.state = "RUNNING" /\ new.attempt = old.attempt
              /\ \/ new.state = "SUCCEEDED" /\ new.output = new.attempt
                 \/ new.state \in {"READY", "DEAD_LETTER"} /\ new.output = old.output
            BY <1>1, <2>4 DEF Reports
        <3>2. old.attempt > 0 /\ old.output = 0 /\ old.attempt <= max_attempts[x[2]]
            BY <1>0, <3>1 DEF HistoryInv, OwnerInv, RunningIsAttempted, HistoryOf
        <3>3. \A d \in S : d.task_run_id = x =>
                 /\ d.attempt = old.attempt /\ d.state # "RUNNING"
                 /\ d.state = "SUCCEEDED" <=> new.state = "SUCCEEDED"
            <4> SUFFICES ASSUME NEW d \in S, d.task_run_id = x
                         PROVE  /\ d.attempt = old.attempt /\ d.state # "RUNNING"
                                /\ d.state = "SUCCEEDED" <=> new.state = "SUCCEEDED"
                OBVIOUS
            <4>1. pc[c] # "claiming"
                BY <2>4 DEF Closes, Reporting
            <4> QED
                BY <1>1, <2>4, <3>1, <4>1, AttemptWriteKinds DEF Closes, Opens
        <3>4. \A d \in S : d.task_run_id = x => d.attempt \in 1..old.attempt /\ Agree(d, new)
            BY <1>2, <3>1, <3>2, <3>3 DEF Agree
        <3>5. \A a \in task_attempts : a.task_run_id = x =>
                 Agree(a, new) \/ \E d \in S : SameKey(a, d)
            <4> SUFFICES ASSUME NEW a \in task_attempts, a.task_run_id = x, ~SameKey(a, b)
                         PROVE  Agree(a, new)
                OBVIOUS
            <4>1. a.attempt # old.attempt
                BY <1>5, <2>4 DEF SameKey
            <4> QED
                BY <1>3, <3>1, <4>1 DEF Agree
        <3>6. b.attempt \in 1..old.attempt
            BY <1>2, <2>4, <3>2
        <3> HIDE DEF S, old, new
        <3>7. /\ \A n \in 1..new.attempt :
                   \E a \in task_attempts' : a.task_run_id = x /\ a.attempt = n
              /\ \A a \in task_attempts' : a.task_run_id = x => Agree(a, new)
            BY <2>3, <2>4, <3>1, <3>4, <3>5, <3>6
        <3>8. /\ new.attempt <= max_attempts[x[2]]
              /\ new.output = IF new.state = "SUCCEEDED" THEN new.attempt ELSE 0
              /\ new.state \notin {"ABSENT", "PENDING"}
            BY <3>1, <3>2
        <3> QED
            BY <3>7, <3>8 DEF HistoryOf, new
    <2>5. CASE /\ Closes(c, b) /\ x \notin Locked(c) /\ old.state = "CANCELLED"
        <3>1. new = old
            BY <1>1, <2>5
        <3>2. \A d \in S : d.task_run_id = x => Closes(c, d) /\ d.state # "SUCCEEDED"
            <4>1. pc[c] # "claiming"
                BY <2>5 DEF Closes, Reporting
            <4> QED
                BY <2>5, <4>1, AttemptWriteKinds DEF Opens
        <3>3. \A d \in S : d.task_run_id = x => d.attempt \in 1..old.attempt /\ Agree(d, new)
            <4> SUFFICES ASSUME NEW d \in S, d.task_run_id = x
                         PROVE  d.attempt \in 1..old.attempt /\ Agree(d, new)
                OBVIOUS
            <4>1. PICK a \in task_attempts : SameKey(a, d)
                BY <3>2 DEF Closes
            <4>2. d.attempt \in 1..old.attempt
                BY <1>3, <4>1 DEF SameKey, Agree
            <4> QED
                BY <2>5, <3>1, <3>2, <4>2 DEF Agree, Closes
        <3>4. /\ \A n \in 1..new.attempt :
                   \E a \in task_attempts' : a.task_run_id = x /\ a.attempt = n
              /\ \A a \in task_attempts' : a.task_run_id = x => Agree(a, new)
            BY <1>3, <1>5, <2>3, <2>5, <3>1, <3>3
        <3> QED
            BY <1>0, <3>1, <3>4 DEF HistoryOf
    <2> QED
        BY <1>5, <2>2, <2>4, <2>5, AttemptWriteKinds
<1> QED
    BY <1>4, <1>5

\* Every action keeps the history of every task true.
LEMMA HistoryOfStep ==
    ASSUME HistoryInv, [Next]_vars, NEW x \in TaskRuns PROVE HistoryOf(x)'
<1>0. /\ LockInv /\ TypeInv /\ HistoryOf(x) /\ UniqueKeys(task_attempts)
      /\ task_runs \in [TaskRuns -> TaskRunRow] /\ task_attempts \subseteq TaskAttemptRow
      /\ max_attempts[x[2]] \in Nat /\ task_runs[x].attempt \in Nat
    BY BudgetAssumption
    DEF HistoryInv, OwnerInv, OpenInv, LockInv, TypeInv, TypeOK, TaskRuns, TaskRunRow
<1>1. CASE Quiet
    BY <1>0, <1>1 DEF Quiet, SameRow, HistoryOf, Agree
<1>2. ASSUME NEW r \in Runs, create_run(r) PROVE HistoryOf(x)'
    <2>1. task_attempts' = task_attempts
        BY <1>2 DEF create_run
    <2>2. CASE x[1] # r
        BY <1>0, <1>2, <2>1, <2>2 DEF create_run, HistoryOf, Agree
    <2>3. CASE x[1] = r
        <3>1. task_runs[x].state = "ABSENT"
            BY <1>0, <1>2, <2>3 DEF create_run, LockInv, AbsentTogether
        <3>2. task_runs[x].attempt = 0 /\ \A a \in task_attempts : a.task_run_id # x
            BY <1>0, <3>1 DEF HistoryOf, Agree
        <3>3. task_runs'[x] = CreatedRow(x[2])
            BY <1>2, <2>3 DEF create_run
        <3>4. /\ task_runs'[x].attempt = 0 /\ task_runs'[x].output = 0
              /\ task_runs'[x].state \in {"READY", "PENDING"}
            BY <3>3 DEF CreatedRow, AbsentRow
        <3> QED
            BY <1>0, <2>1, <3>2, <3>4 DEF HistoryOf
    <2> QED
        BY <2>2, <2>3
<1>3. CASE reap_expired_leases
    <2> DEFINE S == ReapedAttempts(ExpiredLeases)
    <2>1. task_attempts' = WithAttempts(S)
        BY <1>3 DEF reap_expired_leases
    <2>2. ASSUME NEW b \in S
          PROVE  \E a \in task_attempts :
                    /\ a.task_run_id \in ExpiredLeases
                    /\ a.attempt = task_runs[a.task_run_id].attempt
                    /\ b = [a EXCEPT !.state = "FAILED"]
                    /\ SameKey(a, b) /\ b.state = "FAILED"
        <3>1. PICK a \in task_attempts :
                    /\ a.task_run_id \in ExpiredLeases
                    /\ a.attempt = task_runs[a.task_run_id].attempt
                    /\ b = [a EXCEPT !.state = "FAILED"]
            BY <1>0, ReapedMember
        <3> QED
            BY <1>0, <3>1, ClosedFields
    <2>3. CASE x \notin ExpiredLeases
        <3>1. task_runs'[x] = task_runs[x]
            BY <1>3, <2>3 DEF reap_expired_leases
        <3>2. \A b \in S : b.task_run_id # x
            BY <2>2, <2>3 DEF SameKey
        <3>3. \A a : a.task_run_id = x => (a \in task_attempts' <=> a \in task_attempts)
            BY <2>1, <3>2, WithAttemptsMember DEF SameKey
        <3> QED
            BY <1>0, <3>1, <3>3 DEF HistoryOf, Agree
    <2>4. CASE x \in ExpiredLeases
        <3> DEFINE old == task_runs[x]
                   new == task_runs'[x]
        <3>1. old.state = "RUNNING"
            BY <2>4 DEF ExpiredLeases
        <3>2. /\ new.state = "READY" /\ new.attempt = old.attempt /\ new.output = old.output
            BY <1>0, <1>3, <2>4, UpdateFields DEF reap_expired_leases, Released
        <3>3. \A b \in S : b.task_run_id = x => Agree(b, new)
            <4> SUFFICES ASSUME NEW b \in S, b.task_run_id = x PROVE Agree(b, new)
                OBVIOUS
            <4>1. PICK a \in task_attempts : SameKey(a, b) /\ b.state = "FAILED"
                BY <2>2
            <4>2. b.attempt \in 1..old.attempt
                BY <1>0, <4>1 DEF HistoryOf, Agree, SameKey
            <4> QED
                BY <3>2, <4>1, <4>2 DEF Agree
        <3>4. ASSUME NEW a \in task_attempts, a.task_run_id = x, \A b \in S : ~SameKey(a, b)
              PROVE  Agree(a, new)
            <4>1. Agree(a, old)
                BY <1>0, <3>4 DEF HistoryOf
            <4>2. a.attempt # old.attempt
                <5> SUFFICES ASSUME a.attempt = old.attempt PROVE FALSE
                    OBVIOUS
                <5>1. a.state = "RUNNING" /\ a \in TaskAttemptRow
                    BY <1>0, <3>1, <4>1 DEF Agree
                <5>2. [a EXCEPT !.state = "FAILED"] \in S
                    BY <1>0, <2>4, <3>4, <5>1, ReapedMember
                <5> QED
                    BY <3>4, <5>1, <5>2, ClosedFields
            <4> QED
                BY <3>1, <3>2, <4>1, <4>2 DEF Agree
        <3>5. ASSUME NEW n \in 1..new.attempt
              PROVE  \E a \in task_attempts' : a.task_run_id = x /\ a.attempt = n
            <4>1. PICK a \in task_attempts : a.task_run_id = x /\ a.attempt = n
                BY <1>0, <3>2, <3>5 DEF HistoryOf
            <4>2. CASE \A b \in S : ~SameKey(a, b)
                BY <2>1, <4>1, <4>2, WithAttemptsMember
            <4>3. ASSUME NEW b \in S, SameKey(a, b)
                  PROVE  \E e \in task_attempts' : e.task_run_id = x /\ e.attempt = n
                BY <2>1, <4>1, <4>3, WithAttemptsMember DEF SameKey
            <4> QED
                BY <4>2, <4>3
        <3>6. \A a \in task_attempts' : a.task_run_id = x => Agree(a, new)
            BY <2>1, <3>3, <3>4, WithAttemptsMember
        <3>7. new.output = 0 /\ new.attempt <= max_attempts[x[2]]
            BY <1>0, <3>1, <3>2 DEF HistoryOf
        <3> QED
            BY <3>2, <3>5, <3>6, <3>7 DEF HistoryOf
    <2> QED
        BY <2>3, <2>4
<1>4. ASSUME NEW w \in Workers, claim_commit(w) \/ report_commit(w) PROVE HistoryOf(x)'
    BY <1>4, CommitHistory DEF claim_commit, report_commit, CommitReport, Clients
<1>5. ASSUME NEW r \in Runs, cancel_commit(r) PROVE HistoryOf(x)'
    BY <1>5, CommitHistory DEF cancel_commit, CommitReport, Clients
<1> QED
    BY <1>0, <1>1, <1>2, <1>3, <1>4, <1>5, TableStep

\* A report closes attempt rows of its own task, one at most.
LEMMA ClosedOnce ==
    ASSUME HistoryInv, NEW x, NEW n, NEW s
    PROVE  /\ UniqueKeys(ClosedAttempt(x, n, s))
           /\ \A b \in ClosedAttempt(x, n, s) :
                 \E a \in task_attempts :
                    /\ a.task_run_id = x /\ a.attempt = n /\ a.state = "RUNNING"
                    /\ SameKey(a, b) /\ a.worker_id = b.worker_id /\ b.state = s
           /\ \A a \in task_attempts :
                 a.task_run_id = x /\ a.attempt = n /\ a.state = "RUNNING" =>
                    \E b \in ClosedAttempt(x, n, s) : b.task_run_id = x
<1>0. task_attempts \subseteq TaskAttemptRow /\ UniqueKeys(task_attempts)
    BY DEF HistoryInv, OwnerInv, OpenInv, LockInv, TypeInv, TypeOK
<1>1. ASSUME NEW b \in ClosedAttempt(x, n, s)
      PROVE  \E a \in task_attempts :
                /\ a.task_run_id = x /\ a.attempt = n /\ a.state = "RUNNING"
                /\ b = [a EXCEPT !.state = s]
                /\ SameKey(a, b) /\ a.worker_id = b.worker_id /\ b.state = s
    <2>1. PICK a \in task_attempts :
                /\ a.task_run_id = x /\ a.attempt = n /\ a.state = "RUNNING"
                /\ b = [a EXCEPT !.state = s]
        BY DEF ClosedAttempt
    <2> QED
        BY <1>0, <2>1, ClosedFields
<1>2. UniqueKeys(ClosedAttempt(x, n, s))
    <2> SUFFICES ASSUME NEW b \in ClosedAttempt(x, n, s), NEW d \in ClosedAttempt(x, n, s)
                 PROVE  b = d
        BY DEF UniqueKeys
    <2>1. PICK a \in task_attempts : a.task_run_id = x /\ a.attempt = n /\ b = [a EXCEPT !.state = s]
        BY <1>1
    <2>2. PICK e \in task_attempts : e.task_run_id = x /\ e.attempt = n /\ d = [e EXCEPT !.state = s]
        BY <1>1
    <2>3. a = e
        BY <1>0, <2>1, <2>2 DEF UniqueKeys, SameKey
    <2> QED
        BY <2>1, <2>2, <2>3
<1>3. ASSUME NEW a \in task_attempts, a.task_run_id = x, a.attempt = n, a.state = "RUNNING"
      PROVE  \E b \in ClosedAttempt(x, n, s) : b.task_run_id = x
    <2>1. [a EXCEPT !.state = s] \in ClosedAttempt(x, n, s)
        BY <1>3 DEF ClosedAttempt
    <2>2. [a EXCEPT !.state = s].task_run_id = x
        BY <1>0, <1>3, ClosedFields
    <2> QED
        BY <2>1, <2>2
<1> QED
    BY <1>1, <1>2, <1>3

\* A running task has exactly the attempt row its owner opened.
LEMMA RunningHasAttempt ==
    ASSUME HistoryInv, NEW x \in TaskRuns, task_runs[x].state = "RUNNING"
    PROVE  \E a \in task_attempts :
              /\ a.task_run_id = x /\ a.attempt = task_runs[x].attempt
              /\ a.state = "RUNNING" /\ a.worker_id = task_runs[x].worker_id
<1>1. task_runs[x].attempt \in Nat /\ task_runs[x].attempt > 0 /\ HistoryOf(x)
    BY DEF HistoryInv, OwnerInv, RunningIsAttempted, OpenInv, LockInv, TypeInv, TypeOK,
        TaskRunRow
<1>2. PICK a \in task_attempts : a.task_run_id = x /\ a.attempt = task_runs[x].attempt
    BY <1>1 DEF HistoryOf
<1> QED
    BY <1>1, <1>2 DEF HistoryOf, Agree

\* The attempt rows a transaction will write stay what they are while it waits.
LEMMA AttemptWritesStable ==
    ASSUME HistoryInv, [Next]_vars, NEW c \in Clients, GoesOn(c)
    PROVE  AttemptWritesFollow(c)'
<1>0. /\ LockInv /\ AttemptWritesFollow(c) /\ WritesFollow
    BY DEF HistoryInv, OwnerInv, OpenInv
<1>1. Locked(c)' = Locked(c) /\ attempt_writes'[c] = attempt_writes[c]
      /\ writes'[c] = writes[c]
    BY DEF GoesOn, Locked
<1>2. \A x \in Locked(c) : SameRow(task_runs[x], task_runs'[x])
    BY <1>0, <1>1, StillLocked
<1>3. \A x \in Locked(c) : /\ Claims(c, x) => Claims(c, x)'
                           /\ Reports(c, x) => Reports(c, x)'
    BY <1>2, FollowsStable DEF GoesOn
<1>4. UniqueKeys(attempt_writes[c])'
    BY <1>0, <1>1 DEF AttemptWritesFollow, UniqueKeys, SameKey
<1>5. ASSUME NEW b \in attempt_writes[c] PROVE Opens(c, b)' \/ Closes(c, b)'
    <2>1. CASE Opens(c, b)
        <3>1. pc'[c] = "claiming"
            BY <2>1 DEF Opens, GoesOn, Reporting
        <3> QED
            BY <1>1, <1>2, <2>1, <3>1 DEF Opens, SameRow
    <2>2. CASE Closes(c, b)
        <3>1. /\ c \in Workers /\ pc'[c] \in Reporting /\ current'[c] = current[c]
              /\ current[c] \in TaskRuns
            BY <1>0, <2>2, ClientsAssumption
            DEF Closes, GoesOn, Reporting, LockInv, TypeInv, JobHasTask
        <3>2. \E a \in task_attempts' : SameKey(a, b) /\ a.worker_id = b.worker_id
            <4>1. PICK a \in task_attempts : SameKey(a, b) /\ a.worker_id = b.worker_id
                BY <2>2 DEF Closes
            <4>2. PICK d \in task_attempts' : SameKey(d, a) /\ d.worker_id = a.worker_id
                BY AttemptsPersist
            <4> QED
                BY <4>1, <4>2 DEF SameKey
        <3>3. CASE current[c] \in Locked(c) /\ Reports(c, current[c])
            <4>1. Reports(c, current[c])'
                BY <1>3, <3>1, <3>3
            <4>2. /\ b.attempt = task_runs[current[c]].attempt
                  /\ b.state = "SUCCEEDED" <=> writes[c][current[c]].state = "SUCCEEDED"
                BY <2>2, <3>3 DEF Closes, Reports
            <4> QED
                BY <1>1, <1>2, <2>2, <3>1, <3>2, <3>3, <4>1, <4>2 DEF Closes, SameRow, SameKey
        <3>4. CASE task_runs[current[c]].state = "CANCELLED" /\ b.state # "SUCCEEDED"
            <4>1. task_runs'[current[c]].state = "CANCELLED"
                BY <1>0, <3>1, <3>4, InactiveIsStable DEF ActiveTaskStates, LockInv, AbsentTogether
            <4> QED
                BY <2>2, <3>1, <3>2, <3>4, <4>1 DEF Closes, SameKey
        <3> QED
            BY <2>2, <3>3, <3>4 DEF Closes
    <2> QED
        BY <1>0, <2>1, <2>2 DEF AttemptWritesFollow
<1>6. ASSUME NEW x \in Locked(c), Claims(c, x)' \/ Reports(c, x)'
      PROVE  \E b \in attempt_writes[c] : b.task_run_id = x
    <2>1. Follows(c, x)
        BY <1>0 DEF WritesFollow
    <2>2. CASE Claims(c, x) \/ Reports(c, x)
        BY <1>0, <2>2 DEF AttemptWritesFollow
    <2>3. CASE Unblocks(c, x) \/ Blocks(c, x) \/ Cancels(c, x)
        <3>1. task_runs'[x].state = task_runs[x].state /\ writes'[c][x] = writes[c][x]
            BY <1>1, <1>2 DEF SameRow
        <3> QED
            BY <1>6, <2>3, <3>1, ClientsAssumption
            DEF Unblocks, Blocks, Cancels, Claims, Reports
    <2> QED
        BY <2>1, <2>2, <2>3 DEF Follows
<1> QED
    BY <1>1, <1>4, <1>5, <1>6 DEF AttemptWritesFollow

\* Every action keeps the uncommitted attempt rows true.
LEMMA AttemptWritesStep ==
    ASSUME HistoryInv, [Next]_vars, NEW c \in Clients PROVE AttemptWritesFollow(c)'
<1>0. /\ OpenInv /\ LockInv /\ TypeInv /\ OwnerInv
      /\ task_runs \in [TaskRuns -> TaskRunRow] /\ pc \in [Clients -> Pcs]
    BY DEF HistoryInv, OwnerInv, OpenInv, LockInv, TypeInv, TypeOK
<1>1. CASE Locked(c)' = {} /\ attempt_writes'[c] = {}
    BY <1>1 DEF AttemptWritesFollow, UniqueKeys
<1>2. ASSUME NEW w \in Workers, c = w PROVE AttemptWritesFollow(w)'
    <2>1. CASE claim_batch(w)
        <3>1. /\ \A x \in Locked(w)' :
                    /\ x \in TaskRuns /\ task_runs[x].state = "READY"
                    /\ writes'[w][x] = ClaimedRow(w, task_runs[x])
              /\ attempt_writes'[w] =
                    {[task_run_id |-> x, attempt |-> task_runs[x].attempt + 1,
                      worker_id |-> w, state |-> "RUNNING"] : x \in Locked(w)'}
            BY <1>0, <2>1, ClaimWrites
        <3>2. UNCHANGED task_runs /\ pc'[w] = "claiming"
            BY <1>0, <1>2, <2>1 DEF claim_batch, tables
        <3>3. \A b \in attempt_writes'[w] : Opens(w, b)'
            BY <3>1, <3>2 DEF Opens
        <3>4. UniqueKeys(attempt_writes[w])'
            BY <3>1 DEF UniqueKeys, SameKey
        <3>5. ASSUME NEW x \in Locked(w)'
              PROVE  \E b \in attempt_writes'[w] : b.task_run_id = x
            <4> DEFINE b == [task_run_id |-> x, attempt |-> task_runs[x].attempt + 1,
                             worker_id |-> w, state |-> "RUNNING"]
            <4>1. b \in attempt_writes'[w] /\ b.task_run_id = x
                BY <3>1
            <4> QED
                BY <4>1
        <3> QED
            BY <3>3, <3>4, <3>5 DEF AttemptWritesFollow
    <2>2. ASSUME NEW n, NEW s \in {"SUCCEEDED", "RETRYING", "DEAD_LETTER"},
                 attempt_writes'[w] = ClosedAttempt(current[w], n, s),
                 pc'[w] \in Reporting, UNCHANGED <<task_runs, task_attempts, current>>,
                 \A b \in task_attempts :
                    b.task_run_id = current[w] /\ b.attempt = n /\ b.state = "RUNNING" =>
                       \/ /\ current[w] \in Locked(w)' /\ Reports(w, current[w])'
                          /\ n = task_runs[current[w]].attempt
                          /\ s = "SUCCEEDED" <=> writes'[w][current[w]].state = "SUCCEEDED"
                       \/ task_runs[current[w]].state = "CANCELLED" /\ s # "SUCCEEDED",
                 Reports(w, current[w])' => n = task_runs[current[w]].attempt,
                 current[w] \in TaskRuns
          PROVE  AttemptWritesFollow(w)'
        <3>1. UniqueKeys(attempt_writes[w])'
            <4>1. UniqueKeys(ClosedAttempt(current[w], n, s))
                BY ClosedOnce
            <4> QED
                BY <2>2, <4>1 DEF UniqueKeys, SameKey
        <3>2. ASSUME NEW b \in attempt_writes'[w] PROVE Closes(w, b)'
            <4>1. PICK a \in task_attempts :
                    /\ a.task_run_id = current[w] /\ a.attempt = n /\ a.state = "RUNNING"
                    /\ SameKey(a, b) /\ a.worker_id = b.worker_id /\ b.state = s
                BY <2>2, <3>2, ClosedOnce
            <4> QED
                BY <2>2, <4>1 DEF Closes, SameKey
        <3>3. ASSUME NEW x \in Locked(w)', Claims(w, x)' \/ Reports(w, x)'
              PROVE  \E b \in attempt_writes'[w] : b.task_run_id = x
            <4>1. x = current[w] /\ Reports(w, x)'
                BY <2>2, <3>3 DEF Claims, Reports, Reporting
            <4>2. task_runs[x].state = "RUNNING" /\ n = task_runs[x].attempt
                BY <2>2, <4>1 DEF Reports
            <4>3. PICK a \in task_attempts :
                    a.task_run_id = x /\ a.attempt = n /\ a.state = "RUNNING"
                BY <2>2, <4>1, <4>2, RunningHasAttempt
            <4> QED
                BY <2>2, <4>1, <4>3, ClosedOnce
        <3> QED
            BY <3>1, <3>2, <3>3 DEF AttemptWritesFollow
    <2>3. CASE record_success(w)
        <3>1. /\ attempt_writes'[w] =
                    ClosedAttempt(current[w], task_runs[current[w]].attempt, "SUCCEEDED")
              /\ current[w] \in Locked(w)' /\ current[w] \in TaskRuns
              /\ writes'[w][current[w]] =
                    SucceededRow(task_runs[current[w]], batch[w][current[w]])
            BY <1>0, <2>3, SuccessWrites
        <3>2. /\ UNCHANGED <<task_runs, task_attempts, current>>
              /\ pc'[w] \in Reporting /\ Owns(w, current[w])
            BY <1>0, <1>2, <2>3 DEF record_success, tables, job, Reporting
        <3>3. writes'[w][current[w]].state = "SUCCEEDED"
            BY <1>0, <3>1, UpdateFields DEF Released
        <3>4. Follows(w, current[w])'
            BY <1>2, <3>1, <3>2, WritesFollowStep DEF WritesFollow
        <3>5. Reports(w, current[w])'
            BY <3>2, <3>3, <3>4 DEF Follows, Claims, Unblocks, Blocks, Cancels, Owns
        <3> QED
            BY <2>2, <3>1, <3>2, <3>3, <3>5
    <2>4. CASE record_failure_retry(w) \/ record_failure_terminal(w)
        <3>1. PICK s \in {"RETRYING", "DEAD_LETTER"} :
                /\ attempt_writes'[w] = ClosedAttempt(current[w], seen[w], s)
            BY <1>0, <2>4, FailureWrites
        <3>2. /\ UNCHANGED <<task_runs, task_attempts, current>>
              /\ pc'[w] \in Reporting /\ pc[w] = "failing"
              /\ current[w] \in TaskRuns /\ Locked(w)' = StillMine(w)
            BY <1>0, <1>2, <2>4, FailureWrites
            DEF record_failure_retry, record_failure_terminal, tables, job, Reporting
        <3>3. task_runs[current[w]].worker_id = w => seen[w] = task_runs[current[w]].attempt
            BY <1>0, <3>2 DEF OwnerInv, WorkerOwns, HoldsCurrent, HistoryInv, SeenIsMine
        <3>4. ASSUME NEW b \in task_attempts, b.task_run_id = current[w],
                     b.attempt = seen[w], b.state = "RUNNING"
              PROVE  \/ /\ current[w] \in Locked(w)' /\ Reports(w, current[w])'
                        /\ seen[w] = task_runs[current[w]].attempt
                        /\ s = "SUCCEEDED" <=> writes'[w][current[w]].state = "SUCCEEDED"
                     \/ task_runs[current[w]].state = "CANCELLED" /\ s # "SUCCEEDED"
            <4>1. /\ Agree(b, task_runs[current[w]])
                BY <3>2, <3>4 DEF HistoryInv, HistoryOf
            <4>2. b.worker_id = w
                BY <3>2, <3>4 DEF HistoryInv, SeenIsMine, UniqueKeys, SameKey
            <4>3. CASE task_runs[current[w]].state = "RUNNING"
                <5>1. current[w] \in StillMine(w)
                    BY <3>4, <4>1, <4>2, <4>3 DEF Agree, StillMine
                <5>2. Follows(w, current[w])'
                    BY <1>2, <3>2, <5>1, WritesFollowStep DEF WritesFollow
                <5>3. Reports(w, current[w])'
                    BY <1>2, <3>2, <4>3, <5>2, ClientsAssumption
                    DEF Follows, Claims, Unblocks, Blocks, Cancels, Reporting
                <5>4. writes'[w][current[w]].state \in {"READY", "DEAD_LETTER"}
                    BY <1>0, <2>4, <3>2, <5>1, FailureWrites, UpdateFields DEF Released
                <5> QED
                    BY <3>2, <3>4, <4>1, <5>1, <5>3, <5>4 DEF Agree
            <4>4. CASE task_runs[current[w]].state = "CANCELLED"
                BY <4>4
            <4> QED
                BY <3>4, <4>1, <4>3, <4>4 DEF Agree
        <3>5. Reports(w, current[w])' => seen[w] = task_runs[current[w]].attempt
            BY <3>2, <3>3 DEF Reports
        <3> QED
            BY <2>2, <3>1, <3>2, <3>4, <3>5
    <2>5. CASE block_descendants(w)
        <3>1. /\ attempt_writes'[w] = attempt_writes[w]
              /\ Locked(w)' = Locked(w) \cup BlockableLayer(w)
              /\ \A y \in TaskRuns \ BlockableLayer(w) : writes'[w][y] = writes[w][y]
            BY <1>0, <2>5, BlockWrites
        <3>2. /\ UNCHANGED <<task_runs, task_attempts, current, pc>> /\ pc[w] = "blocking"
            BY <2>5 DEF block_descendants, tables
        <3>3. \A y \in BlockableLayer(w) : /\ y \notin Locked(w)
                                           /\ task_runs[y].state # "RUNNING"
            BY <3>2, LayerIsNew
        <3>4. \A y \in Locked(w) : writes'[w][y] = writes[w][y] /\ y \in TaskRuns
            BY <3>1, <3>3 DEF Locked
        <3>5. \A y \in Locked(w) : Reports(w, y) <=> Reports(w, y)'
            BY <3>2, <3>4 DEF Reports
        <3>6. AttemptWritesFollow(w)
            BY <1>2 DEF HistoryInv
        <3>7. ASSUME NEW b \in attempt_writes[w] PROVE Closes(w, b)'
            <4>1. Closes(w, b)
                BY <3>2, <3>6 DEF AttemptWritesFollow, Opens
            <4> QED
                BY <3>1, <3>2, <3>4, <3>5, <4>1 DEF Closes, SameKey
        <3>8. ASSUME NEW x \in Locked(w)', Claims(w, x)' \/ Reports(w, x)'
              PROVE  \E b \in attempt_writes'[w] : b.task_run_id = x
            <4>1. Reports(w, x)' /\ x \in Locked(w)
                BY <3>1, <3>2, <3>3, <3>8 DEF Claims, Reports
            <4> QED
                BY <3>1, <3>5, <3>6, <4>1 DEF AttemptWritesFollow
        <3> QED
            BY <3>1, <3>6, <3>7, <3>8 DEF AttemptWritesFollow, UniqueKeys, SameKey
    <2>6. CASE EndTransaction(w)
        BY <1>0, <1>1, <1>2, <2>6, EndedTransaction
    <2>7. CASE UNCHANGED <<writes, attempt_writes>> /\ Locked(w) = {} /\ attempt_writes[w] = {}
        BY <1>1, <1>2, <2>7 DEF Locked
    <2>8. CASE GoesOn(w)
        BY <1>2, <2>8, AttemptWritesStable
    <2> QED
        BY <1>0, <2>1, <2>3, <2>4, <2>5, <2>6, <2>7, <2>8, WorkerTransaction
<1>3. ASSUME NEW r \in Runs, c = r PROVE AttemptWritesFollow(r)'
    <2>1. CASE cancel(r)
        BY <1>0, <2>1, CancelWrites, ClientsAssumption
        DEF AttemptWritesFollow, UniqueKeys, Claims, Reports
    <2>2. CASE EndTransaction(r)
        BY <1>0, <1>1, <1>3, <2>2, EndedTransaction
    <2>3. CASE UNCHANGED <<writes, attempt_writes>> /\ Locked(r) = {} /\ attempt_writes[r] = {}
        BY <1>1, <1>3, <2>3 DEF Locked
    <2>4. CASE GoesOn(r)
        BY <1>3, <2>4, AttemptWritesStable
    <2> QED
        BY <1>0, <2>1, <2>2, <2>3, <2>4, RequestTransaction
<1> QED
    BY <1>2, <1>3 DEF Clients

\* What record_failure read stays the worker's own attempt until its update.
LEMMA SeenStep ==
    ASSUME HistoryInv, [Next]_vars, NEW w \in Workers PROVE SeenIsMine(w)'
<1> SUFFICES ASSUME pc'[w] = "failing"
             PROVE  /\ seen'[w] = batch'[w][current'[w]]
                    /\ \E a \in task_attempts' : /\ a.task_run_id = current'[w]
                                                 /\ a.attempt = seen'[w]
                                                 /\ a.worker_id = w
                                                 /\ a.state # "SUCCEEDED"
    BY DEF SeenIsMine
<1>0. /\ OwnerInv /\ LockInv /\ TypeInv /\ pc \in [Clients -> Pcs] /\ w \in Clients
      /\ seen \in [Workers -> Nat]
    BY DEF HistoryInv, OwnerInv, OpenInv, LockInv, TypeInv, TypeOK, Clients
<1>1. CASE record_failure(w)
    <2>1. /\ task_runs[current[w]].worker_id = w /\ seen'[w] = task_runs[current[w]].attempt
          /\ UNCHANGED <<task_attempts, batch, current>> /\ pc[w] = "failed"
        BY <1>0, <1>1 DEF record_failure, tables
    <2>2. current[w] \in TaskRuns
        BY <1>0, <2>1 DEF TypeInv, JobHasTask
    <2>3. batch[w][current[w]] = task_runs[current[w]].attempt
        BY <1>0, <2>1, <2>2 DEF OwnerInv, WorkerOwns, HoldsCurrent
    <2>4. task_runs[current[w]].state = "RUNNING"
        BY <1>0, <2>1, <2>2, ClientsAssumption DEF LockInv, RowLeases, LeaseOK
    <2>5. PICK a \in task_attempts :
              /\ a.task_run_id = current[w] /\ a.attempt = task_runs[current[w]].attempt
              /\ a.state = "RUNNING" /\ a.worker_id = w
        BY <2>1, <2>2, <2>4, RunningHasAttempt
    <2> QED
        BY <2>1, <2>3, <2>5
<1>2. CASE WorkerIdle(w) \/ request_shutdown(w)
    <2>1. /\ pc[w] = "failing" /\ seen'[w] = seen[w] /\ batch'[w] = batch[w]
          /\ current'[w] = current[w]
        BY <1>2 DEF WorkerIdle, request_shutdown, job
    <2>2. PICK a \in task_attempts :
              /\ a.task_run_id = current[w] /\ a.attempt = seen[w]
              /\ a.worker_id = w /\ a.state # "SUCCEEDED"
        BY <2>1 DEF HistoryInv, SeenIsMine
    <2>3. ~report_commit(w)
        BY <2>1 DEF report_commit, CommitReport
    <2>4. PICK b \in task_attempts' :
              SameKey(b, a) /\ b.worker_id = w /\ b.state # "SUCCEEDED"
        BY <2>2, <2>3, AttemptsPersist
    <2>5. seen[w] = batch[w][current[w]]
        BY <2>1 DEF HistoryInv, SeenIsMine
    <2> QED
        BY <2>1, <2>2, <2>4, <2>5 DEF SameKey
<1>3. ~(WorkerStep(w) /\ ~record_failure(w))
    <2>1. ~(claim_batch(w) \/ claim_batch_rejected(w) \/ claim_commit(w))
        BY <1>0 DEF claim_batch, claim_batch_rejected, claim_commit
    <2>2. ~(start_task(w) \/ execute(w) \/ discard_result(w))
        BY <1>0 DEF start_task, execute, discard_result, TaskDone
    <2>3. ~(record_success(w) \/ record_success_rejected(w))
        BY <1>0 DEF record_success, record_success_rejected
    <2>4. ~(record_failure_retry(w) \/ record_failure_terminal(w))
        BY <1>0 DEF record_failure_retry, record_failure_terminal
    <2>5. ~(block_descendants(w) \/ block_descendants_done(w))
        BY <1>0 DEF block_descendants, block_descendants_done
    <2>6. ~(refresh_run_state(w) \/ report_commit(w) \/ stop(w))
        BY <1>0 DEF refresh_run_state, report_commit, TaskDone, stop
    <2> QED
        BY <2>1, <2>2, <2>3, <2>4, <2>5, <2>6 DEF WorkerStep
<1>4. ~(renew_lease(w) \/ crash(w))
    BY <1>0 DEF renew_lease, crash
<1> QED
    BY <1>0, <1>1, <1>2, <1>3, <1>4, WorkerFrame DEF WorkerEvent

\* Every action preserves the invariant about histories.
LEMMA HistoryStep == HistoryInv /\ [Next]_vars => HistoryInv'
<1> SUFFICES ASSUME HistoryInv, [Next]_vars PROVE HistoryInv'
    OBVIOUS
<1>1. OwnerInv'
    BY OwnerStep DEF HistoryInv
<1>2. WritesFollow' /\ UniqueKeys(task_attempts)'
    BY WritesFollowStep, UniqueKeysStep
<1>3. \A x \in TaskRuns : HistoryOf(x)'
    BY HistoryOfStep
<1>4. \A c \in Clients : AttemptWritesFollow(c)'
    BY AttemptWritesStep
<1>5. \A w \in Workers : SeenIsMine(w)'
    BY SeenStep
<1> QED
    BY <1>1, <1>2, <1>3, <1>4, <1>5 DEF HistoryInv

\* The initial state satisfies it: nothing was attempted.
LEMMA HistoryInit == Init => HistoryInv
<1> SUFFICES ASSUME Init PROVE HistoryInv
    OBVIOUS
<1>1. \A c \in Clients : Locked(c) = {} /\ attempt_writes[c] = {}
    BY DEF Init, Locked, NoWrites
<1>2. WritesFollow /\ \A c \in Clients : AttemptWritesFollow(c)
    BY <1>1 DEF WritesFollow, AttemptWritesFollow, UniqueKeys
<1>3. \A w \in Workers : SeenIsMine(w)
    BY DEF Init, SeenIsMine, Clients
<1>4. UniqueKeys(task_attempts)
    BY DEF Init, UniqueKeys
<1>5. ASSUME NEW x \in TaskRuns PROVE HistoryOf(x)
    <2>1. /\ task_runs[x].attempt = 0 /\ task_runs[x].output = 0
          /\ task_runs[x].state = "ABSENT" /\ task_attempts = {}
        BY DEF Init, AbsentRow
    <2>2. max_attempts[x[2]] \in Nat
        BY BudgetAssumption DEF TaskRuns
    <2> QED
        BY <2>1, <2>2 DEF HistoryOf
<1> QED
    BY <1>2, <1>3, <1>4, <1>5, OwnerInit DEF HistoryInv

\* Sets in one-to-one correspondence with a finite one have as many elements.
LEMMA SameCardinality ==
    ASSUME NEW S, NEW T, IsFiniteSet(T), NEW f \in [S -> T],
           \A a, b \in S : f[a] = f[b] => a = b,
           \A t \in T : \E a \in S : f[a] = t
    PROVE  IsFiniteSet(S) /\ Cardinality(S) = Cardinality(T)
<1>1. f \in Injection(S, T) /\ f \in Surjection(S, T)
    BY DEF Injection, Surjection, IsInjective
<1> QED
    BY <1>1, FS_Injection

\* The append-only record is true: whatever crashes, is swept, retried, cancelled or
\* reported late, a task's attempt rows are numbered 1..attempt, the open one names
\* the owner, and the successful one is the execution whose output was stored.
THEOREM AttemptsTrue == Spec => []AttemptsAreTrue
<1>1. HistoryInv => AttemptsAreTrue
    <2> SUFFICES ASSUME HistoryInv, NEW x \in TaskRuns
                 PROVE  LET row  == task_runs[x]
                            mine == {a \in task_attempts : a.task_run_id = x}
                        IN  /\ {a.attempt : a \in mine} = 1..row.attempt
                            /\ Cardinality(mine) = row.attempt
                            /\ \A a \in mine : Agree(a, row)
                            /\ row.output = IF row.state = "SUCCEEDED" THEN row.attempt ELSE 0
        BY DEF AttemptsAreTrue, Agree
    <2> DEFINE row == task_runs[x]
               mine == {a \in task_attempts : a.task_run_id = x}
               f == [a \in mine |-> a.attempt]
    <2>1. /\ HistoryOf(x) /\ UniqueKeys(task_attempts) /\ row.attempt \in Nat
        BY DEF HistoryInv, OwnerInv, OpenInv, LockInv, TypeInv, TypeOK, TaskRunRow
    <2>2. \A a \in mine : Agree(a, row) /\ a.attempt \in 1..row.attempt
        BY <2>1 DEF HistoryOf, Agree
    <2>3. \A n \in 1..row.attempt : \E a \in mine : a.attempt = n
        BY <2>1 DEF HistoryOf
    <2>4. {a.attempt : a \in mine} = 1..row.attempt
        BY <2>2, <2>3
    <2>5. Cardinality(mine) = row.attempt
        <3>1. f \in [mine -> 1..row.attempt]
            BY <2>2
        <3>2. \A a, b \in mine : f[a] = f[b] => a = b
            BY <2>1 DEF UniqueKeys, SameKey
        <3>3. \A n \in 1..row.attempt : \E a \in mine : f[a] = n
            BY <2>3
        <3>4. IsFiniteSet(1..row.attempt) /\ Cardinality(1..row.attempt) = row.attempt
            <4> DEFINE n == row.attempt
            <4>1. n \in Int /\ 1 \in Int /\ n \in Nat
                BY <2>1
            <4> HIDE DEF n
            <4>2. /\ IsFiniteSet(1..n)
                  /\ Cardinality(1..n) = IF 1 > n THEN 0 ELSE n - 1 + 1
                BY <4>1, FS_Interval
            <4>3. IsFiniteSet(1..n) /\ Cardinality(1..n) = n
                BY <4>1, <4>2
            <4> QED
                BY <4>3 DEF n
        <3> HIDE DEF f, mine, row
        <3> QED
            BY <3>1, <3>2, <3>3, <3>4, SameCardinality
    <2> QED
        BY <2>1, <2>2, <2>4, <2>5 DEF HistoryOf
<1> QED
    BY <1>1, HistoryInit, HistoryStep, PTL DEF Spec
=============================================================================
