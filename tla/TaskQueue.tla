------------------------------ MODULE TaskQueue ------------------------------
(***************************************************************************)
(* The queue of conductor: the task_runs, task_attempts and workflow_runs  *)
(* tables, the transactions of RunRepository and TaskQueueRepository       *)
(* (conductor/db/repositories/runs.py) on them, and the processes that run *)
(* those transactions: workers (conductor/worker/worker.py), the reaper    *)
(* (conductor/scheduler/reaper.py) and the API's cancel handler            *)
(* (conductor/api/routes/runs.py).                                         *)
(*                                                                         *)
(* Transactions run under PostgreSQL's READ COMMITTED, one action per      *)
(* statement. writes[c] holds the row versions client c has written and    *)
(* not committed, which are also the rows it has locked. A statement reads *)
(* the committed tables overlaid with its own transaction's writes (View), *)
(* an UPDATE waits until no other transaction locks a row it matches, and  *)
(* a crash drops the uncommitted writes.                                   *)
(***************************************************************************)
EXTENDS TaskStates, Integers, FiniteSets

CONSTANTS
    Workers,            \* worker ids; a restarted process has a fresh one
    Runs,               \* workflow runs, all of one workflow
    Tasks,              \* the tasks of that workflow
    depends_on,         \* Tasks -> the set of its parents (task_dependencies)
    max_attempts,       \* Tasks -> the attempt budget of its retry policy
    priority,           \* Tasks -> the priority claims are ordered by
    claim_batch_size,   \* Settings.claim_batch_size, the LIMIT of a claim
    NoWorker,           \* SQL NULL in a worker_id column
    NoTask              \* a worker that is executing nothing

ASSUME TasksAssumption == IsFiniteSet(Tasks) /\ Tasks # {}
ASSUME ClientsAssumption == Workers \cap Runs = {} /\ NoWorker \notin Workers
ASSUME DependsOnAssumption == depends_on \in [Tasks -> SUBSET Tasks]
ASSUME BudgetAssumption == max_attempts \in [Tasks -> Nat \ {0}]
ASSUME PriorityAssumption == priority \in [Tasks -> Int]
ASSUME BatchAssumption == claim_batch_size \in Nat \ {0}
ASSUME NoTaskAssumption == NoTask \notin Runs \X Tasks

\* task_runs has UNIQUE (run_id, task_id), and create_run inserts one row for
\* every task of the workflow, so the pair names the row.
TaskRuns == Runs \X Tasks

\* A transaction belongs to a worker or to the cancel request of a run (at
\* most one such request per run is in flight).
Clients == Workers \cup Runs

VARIABLES
    task_runs,      \* committed rows of task_runs
    task_attempts,  \* committed rows of task_attempts, a set
    run_state,      \* workflow_runs.state, the cached state of each run
    writes,         \* writes[c][x]: c's uncommitted version of row x
    attempt_writes, \* attempt rows c has inserted or closed, uncommitted
    derived,        \* the run state c's refresh_run_state computed
    pc,             \* where each client is in its handler
    batch,          \* batch[w][x]: ClaimedTask.attempt, 0 when not in the batch
    current,        \* the task worker w is executing or reporting
    lost,           \* Heartbeat.lost of that task
    seen,           \* the attempt record_failure read
    frontier,       \* the frontier of _block_descendants, task ids
    stopping        \* Worker._shutdown

tables == <<task_runs, task_attempts, run_state>>
transactions == <<writes, attempt_writes, derived>>
job == <<current, lost, seen, frontier>>
process == <<pc, batch, job, stopping>>
vars == <<tables, transactions, process>>

-----------------------------------------------------------------------------
(* The tables.                                                             *)

\* scheduled_at is kept as due (it is in the past), lease_expires_at as lease
\* ("none" is NULL), output as the attempt whose execution produced it.
TaskRunRow ==
    [state : TaskState \cup {"ABSENT"}, pending_deps : Nat, attempt : Nat,
     worker_id : Workers \cup {NoWorker}, lease : {"none", "live", "expired"},
     due : BOOLEAN, output : Nat]

\* finished_at IS NULL exactly in the rows whose state is RUNNING.
TaskAttemptRow ==
    [task_run_id : TaskRuns, attempt : Nat, worker_id : Workers,
     state : TaskState]

AbsentRow ==
    [state |-> "ABSENT", pending_deps |-> 0, attempt |-> 0,
     worker_id |-> NoWorker, lease |-> "none", due |-> FALSE, output |-> 0]

Parents(x) == {<<x[1], p>> : p \in depends_on[x[2]]}

\* _unblock_children and _block_descendants select child_task_id by parent.
ChildrenOf(tasks) == {t \in Tasks : depends_on[t] \cap tasks # {}}

NoWrites == [x \in TaskRuns |-> AbsentRow]

\* The rows c's transaction has written: no transaction writes an ABSENT row.
Locked(c) == {x \in TaskRuns : writes[c][x] # AbsentRow}

\* What a statement of c's transaction reads: READ COMMITTED, own writes first.
View(c) ==
    [x \in TaskRuns |-> IF x \in Locked(c) THEN writes[c][x] ELSE task_runs[x]]

\* A row lock held by another transaction makes an UPDATE wait.
Unlocked(c, xs) == \A d \in Clients \ {c} : xs \cap Locked(d) = {}

\* A first statement's writes, of the rows xs, and those of a further one.
Write(c, xs, New(_)) ==
    writes' = [writes EXCEPT ![c] =
                [x \in TaskRuns |-> IF x \in xs THEN New(x) ELSE @[x]]]

\* The attempts table after the rows in `new` replace those with their key.
WithAttempts(new) ==
    {a \in task_attempts :
        \A b \in new : \/ a.task_run_id # b.task_run_id
                       \/ a.attempt # b.attempt} \cup new

\* The end of c's transaction, by commit or rollback.
EndTransaction(c) ==
    /\ writes' = [writes EXCEPT ![c] = NoWrites]
    /\ attempt_writes' = [attempt_writes EXCEPT ![c] = {}]
    /\ derived' = [derived EXCEPT ![c] = "PENDING"]

\* COMMIT: what c has written becomes the tables.
Commit(c) ==
    /\ task_runs' = View(c)
    /\ task_attempts' = WithAttempts(attempt_writes[c])
    /\ EndTransaction(c)

-----------------------------------------------------------------------------
(* Predicates and row updates of the SQL statements.                       *)

\* A mistake: a lease that has expired counts as lost before it is reaped.
OwnsUnexpired(w, x) ==
    /\ task_runs[x].worker_id = w
    /\ task_runs[x].lease = "live"

\* The WHERE of renew_lease and record_success.
Owns(w, x) ==
    /\ task_runs[x].worker_id = w
    /\ task_runs[x].state = "RUNNING"

\* A mistake: the count of unmet dependencies is off by one.
CreatedRowOffByOne(t) ==
    [AbsentRow EXCEPT !.state = IF depends_on[t] = {} THEN "READY" ELSE "PENDING",
                      !.pending_deps = Cardinality(depends_on[t]) - 1,
                      !.due = TRUE]

CreatedRow(t) ==
    LET unmet == Cardinality(depends_on[t])
    IN  [AbsentRow EXCEPT !.state = IF unmet = 0 THEN "READY" ELSE "PENDING",
                          !.pending_deps = unmet,
                          !.due = TRUE]

ClaimedRow(w, row) ==
    [row EXCEPT !.state = "RUNNING", !.worker_id = w, !.lease = "live",
                !.attempt = @ + 1]

SucceededRow(row, output) ==
    [row EXCEPT !.state = "SUCCEEDED", !.worker_id = NoWorker,
                !.lease = "none", !.output = output]

\* Mistakes: a child is released one parent too early, or never.
UnblockedRowEarly(row) ==
    [row EXCEPT !.pending_deps = @ - 1,
                !.state = IF row.pending_deps <= 2 THEN "READY" ELSE "PENDING"]

UnblockedRowNever(row) == [row EXCEPT !.pending_deps = @ - 1]

\* _unblock_children's two statements on one child: the decrement where
\* pending_deps > 0, then the release of what reached zero.
UnblockedRow(row) ==
    LET left == IF row.pending_deps > 0 THEN row.pending_deps - 1 ELSE 0
    IN  [row EXCEPT !.pending_deps = left,
                    !.state = IF left = 0 THEN "READY" ELSE "PENDING"]

DeadRow(row) ==
    [row EXCEPT !.state = "DEAD_LETTER", !.worker_id = NoWorker,
                !.lease = "none"]

RetryRow(row) ==
    [row EXCEPT !.state = "READY", !.worker_id = NoWorker, !.lease = "none",
                !.due = FALSE]

\* A mistake: the reaper does not clear the owner of the row it requeues.
ReapedRowKeepsWorker(row) ==
    [row EXCEPT !.state = "READY", !.lease = "none"]

ReapedRow(row) ==
    [row EXCEPT !.state = "READY", !.worker_id = NoWorker, !.lease = "none"]

RenewedRow(row) == [row EXCEPT !.lease = "live"]

ExpiredRow(row) == [row EXCEPT !.lease = "expired"]

DueRow(row) == [row EXCEPT !.due = TRUE]

BlockedRow(row) == [row EXCEPT !.state = "BLOCKED"]

CancelledRow(row) ==
    [row EXCEPT !.state = "CANCELLED", !.worker_id = NoWorker, !.lease = "none"]

\* _close_attempt: the new version of the one row it updates, if still open.
ClosedAttempt(x, n, s) ==
    {[a EXCEPT !.state = s] :
        a \in {b \in task_attempts : /\ b.task_run_id = x
                                     /\ b.attempt = n
                                     /\ b.state = "RUNNING"}}

-----------------------------------------------------------------------------
(* Initial state: no run, every worker registered and idle.                *)

Init ==
    /\ task_runs = [x \in TaskRuns |-> AbsentRow]
    /\ task_attempts = {}
    /\ run_state = [r \in Runs |-> "ABSENT"]
    /\ writes = [c \in Clients |-> NoWrites]
    /\ attempt_writes = [c \in Clients |-> {}]
    /\ derived = [c \in Clients |-> "PENDING"]
    /\ pc = [c \in Clients |-> "idle"]
    /\ batch = [w \in Workers |-> [x \in TaskRuns |-> 0]]
    /\ current = [w \in Workers |-> NoTask]
    /\ lost = [w \in Workers |-> FALSE]
    /\ seen = [w \in Workers |-> 0]
    /\ frontier = [w \in Workers |-> {}]
    /\ stopping = [w \in Workers |-> FALSE]

\* RunRepository.create_run: the run and all its rows appear in one commit.
create_run(r) ==
    /\ run_state[r] = "ABSENT"
    /\ run_state' = [run_state EXCEPT ![r] = "PENDING"]
    /\ task_runs' = [x \in TaskRuns |-> IF x[1] = r THEN CreatedRow(x[2])
                                                     ELSE task_runs[x]]
    /\ UNCHANGED <<task_attempts, transactions, process>>

-----------------------------------------------------------------------------
(* Claiming. FOR UPDATE SKIP LOCKED passes over rows another transaction   *)
(* has written; ORDER BY and LIMIT choose among the rest.                  *)

Candidates(w) ==
    {x \in TaskRuns : /\ task_runs[x].state = "READY"
                      /\ task_runs[x].due
                      /\ Unlocked(w, {x})}

\* LIMIT n after ORDER BY priority DESC; rows of equal priority in any order.
IsTopOf(B, xs) ==
    /\ B \subseteq xs
    /\ Cardinality(B) <= claim_batch_size
    /\ xs \ B # {} => Cardinality(B) = claim_batch_size
    /\ \A x \in B, y \in xs \ B : priority[x[2]] >= priority[y[2]]

\* The CHECK (attempt <= max_attempts) and UNIQUE (task_run_id, attempt)
\* constraints on what a claim of x writes.
MayClaim(x) ==
    /\ task_runs[x].attempt + 1 <= max_attempts[x[2]]
    /\ \A a \in task_attempts : \/ a.task_run_id # x
                                \/ a.attempt # task_runs[x].attempt + 1

claim_batch(w) ==
    /\ pc[w] = "idle"
    /\ ~stopping[w]
    /\ \E B \in SUBSET Candidates(w) :
        /\ B # {}
        /\ IsTopOf(B, Candidates(w))
        /\ \A x \in B : MayClaim(x)
        /\ Write(w, B, LAMBDA x : ClaimedRow(w, task_runs[x]))
        /\ attempt_writes' = [attempt_writes EXCEPT ![w] =
                {[task_run_id |-> x, attempt |-> task_runs[x].attempt + 1,
                  worker_id |-> w, state |-> "RUNNING"] : x \in B}]
    /\ pc' = [pc EXCEPT ![w] = "claiming"]
    /\ UNCHANGED <<tables, derived, batch, job, stopping>>

\* A constraint rejects one row of the batch: the statement fails as a whole,
\* the exception leaves run_once and run_forever, and the process ends.
claim_batch_rejected(w) ==
    /\ pc[w] = "idle"
    /\ ~stopping[w]
    /\ \E B \in SUBSET Candidates(w) :
        /\ IsTopOf(B, Candidates(w))
        /\ \E x \in B : ~MayClaim(x)
    /\ pc' = [pc EXCEPT ![w] = "dead"]
    /\ UNCHANGED <<tables, transactions, batch, job, stopping>>

\* run_once's session.commit(): the claim becomes visible, the batch is held.
claim_commit(w) ==
    /\ pc[w] = "claiming"
    /\ Commit(w)
    /\ batch' = [batch EXCEPT ![w] =
                    [x \in TaskRuns |-> IF x \in Locked(w)
                                        THEN writes[w][x].attempt ELSE 0]]
    /\ pc' = [pc EXCEPT ![w] = "batch"]
    /\ UNCHANGED <<run_state, job, stopping>>

-----------------------------------------------------------------------------
(* Executing.                                                              *)

\* The next task of the batch (RETURNING fixes no order); its heartbeat starts.
start_task(w) ==
    /\ pc[w] = "batch"
    /\ \E x \in TaskRuns :
        /\ batch[w][x] # 0
        /\ current' = [current EXCEPT ![w] = x]
    /\ pc' = [pc EXCEPT ![w] = "executing"]
    /\ UNCHANGED <<tables, transactions, batch, lost, seen, frontier, stopping>>

\* Heartbeat._run: the lease is renewed, or found lost.
renew_lease(w) ==
    LET x == current[w]
    IN  /\ pc[w] = "executing"
        /\ ~lost[w]
        /\ Owns(w, x) => Unlocked(w, {x})
        /\ IF Owns(w, x)
             THEN /\ task_runs' = [task_runs EXCEPT ![x] = RenewedRow(@)]
                  /\ UNCHANGED lost
             ELSE /\ lost' = [lost EXCEPT ![w] = TRUE]
                  /\ UNCHANGED task_runs
        /\ UNCHANGED <<task_attempts, run_state, transactions, pc, batch, current,
                       seen, frontier, stopping>>

\* The local variables of _execute end with it.
ClearJob(w) ==
    /\ current' = [current EXCEPT ![w] = NoTask]
    /\ lost' = [lost EXCEPT ![w] = FALSE]
    /\ seen' = [seen EXCEPT ![w] = 0]
    /\ frontier' = [frontier EXCEPT ![w] = {}]

\* The bookkeeping of a worker that is done with its current task.
TaskDone(w) ==
    LET left == [batch[w] EXCEPT ![current[w]] = 0]
    IN  /\ batch' = [batch EXCEPT ![w] = left]
        /\ ClearJob(w)
        /\ pc' = [pc EXCEPT ![w] = IF \E x \in TaskRuns : left[x] # 0
                                   THEN "batch" ELSE "idle"]

\* The executor returns or raises while the heartbeat still has the lease.
execute(w) ==
    /\ pc[w] = "executing"
    /\ ~lost[w]
    /\ \E outcome \in {"succeeded", "failed"} : pc' = [pc EXCEPT ![w] = outcome]
    /\ UNCHANGED <<tables, transactions, batch, job, stopping>>

\* The lease was lost during execution: the result is discarded, no report.
discard_result(w) ==
    /\ pc[w] = "executing"
    /\ lost[w]
    /\ TaskDone(w)
    /\ UNCHANGED <<tables, transactions, stopping>>

-----------------------------------------------------------------------------
(* Reporting success: record_success, which unblocks the children.         *)

\* The sibling_filter of _unblock_children: this run, a child, still PENDING.
WaitingChildren(x) ==
    {y \in TaskRuns : /\ y[1] = x[1]
                      /\ y[2] \in ChildrenOf({x[2]})
                      /\ task_runs[y].state = "PENDING"}

record_success(w) ==
    LET x == current[w]
    IN  /\ pc[w] = "succeeded"
        /\ Owns(w, x)
        /\ Unlocked(w, {x} \cup WaitingChildren(x))
        /\ Write(w, {x} \cup WaitingChildren(x),
                 LAMBDA y : IF y = x THEN SucceededRow(task_runs[x], batch[w][x])
                                     ELSE UnblockedRow(task_runs[y]))
        /\ attempt_writes' = [attempt_writes EXCEPT ![w] =
                ClosedAttempt(x, task_runs[x].attempt, "SUCCEEDED")]
        /\ pc' = [pc EXCEPT ![w] = "refreshing"]
        /\ UNCHANGED <<tables, derived, batch, job, stopping>>

\* The UPDATE matches no row: the result is rejected; the run's cached state is
\* refreshed all the same.
record_success_rejected(w) ==
    /\ pc[w] = "succeeded"
    /\ ~Owns(w, current[w])
    /\ pc' = [pc EXCEPT ![w] = "refreshing"]
    /\ UNCHANGED <<tables, transactions, batch, job, stopping>>

-----------------------------------------------------------------------------
(* Reporting failure: record_failure reads the row first, decides by the   *)
(* retry policy on what it read, and only then updates.                    *)

record_failure(w) ==
    LET row == task_runs[current[w]]
    IN  /\ pc[w] = "failed"
        /\ IF row.worker_id = w
             THEN /\ seen' = [seen EXCEPT ![w] = row.attempt]
                  /\ pc' = [pc EXCEPT ![w] = "failing"]
             ELSE /\ UNCHANGED seen
                  /\ pc' = [pc EXCEPT ![w] = "refreshing"]
        /\ UNCHANGED <<tables, transactions, batch, current, lost, frontier,
                       stopping>>

\* A mistake: the last attempt is not used.
ShouldRetryOneLess(w) == seen[w] + 1 < max_attempts[current[w][2]]

\* RetryPolicy.should_retry on the attempt record_failure read.
should_retry(w) == seen[w] < max_attempts[current[w][2]]

\* The rows record_failure's UPDATE matches now: none when the lease was lost
\* after the read. The number of matched rows is not looked at.
StillMine(w) ==
    {x \in {current[w]} : task_runs[x].worker_id = w}

record_failure_retry(w) ==
    LET x == current[w]
    IN  /\ pc[w] = "failing"
        /\ should_retry(w)
        /\ Unlocked(w, StillMine(w))
        /\ Write(w, StillMine(w), LAMBDA y : RetryRow(task_runs[y]))
        /\ attempt_writes' = [attempt_writes EXCEPT ![w] =
                ClosedAttempt(x, seen[w], "RETRYING")]
        /\ pc' = [pc EXCEPT ![w] = "refreshing"]
        /\ UNCHANGED <<tables, derived, batch, job, stopping>>

record_failure_terminal(w) ==
    LET x == current[w]
    IN  /\ pc[w] = "failing"
        /\ ~should_retry(w)
        /\ Unlocked(w, StillMine(w))
        /\ Write(w, StillMine(w), LAMBDA y : DeadRow(task_runs[y]))
        /\ attempt_writes' = [attempt_writes EXCEPT ![w] =
                ClosedAttempt(x, seen[w], "DEAD_LETTER")]
        /\ frontier' = [frontier EXCEPT ![w] = {x[2]}]
        /\ pc' = [pc EXCEPT ![w] = "blocking"]
        /\ UNCHANGED <<tables, derived, batch, current, lost, seen, stopping>>

\* A mistake: the layer is selected by task id alone, in every run.
BlockableLayerOfAnyRun(w) ==
    {y \in TaskRuns : /\ y[2] \in ChildrenOf(frontier[w])
                      /\ View(w)[y].state \in {"PENDING", "READY"}}

\* One layer of _block_descendants: the rows its UPDATE matches.
BlockableLayer(w) ==
    {y \in TaskRuns : /\ y[1] = current[w][1]
                      /\ y[2] \in ChildrenOf(frontier[w])
                      /\ View(w)[y].state \in {"PENDING", "READY"}}

\* A mistake: the loop stops after the first layer.
NextFrontierEmpty(w) == {}

\* The frontier of the loop's next iteration.
NextFrontier(w) == ChildrenOf(frontier[w])

block_descendants(w) ==
    /\ pc[w] = "blocking"
    /\ BlockableLayer(w) # {}
    /\ Unlocked(w, BlockableLayer(w))
    /\ Write(w, BlockableLayer(w), LAMBDA y : BlockedRow(View(w)[y]))
    /\ frontier' = [frontier EXCEPT ![w] = NextFrontier(w)]
    /\ UNCHANGED <<tables, attempt_writes, derived, pc, batch, current, lost,
                   seen, stopping>>

\* No children, or none of them left to block: the loop returns.
block_descendants_done(w) ==
    /\ pc[w] = "blocking"
    /\ BlockableLayer(w) = {}
    /\ frontier' = [frontier EXCEPT ![w] = {}]
    /\ pc' = [pc EXCEPT ![w] = "refreshing"]
    /\ UNCHANGED <<tables, transactions, batch, current, lost, seen, stopping>>

-----------------------------------------------------------------------------
(* refresh_run_state and the commit that ends every reporting transaction. *)

RunOf(c) == IF c \in Runs THEN c ELSE current[c][1]

\* The states a SELECT over the task rows of run r returns.
StatesIn(rows, r) ==
    {rows[x].state : x \in {y \in TaskRuns : y[1] = r}} \ {"ABSENT"}

\* The SELECT of refresh_run_state, and derive_run_state on its result.
refresh_run_state(c) ==
    /\ pc[c] = "refreshing"
    /\ derived' = [derived EXCEPT ![c] =
                    derive_run_state(StatesIn(View(c), RunOf(c)))]
    /\ pc' = [pc EXCEPT ![c] = "committing"]
    /\ UNCHANGED <<tables, writes, attempt_writes, batch, job, stopping>>

\* The UPDATE of workflow_runs (whatever version it carries now) and COMMIT.
CommitReport(c) ==
    /\ pc[c] = "committing"
    /\ run_state' = [run_state EXCEPT ![RunOf(c)] = derived[c]]
    /\ Commit(c)

report_commit(w) ==
    /\ CommitReport(w)
    /\ TaskDone(w)
    /\ UNCHANGED stopping

-----------------------------------------------------------------------------
(* The API's cancel handler. The client of its transaction is the run.     *)

\* cancel_run: the request is refused with 409 when the cached state is terminal.
cancel_run(r) ==
    /\ pc[r] = "idle"
    /\ run_state[r] \notin TerminalRunStates \cup {"ABSENT"}
    /\ pc' = [pc EXCEPT ![r] = "cancelling"]
    /\ UNCHANGED <<tables, transactions, batch, job, stopping>>

\* A mistake: cancel() does not look at the state of the rows.
CancellableIgnoringState(r) == {x \in TaskRuns : x[1] = r}

\* A mistake: tasks that are being executed are left alone.
CancellableNotRunning(r) ==
    {x \in TaskRuns : x[1] = r /\ task_runs[x].state \in {"PENDING", "READY", "RETRYING"}}

\* The WHERE of cancel().
Cancellable(r) ==
    {x \in TaskRuns :
        /\ x[1] = r
        /\ task_runs[x].state \in {"PENDING", "READY", "RUNNING", "RETRYING"}}

cancel(r) ==
    /\ pc[r] = "cancelling"
    /\ Unlocked(r, Cancellable(r))
    /\ Write(r, Cancellable(r), LAMBDA x : CancelledRow(task_runs[x]))
    /\ pc' = [pc EXCEPT ![r] = "refreshing"]
    /\ UNCHANGED <<tables, attempt_writes, derived, batch, job, stopping>>

cancel_commit(r) ==
    /\ CommitReport(r)
    /\ pc' = [pc EXCEPT ![r] = "idle"]
    /\ UNCHANGED <<batch, job, stopping>>

\* db_session rolls back when the handler or the connection fails.
cancel_abort(r) ==
    /\ pc[r] # "idle"
    /\ EndTransaction(r)
    /\ pc' = [pc EXCEPT ![r] = "idle"]
    /\ UNCHANGED <<tables, batch, job, stopping>>

-----------------------------------------------------------------------------
(* The reaper, the clock and the ways a worker process ends.               *)

\* A mistake: a task on its last attempt is not swept.
ExpiredWithBudget ==
    {x \in TaskRuns : /\ task_runs[x].state = "RUNNING"
                      /\ task_runs[x].lease = "expired"
                      /\ task_runs[x].attempt < max_attempts[x[2]]}

\* The rows whose lease is in the past; a row another transaction has locked
\* makes the sweep wait.
ExpiredLeases ==
    {x \in TaskRuns : /\ task_runs[x].state = "RUNNING"
                      /\ task_runs[x].lease = "expired"}

\* A mistake: the reaper leaves the dead worker's attempt rows open.
ReapedAttemptsLeftOpen(xs) == {}

ReapedAttempts(xs) ==
    UNION {ClosedAttempt(x, task_runs[x].attempt, "FAILED") : x \in xs}

reap_expired_leases ==
    /\ ExpiredLeases # {}
    /\ \A c \in Clients : ExpiredLeases \cap Locked(c) = {}
    /\ task_runs' = [x \in TaskRuns |-> IF x \in ExpiredLeases
                                        THEN ReapedRow(task_runs[x])
                                        ELSE task_runs[x]]
    /\ task_attempts' = WithAttempts(ReapedAttempts(ExpiredLeases))
    /\ UNCHANGED <<run_state, transactions, process>>

\* Time passes lease_expires_at: the owner is dead, paused, cut off from the
\* database, or busy with an earlier task of its batch.
lease_expires(x) ==
    /\ task_runs[x].lease = "live"
    /\ task_runs' = [task_runs EXCEPT ![x] = ExpiredRow(@)]
    /\ UNCHANGED <<task_attempts, run_state, transactions, process>>

\* Time passes scheduled_at: the backoff of a retried task is over.
backoff_elapses(x) ==
    /\ task_runs[x].state = "READY"
    /\ ~task_runs[x].due
    /\ task_runs' = [task_runs EXCEPT ![x] = DueRow(@)]
    /\ UNCHANGED <<task_attempts, run_state, transactions, process>>

\* SIGKILL, a lost connection, a deadlock victim's error: the process ends and
\* the database rolls its transaction back. Its leases stay behind.
crash(w) ==
    /\ pc[w] \notin {"dead", "stopped"}
    /\ EndTransaction(w)
    /\ pc' = [pc EXCEPT ![w] = "dead"]
    /\ batch' = [batch EXCEPT ![w] = [x \in TaskRuns |-> 0]]
    /\ ClearJob(w)
    /\ UNCHANGED <<tables, stopping>>

\* SIGTERM or SIGINT: only run_forever's loop looks at the flag, so a batch in
\* progress is finished first.
request_shutdown(w) ==
    /\ pc[w] \notin {"dead", "stopped"}
    /\ ~stopping[w]
    /\ stopping' = [stopping EXCEPT ![w] = TRUE]
    /\ UNCHANGED <<tables, transactions, pc, batch, job>>

\* A mistake: run_once looks at the flag between two tasks of a batch.
MayStopAnytime(w) == pc[w] \in {"idle", "batch"}

MayStop(w) == pc[w] = "idle"

stop(w) ==
    /\ MayStop(w)
    /\ stopping[w]
    /\ pc' = [pc EXCEPT ![w] = "stopped"]
    /\ UNCHANGED <<tables, transactions, batch, job, stopping>>

-----------------------------------------------------------------------------
(* The specification.                                                      *)

\* What a worker's own thread does next, one step at a time.
WorkerStep(w) ==
    \/ claim_batch(w) \/ claim_batch_rejected(w) \/ claim_commit(w)
    \/ start_task(w) \/ execute(w) \/ discard_result(w)
    \/ record_success(w) \/ record_success_rejected(w)
    \/ record_failure(w) \/ record_failure_retry(w) \/ record_failure_terminal(w)
    \/ block_descendants(w) \/ block_descendants_done(w)
    \/ refresh_run_state(w) \/ report_commit(w)
    \/ stop(w)

\* What can happen to a worker at any time.
WorkerEvent(w) == renew_lease(w) \/ crash(w) \/ request_shutdown(w)

\* The rest of a cancel request once the handler has begun it.
CancelStep(r) == cancel(r) \/ refresh_run_state(r) \/ cancel_commit(r)

ClientEvent(r) == create_run(r) \/ cancel_run(r) \/ cancel_abort(r)

Next ==
    \/ \E w \in Workers : WorkerStep(w) \/ WorkerEvent(w)
    \/ \E r \in Runs : CancelStep(r) \/ ClientEvent(r)
    \/ reap_expired_leases
    \/ \E x \in TaskRuns : lease_expires(x) \/ backoff_elapses(x)

Spec == Init /\ [][Next]_vars

\* A lease nobody is left to renew.
OrphanLeaseExpires(x) ==
    /\ \A w \in Workers : task_runs[x].worker_id = w => pc[w] = "dead"
    /\ lease_expires(x)

\* Worker threads and the reaper run, time passes, a started request ends, and
\* requests do not fail for ever. Nothing makes a client submit or cancel, a
\* process die, or a live owner lose its lease.
Fairness ==
    /\ \A w \in Workers : WF_vars(WorkerStep(w))
    /\ \A r \in Runs : WF_vars(CancelStep(r)) /\ <>[][~cancel_abort(r)]_vars
    /\ WF_vars(reap_expired_leases)
    /\ \A x \in TaskRuns : WF_vars(OrphanLeaseExpires(x))
                           /\ WF_vars(backoff_elapses(x))

FairSpec == Spec /\ Fairness

-----------------------------------------------------------------------------
(* Properties.                                                             *)

Pcs == {"idle", "claiming", "batch", "executing", "succeeded", "failed",
        "failing", "blocking", "refreshing", "committing", "cancelling",
        "stopped", "dead"}

\* Every variable has the type its columns, constraints and handlers give it.
TypeOK ==
    /\ task_runs \in [TaskRuns -> TaskRunRow]
    /\ task_attempts \subseteq TaskAttemptRow
    /\ run_state \in [Runs -> RunState \cup {"ABSENT"}]
    /\ writes \in [Clients -> [TaskRuns -> TaskRunRow]]
    /\ attempt_writes \in [Clients -> SUBSET TaskAttemptRow]
    /\ derived \in [Clients -> RunState]
    /\ pc \in [Clients -> Pcs]
    /\ batch \in [Workers -> [TaskRuns -> Nat]]
    /\ current \in [Workers -> TaskRuns \cup {NoTask}]
    /\ lost \in [Workers -> BOOLEAN]
    /\ seen \in [Workers -> Nat]
    /\ frontier \in [Workers -> SUBSET Tasks]
    /\ stopping \in [Workers -> BOOLEAN]

\* ck_task_runs_lease_iff_running, kept by every transaction: a row has an owner
\* and a lease exactly while it is RUNNING, before the database has to refuse it.
LeaseIffRunning ==
    \A x \in TaskRuns :
        /\ task_runs[x].state = "RUNNING" <=> task_runs[x].worker_id # NoWorker
        /\ task_runs[x].state = "RUNNING" <=> task_runs[x].lease # "none"

\* The tasks a run can no longer stop from having run.
Started == {"READY", "RUNNING", "SUCCEEDED", "DEAD_LETTER"}

\* _unblock_children releases a task only when every parent has succeeded, and
\* never loses or repeats a decrement however parents' reports interleave: the
\* counter of a task that may still run is the number of its parents that have
\* not succeeded, and the task waits exactly while that is not zero.
PendingCountExact ==
    \A x \in TaskRuns :
        task_runs[x].state \in Started \cup {"PENDING"} =>
            /\ task_runs[x].pending_deps =
                 Cardinality({p \in Parents(x) : task_runs[p].state # "SUCCEEDED"})
            /\ task_runs[x].state = "PENDING" <=> task_runs[x].pending_deps > 0

\* _block_descendants reaches everything downstream of a terminal failure: no
\* child of a failed or blocked task is left waiting for a parent that will
\* never succeed, whatever branches fail, retry or are cancelled meanwhile.
FailureClosed ==
    \A x \in TaskRuns : \A p \in Parents(x) :
        task_runs[p].state \in {"DEAD_LETTER", "FAILED", "BLOCKED"} =>
            task_runs[x].state \in {"BLOCKED", "CANCELLED"}

\* A report that found its lease gone between its read and its update blocks the
\* descendants all the same, so a BLOCKED task may have no failed parent. It still
\* is "terminal, ... cannot run": such a parent has no attempt left to succeed with.
BlockedIsHopeless ==
    \A x \in TaskRuns : task_runs[x].state = "BLOCKED" =>
        \E p \in Parents(x) :
            \/ task_runs[p].state \in {"DEAD_LETTER", "BLOCKED", "CANCELLED"}
            \/ /\ task_runs[p].state = "READY"
               /\ task_runs[p].attempt = max_attempts[p[2]]

\* "Append-only record": the attempt rows of a task tell what happened. The
\* attempts made are 1..attempt, the row of the current attempt is open and names
\* the owner exactly while the task runs, no other row is open unless the task
\* was cancelled under it, and the one successful row is the attempt whose
\* execution produced the output of a task that succeeded.
AttemptsAreTrue ==
    \A x \in TaskRuns :
        LET row  == task_runs[x]
            mine == {a \in task_attempts : a.task_run_id = x}
        IN  /\ {a.attempt : a \in mine} = 1..row.attempt
            /\ Cardinality(mine) = row.attempt
            /\ \A a \in mine :
                 /\ a.state = "RUNNING" => /\ a.attempt = row.attempt
                                           /\ row.state \in {"RUNNING", "CANCELLED"}
                 /\ a.state = "SUCCEEDED" <=> /\ row.state = "SUCCEEDED"
                                              /\ a.attempt = row.attempt
                 /\ row.state = "RUNNING" /\ a.attempt = row.attempt =>
                      a.state = "RUNNING" /\ a.worker_id = row.worker_id
            /\ row.output = IF row.state = "SUCCEEDED" THEN row.attempt ELSE 0

\* The lease predicate is worker_id, not the attempt, so it must never let the
\* result of an earlier claim pass for a later one: a worker whose id is on a
\* row holds that row in its batch with the row's current attempt, or it is dead.
OwnerHoldsCurrentAttempt ==
    \A w \in Workers : \A x \in TaskRuns :
        task_runs[x].worker_id = w =>
            \/ pc[w] = "dead"
            \/ batch[w][x] = task_runs[x].attempt

\* SIGTERM loses nothing: a worker that stopped gracefully leaves no lease to
\* expire, because run_forever finishes the batch it has claimed.
StoppedHoldsNothing ==
    \A w \in Workers : pc[w] = "stopped" =>
        \A x \in TaskRuns : task_runs[x].worker_id # w

\* "A run can never be observed complete while a task row says otherwise"
\* (_execute): a cached state that is terminal is what the rows say now, even
\* after refreshes that read the rows before another transaction's commit.
TerminalRunIsTrue ==
    \A r \in Runs : run_state[r] \in TerminalRunStates =>
        run_state[r] = derive_run_state(StatesIn(task_runs, r))

\* The effect of a task is committed once: nothing a zombie, a retry, the reaper
\* or a cancellation does moves a task out of a terminal state or replaces the
\* output of one that succeeded.
TerminalIsFinal ==
    [][\A x \in TaskRuns :
        task_runs[x].state \in TerminalTaskStates =>
            /\ task_runs'[x].state = task_runs[x].state
            /\ task_runs'[x].output = task_runs[x].output]_vars

\* No statement consults TASK_TRANSITIONS, yet only one edge outside it is taken: a
\* retried or reaped task goes from RUNNING straight to READY. In particular "READY
\* -> BLOCKED is impossible" holds even for the failure reports that block
\* descendants after their lease was lost: their task is past its last attempt, so
\* nobody can have completed it and released a child meanwhile.
TransitionsDeclared ==
    [][\A x \in TaskRuns :
        LET from == task_runs[x].state
            to   == task_runs'[x].state
        IN  from \in TaskState /\ to # from =>
                to \in TASK_TRANSITIONS[from] \/ <<from, to>> = <<"RUNNING", "READY">>]_vars

-----------------------------------------------------------------------------
(* What the queue promises, without workers, leases and transactions.      *)

Outcome(x) ==
    LET row == task_runs[x]
    IN  CASE row.state = "ABSENT" -> "absent"
          [] row.state = "SUCCEEDED" -> "done"
          [] row.state = "DEAD_LETTER" -> "failed"
          [] row.state = "BLOCKED" -> "skipped"
          [] row.state = "CANCELLED" -> "cancelled"
          [] row.state = "READY" /\ row.attempt = max_attempts[x[2]] -> "stuck"
          [] OTHER -> "open"

Ledger == INSTANCE TaskLedger WITH ledger <- [x \in TaskRuns |-> Outcome(x)]

\* TaskQueue implements TaskLedger: however the statements of reports, sweeps and
\* cancellations interleave, each takes effect as one step that decides a task once,
\* after all its parents succeeded, together with everything below a failed one or
\* everything undecided of a cancelled run, and in no other run.
ImplementsLedger == Ledger!Spec

-----------------------------------------------------------------------------
(* Liveness, of FairSpec.                                                  *)

RunDone(r) ==
    \A x \in TaskRuns : x[1] = r => task_runs[x].state \in TerminalTaskStates

NoWorkerLeft == \A w \in Workers : pc[w] \in {"dead", "stopped"}

\* "No task may be lost": every task of a submitted run ends, through crashes,
\* expired leases, retries and cancellation, unless no worker is left to run it.
EveryRunEnds ==
    \A r \in Runs : run_state[r] # "ABSENT" ~> (RunDone(r) \/ NoWorkerLeft)

\* The lease of a worker that died is always recovered by the reaper (or the
\* task is withdrawn), with no worker needed to notice it.
DeadOwnerIsReaped ==
    \A w \in Workers : \A x \in TaskRuns :
        (pc[w] = "dead" /\ task_runs[x].worker_id = w)
            ~> task_runs[x].worker_id # w

-----------------------------------------------------------------------------
(* What the repository's documents and comments say of this code, and the  *)
(* code does not do. Each is checked by a run that finds it violated.      *)

\* README: the work of a killed worker is "requeued by the reaper within one
\* lease period and completed by another worker". A requeued task must then be
\* one a worker can claim; reap_expired_leases requeues tasks on their last
\* attempt too, and claiming those breaks CHECK (attempt <= max_attempts).
RequeuedIsClaimable ==
    \A x \in TaskRuns : task_runs[x].state = "READY" =>
        task_runs[x].attempt < max_attempts[x[2]]

\* refresh_run_state: the cached state "is always the output of derive_run_state
\* over the current task rows". Here only for a run all of whose tasks succeeded
\* and on which no worker or request is at work any more.
FinishedRunIsCurrent ==
    \A r \in Runs :
        /\ StatesIn(task_runs, r) = {"SUCCEEDED"}
        /\ pc[r] = "idle"
        /\ \A w \in Workers : current[w] # NoTask => current[w][1] # r
        => run_state[r] = derive_run_state(StatesIn(task_runs, r))
=============================================================================
