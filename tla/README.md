# Conductor: TLA+ specifications and proofs

Conductor is a job orchestration service. Clients publish *workflows* (acyclic
graphs of tasks) over a REST API and start *runs* of them; worker processes take
tasks from a queue that is a PostgreSQL table, execute them, and report; a reaper
returns the tasks of dead workers to the queue. This directory holds TLA+ models
of that code, TLC configurations that check them on small instances, and TLAPS
proofs of the results that matter most. Paths below are relative to
`src/src/conductor/`.

## The system

| part | state | operations | who calls it |
|---|---|---|---|
| task queue (`db/repositories/runs.py`, `db/models.py`) | tables `task_runs`, `task_attempts`, `workflow_runs` | `create_run`, `claim_batch`, `renew_lease`, `record_success`, `record_failure`, `reap_expired_leases`, `refresh_run_state`, `cancel` | workers, reaper, API |
| worker (`worker/worker.py`) | batch of claims, current task, shutdown flag; a heartbeat thread per task | `run_forever`, `run_once`, `_execute`, `Heartbeat._run` | the operating system |
| reaper (`scheduler/reaper.py`) | none | `reap_once` every third of a lease | its own loop |
| lifecycle (`core/state.py`) | none | `derive_run_state`, transition tables | queue |
| run API (`api/routes/runs.py`, `api/deps.py`) | one transaction per request; `idempotency_keys` | create, cancel, list, get | clients |
| workflow publication (`db/repositories/workflows.py`) | `workflows`, `tasks`, `task_dependencies` | `create`, `_next_version` | API |
| graph (`core/dag.py`, `Dag`) | adjacency lists | `from_dependencies`, `topological_order`, `_find_cycle` | publication |
| cursor (`core/dag.py`, `DagCursor`) | in-degree counters, done and failed sets | `mark_succeeded`, `mark_failed`, queries | library users |
| delay queue (`core/heap.py`) | heap and key index | `push`, `pop`, `cancel`, `pop_due` | library users |
| retry policies (`core/retry.py`) | none | `should_retry`, `next_delay`, `build_policy` | queue |
| rate limiter (`core/ratelimit.py`) | token buckets per key | `check`, `evict_idle` | API threads |
| LRU cache (`core/lru.py`) | linked list and index | `get`, `put`, `invalidate` | library users |
| pagination (`db/repositories/base.py`) | none (a cursor token) | `list_page` | API |
| executors, config, sessions, app wiring | none | I/O | worker, API |

All coordination goes through the three tables. No process talks to another
directly; a worker learns that it lost a task only when one of its `UPDATE`s
matches no row. What makes this hard: every handler is a sequence of statements
under READ COMMITTED, so rows change between them; a worker can die, stall or lose
its lease between any two of them, and then report late; several reports of one
run, a cancellation and the reaper meet on the same rows; and a run's cached state
is computed from rows that other transactions are changing.

What makes each part correct:

* queue: a task is released exactly when its last parent has succeeded; a failure
  blocks everything below it, in its own run only; a committed result is never
  replaced; a lease exists exactly while a task runs; the attempt history is true;
  a finished run is reported as what its tasks say; nothing is lost.
* worker: a result is reported only for the claim it was computed for; a graceful
  stop leaves no claim behind.
* graph: an order is returned exactly for an acyclic graph; a reported cycle is one.
* cursor: counters and deltas are exact under repeated and late reports; no stall.
* submission: a key starts one run, a replay names the run of the same request, and
  versions have neither gaps nor duplicates.
* delay queue: timers fire earliest first, and a withdrawal hits its own timer.
* leases: a worker in good health keeps its task, a dead one's task comes back within a
  bound, and nobody throws away work that is still its own.
* row locks: transactions that every worker makes all the time are never the victims of
  a deadlock.
* retry policies: what is accepted is well defined, no option of it is lost, and backoff
  only grows.
* rate limiter: it grants what a bucket refilled by a timer would, and the wait it names
  is enough.
* LRU cache: list and dict agree, and the least recently used entry goes first.
* pagination: a walk through the pages lists every run that was there, once.

`PROJECT.json` lists the hazards behind these, each at its line.

## Modules

| module | models | role |
|---|---|---|
| `TaskStates` | `core/state.py` | vocabulary: states, the task transition table, `derive_run_state` |
| `TaskQueue` | queue, worker, heartbeat, reaper, cancel handler | the core specification and its properties |
| `TaskLedger` | | abstract specification: what the queue promises its clients |
| `TaskQueueProofs` | | TLAPS proofs about `TaskQueue`: types, row locks, final results, run states |
| `TaskHistoryProofs` | | claims, their owners and the attempt history |
| `TaskFlowProofs` | | what success releases and failure blocks |
| `TaskLedgerProofs` | | `TaskQueue` implements `TaskLedger` |
| `LeaseClock` | leases, heartbeat threads and sweeps (`worker.py`, `reaper.py`, `config.py`) | the time that `TaskQueue` abstracts from |
| `RowLocks` | the statements of `runs.py` as row locks | the lock order that `TaskQueue` abstracts from |
| `LeaseProofs` | | proofs about `LeaseClock` and `RowLocks` |
| `Submission` | `POST /workflows`, `POST /runs`, `WorkflowRepository.create` | publication and run creation |
| `RateLimiter` | `core/ratelimit.py`, `rate_limit` of `api/deps.py` | token buckets under threads |
| `RunListing` | `list_page`, `db/repositories/base.py` | pages of runs under concurrent writers |
| `ServiceProofs` | | proofs about `Submission`, `RateLimiter` and `RunListing` |
| `RetryPolicy` | `core/retry.py`, `RetryPolicySpec` of `api/schemas.py` | from a request to the delays |
| `Dag` | `Dag` | graph construction, Kahn's algorithm, cycle search |
| `DagCursor` | `DagCursor` | progress through a graph |
| `LruCache` | `core/lru.py` | the linked list, pointer by pointer |
| `Recency` | | abstract specification: what an LRU cache promises |
| `CoreProofs` | | proofs about `DagCursor`, `Dag`, `LruCache` and `RetryPolicy` |
| `DelayQueue` | `core/heap.py` | the indexed heap |
| `Timers` | | abstract specification: what a delay queue promises |
| `DelayQueueProofs` | | the heap, its index and its drains; `DelayQueue` implements `Timers` |
| `MCTaskQueue`, `MCDelayQueue` | | instances for TLC |
| `MCLeases`, `MCService`, `MCCore` | | test benches: several components in one instance |

A *bench* holds components that share no state (`MCLeases`: `LeaseClock`, `RowLocks`;
`MCService`: `Submission`, `RateLimiter`, `RunListing`; `MCCore`: `DagCursor`, `Dag`,
`LruCache`, `RetryPolicy`). It extends their modules, and its variable `subject` names the one component that moves in
a behaviour. Since nothing is shared, behaviours in which two of them alternate would
show nothing new. The proofs are about each component's own specification
(`CacheSpec`, `GraphSpec`, ...), of which a bench with that `subject` takes exactly the steps.

Operators named like the code (`claim_batch`, `record_failure`, `_block_descendants`
without its underscore) are the code's functions; a function whose outcomes differ
in control is one action per outcome (`record_success`, `record_success_rejected`).
Operators under a comment "A mistake" are plausible bugs; `PROJECT.json` pairs each
with the property that notices it.

### TaskQueue

*State.* `task_runs` and `task_attempts` are the committed tables, `run_state` is
`workflow_runs.state`. `writes[c]` and `attempt_writes[c]` are the uncommitted row
versions of client `c` (a worker, or the cancel request of a run), which are also the
row locks it holds. `pc`, `batch`, `current`, `lost`, `seen`, `frontier` and
`stopping` are the local variables of the handlers. `scheduled_at` is kept as *due or
not*, `lease_expires_at` as *none, live or expired*, and `output` as the number of the
attempt that computed it, which is what a property can tell apart. A row that has not
been inserted is `ABSENT`.

*Transactions.* One action per statement that reads or writes shared rows. A
statement reads the committed table overlaid with its own transaction's writes
(`View`); an `UPDATE` waits while another transaction has written a row it would
match, and then evaluates its `WHERE` on the committed version, as PostgreSQL does
when it re-checks a row it waited for; `FOR UPDATE SKIP LOCKED` passes such rows over;
a commit publishes all writes at once; a rollback or a crash drops them.

Three groups of statements are one action each. `record_success` updates its row,
closes the attempt and updates the children; the action waits for all these rows
together. Until the children are free the model has not locked the worker's own row
either, so it allows every order of the other transactions that the code allows, and
some more. `reap_expired_leases` closes attempts that no other client writes while the
task's row is held. `claim_batch` inserts attempt rows that nobody sees before the
commit. Because locks are taken together, a cycle of lock waits does not occur in this
model (`RowLocks` is about them); PostgreSQL resolves one by failing a victim, whose
transaction rolls back: for a worker the exception ends the process (`crash`), for a
request it is `cancel_abort`.

*Processes.* `claim_batch` chooses rows by priority, in any order among equals (the code
orders by `scheduled_at` then, which the model does not keep). If a row of the batch
breaks a constraint the statement fails as a whole and the process ends
(`claim_batch_rejected`). `renew_lease` runs beside `execute`, so the lease can be found
lost at any moment of an execution. `record_failure` is three steps: the read, the update
decided by what was read (its row count is not looked at), and one step per layer of
`_block_descendants`. `refresh_run_state` reads; the following commit writes. A lease may
expire at any time, whatever its owner does: this stands for a dead or paused owner, a
database that cannot be reached, clock skew between worker and reaper, and tasks of a
batch that wait unheartbeated. A worker id is never reused (the code draws it at random),
so a restarted worker is a new one.

*What it implements.* `TaskLedger` keeps one entry per task of a run: open, or its
outcome. A success, a failure with everything below it, and a cancellation are one step
each, and an entry is decided once, after all its parents are done. `ImplementsLedger`
maps the committed rows to entries and requires every step of every transaction to be
such a step or none. The ledger had to admit one thing the code does: a task requeued
after its last attempt is `stuck`, and the failure report of its old owner may still
come and skip everything below it (`FailLate`). `BlockedIsHopeless` says that this does
no further harm.

### LeaseClock

One task row, its workers with their heartbeat threads, and the reaper, in ticks. A call
to the database takes up to `Slow` ticks and its stamp is computed when it begins, as in
`renew_lease` and `claim_batch`; a renewal may fail, before or after its update was
committed. A sweep is a call too (`sweep_begin`, then `reap_expired_leases` or
`sweep_failed`): what it finds expired is what was expired at its stamp. It has a limit of
its own, `SlowSweep`, because `reap_once` makes a statement per requeued row after the first,
each with a `statement_timeout`; nothing is assumed about its size. A call acts on the row
when it ends, since its statement re-checks a row it had to wait for; its snapshot is taken
to be no older than that. `join_timeout` leaves behind a heartbeat whose call still runs (a *straggler*),
which then renews or misses whatever lease its worker holds. The reaper's clock is `skew`
ticks ahead of the workers' or behind. `sick` marks a claim that met a slow call, two
failed renewals in a row, a wait in its batch, or a straggler: outside these
`HealthyKeepsLease` holds. It takes two assumptions on the settings. That
`2 * Beat + 3 * Latency + Skew <= Lease` is what "tolerate a missed beat" (the validator of
`heartbeat_seconds`) takes; the validator itself guarantees it only while latency and skew
fit into the last third of the lease. That `Latency < 2 * Beat` says that a call of normal
latency returns before `join(timeout=heartbeat_seconds * 2)` gives up on it; the proof
asked for it, and with a beat of 1 and a latency of 2 TLC finds a healthy worker that
leaves a straggler behind and loses its lease.

`RecoveryBounded` adds up what `run_forever` can put between a death and the requeue: the
lease and the skew, a sweep whose stamp came one tick before the expiry (`SlowSweep`), an
interval (`max(1.0, lease / 3)`; `Second` is a second in ticks), and the next sweep; each
sweep that fails takes `SlowSweep` and two intervals more. In the instance of `leases` the
first case of the bound is reached exactly (14 ticks for a lease of 8 and a skew of 1), so
it cannot be lowered. The second case was found by the proof. A sweep
that failed just before the worker died delays the next by two intervals, which is longer
than the first bound when the reaper's clock is so far ahead that little of the lease is
left.

### RowLocks

Every transaction as the sequence of its statements' rows, locked one by one in any order
within a statement, since an `UPDATE` has no `ORDER BY`. Which rows a `WHERE` matches is
left open. `_block_descendants` is one statement per layer (`Frontier`), up to `Depth`
layers, and ends with the first that matches nothing. Circles of waits do occur, between reports, sweeps and cancellations. They
never include a claim (`SKIP LOCKED`) or a heartbeat, and never go through the run's row,
which all reports of a run and its cancellation lock.

### Submission

Every request is one transaction of one handler: publishing a workflow version, or
starting a run with an `Idempotency-Key` or without. `workflows`, `runs` and `keys` are the
committed tables, `answer` the response. The rows a request has inserted and not committed
are those of a request at `"committing"`; an insert of an equal unique value waits for it
(`VersionInFlight`, `KeyInFlight`) and fails once it is committed. A request may be `lost`
at any point, with its transaction rolled back. The answer of a handler exists before
`db_session` commits: with the locked FastAPI (0.141.1) code after a dependency's `yield`
runs once the response is out, so a request lost at `"committing"` may leave an answer
for a run that does not exist, and `ReplayIsFaithful` says a replay never names such a run.
Validation of a workflow is a nondeterministic refusal here; its graph part is `Dag`. A
duplicated dependency, which `create` would report as a conflict, is refused by the
request schema.

### RateLimiter, RunListing

`rate_limit` is a synchronous dependency, so `check` runs in the threads of the server's
pool, and CPython changes threads only at calls: the code between two calls is one action.
Tokens are counted in units of which a request costs `Cost`, so that a tick accrues
fractions of a token. `credit` is a bucket refilled by a timer, debited
whenever the code grants. Nothing calls `evict_idle`; the model lets it run between checks,
and `LazyIsExact` asks that the idle time be long enough to fill a bucket, which the code
does not check. `promise` is
what the last refusal told its client, and `entitled` the thread that checks, alone, after
that wait.

In `RunListing` `created_at` is the beginning of the inserting transaction, so runs become
visible out of order and may share it; the walk asks for any limits, with a state filter
or without, while runs are inserted and change state. A run that commits late, above the
cursor, is not promised to the walk.

### Dag, DagCursor, RetryPolicy

`Dag` runs one call of `from_dependencies` and `topological_order` per behaviour, one
iteration of each loop per action, from every submission in `ParentLists`. The
properties judge the outcome by the submission alone (`Acyclic`: every set of tasks has
one that waits for none of them).

`DagCursor` may be told anything at any time. `blocked`'s search is defined by its
result, the least set closed under children. Its graph is acyclic, since the constructor
calls `topological_order` and lets its error out (`AcyclicAssumption`).

`RetryPolicy` follows one specification, valid or not, through `to_spec` and
`build_policy`, and then through the failures of a task. Jitter may draw any delay up to
the backoff.

### LruCache, DelayQueue

`LruCache` keeps both pointers of every node. `get_or_load` is two actions, since its
loader runs in between and may use the cache itself. `ImplementsRecency` reads the list
from its head and requires every operation to be one of a list ordered by last use, with
what it returns. In `DelayQueue` an operation runs up to its first sift, and each iteration
of `_sift_up`, `_sift_down` and `pop_due` is an action; positions count from 1.
`ImplementsTimers` maps it to `Timers` (key to due time). What a drain has popped stays set
until the drain returns, so that a drain is one step of the abstract queue and a sift none.

## Runs

| run | instance | shows |
|---|---|---|
| `join` | 2 workers, 1 run, {a, b} → c → d, a has two attempts, batch 2 | types, `LeaseIffRunning`, `PendingCountExact`, `FailureClosed`, `BlockedIsHopeless`, `AttemptsAreTrue`, `TerminalRunIsTrue`, `OwnerHoldsCurrentAttempt`, `StoppedHoldsNothing`, `TerminalIsFinal`, `TransitionsDeclared`, `ImplementsLedger` |
| `two_runs` | 2 workers, 2 runs of a → b, b first by priority | `ImplementsLedger`: no step of a run decides a task of the other |
| `liveness` | 2 workers, 1 run of a → b, a has two attempts | `EveryRunEnds`, `DeadOwnerIsReaped` |
| `leases` | clock: 2 workers, lease of 8 ticks, a beat every 2; locks: 2 workers and another session, a → b, {a, b} → c, 2 layers | `HealthyKeepsLease`, `RecoveryBounded`, `DiscardIsJustified`; `ClaimsAndHeartbeatsAreSafe`, `RunRowIsSafe` |
| `service` | 3 publications and 3 submissions, one key or none, two bodies; 2 threads of the limiter; a walk over 4 runs | `OneRunPerKey`, `ReplayIsFaithful`, `VersionsContiguous`; `LazyIsExact`, `RetryAfterIsHonest`; `ListedOnce`, `NoneMissed` |
| `core` | a diamond with a tail and a lone task; 104 976 submissions of 4 tasks; caches of 0 to 3 entries; every retry request over small values | `PendingExact`, `NoStall`, `DeltaIsExact`; `AnswerIsRight`, `GraphIsJudged`; `ListIsSound`, `ImplementsRecency`; `BackoffNeverShrinks`, `BudgetIsAsked` |
| `delay_queue` | 6 keys, 3 times | `HeapOrdered`, `IndexExact`, `DrainIsExact`, `ImplementsTimers` |

*Bounds.* Two workers are enough for every race the properties are about, which are
between one claim and one rival (another worker, the reaper, a cancellation). The join
gives two parents of one child (concurrent decrements, two failing branches) and two
layers below a failure. A worker claims both parents at once; when the lease of the
waiting one expires it is reaped and claimed again, so both workers then report parents of
c side by side, and one of them holds a claim that is no longer its own. Attempts are
bounded by the budgets themselves, so no counter needs a cap. Two runs share task ids,
which is all that could leak between them. Workers are symmetric in the safety runs, and
in `two_runs` the runs are too.

In `leases` the lease (8) is the shortest with which a beat of 2, a latency of 1 and a
skew of 1 tolerate a missed beat; `Slow` (5) is more than `join` waits (4), so stragglers
occur, and less than 10, after which two of them could be alive at once. A sweep takes up to
2 ticks, so that a lease can expire between its stamp and its end. Any sweep may fail while
no dead worker holds the row, and one while one does (`MaxFailedSweeps`). A beat of exactly a
third of the lease, the most the validator allows, needs a lease of 12 ticks with this
latency and skew, which is beyond the run; `HealthyKeeps` covers it. The lock instance has a task with two parents of
which one is a parent of the other, so that two reports can meet on two rows in different
orders; the third session is the reaper or a request.

Three submissions give an original, a retry and a foreign use of one key; three
publications give a winner, a loser and a later version. Six heap entries are the fewest
for which a removal must move its replacement *up*. Four tasks with up to two parents each
give cycles behind dead ends, several components, and cycles that a search reaches from
outside. A bucket of two requests (`Capacity` 6, `Cost` 3) that accrues 2 units per tick
is refilled by fractions, overdrawn, full and evicted within `RateTime` 4, since `IdleTtl`
(3) just fills it. Four runs at two times, with pages of at most two, give ties across a
page boundary and two boundaries. Three keys and a capacity of 2 or 3 unlink the first, a
middle and the last node; a loader may load once more (`MaxNesting` 2). Retry options
range over valid and invalid values (-1 to 3), and `ExponentCap` 2 and `MAX_DELAY_SECONDS`
5 are reached within four attempts.

Deadlock is checked in `leases`. It is not reported for the queue, which stops when all
workers are dead or stopped, or all runs are done; graph calls, requests and walks end
too.

*Fairness.* In `CoreSpec` the thread that orders a graph runs on to its end. In
`FairSpec`, a worker's thread keeps taking its next step until it ends; the reaper keeps
sweeping (its loop catches every exception); a begun request ends; a backoff elapses; a
lease whose owner is dead expires. A request is not aborted for ever
(`<>[][~cancel_abort]`), since a caller that keeps cancelling a run and failing could hold
the run's rows again and again. Nothing makes clients submit or cancel, processes die, or
living owners lose their leases. `EveryRunEnds` excepts the state in which no worker is
left; a requeued task past its budget leads there (below).

### Where code and text disagree

These runs expect TLC to find a violation; `PROJECT.json` quotes the texts.

* `requeued` — a worker dies on a task's last attempt. The reaper requeues the task, and
  the next claim breaks `CHECK (attempt <= max_attempts)`: the exception leaves
  `run_forever`, the worker ends, and the row waits at the head of the queue.
* `finished_run` — write skew: the last two tasks of a run are reported concurrently,
  neither refresh sees the other, and the finished run stays `RUNNING`.
* `idempotent_retry` — a submission repeated while the original is in flight fails at the
  primary key of `idempotency_keys` and is answered 500, not with the original run. The
  promise that matters holds: no second run (`OneRunPerKey`).
* `recovery` — with equal clocks and no failed sweep, a worker dies with its lease all but
  whole. A sweep comes one tick before the expiry and finds nothing, and after a lease
  period the task still waits for the next. "Within one lease period" (the repository's
  `README.md:117`) is up to a lease, an interval and two sweeps (`RecoveryBounded`).
* `rate_race` — a thread stores a refill it computed before another's debit; the debit is
  lost and a request too many is granted. Errors are only in the client's favour
  (`RetryAfterIsHonest`), except when two first requests make two buckets.

More observations, without a run of their own:

* Two publications may choose one version. The unique violation is raised by the
  first flush of `create` (`workflows.py:69`), outside the `try` meant for it (`:98`): 500,
  not 409. Versions stay contiguous (`VersionsContiguous`).
* A failure report whose task was reaped between its read and its update changes no row of
  the task and still blocks the descendants (`runs.py:409`). The task is then on its last
  attempt, so nobody can claim it again, complete it, and release a child that is then
  blocked: the attempt budget is what keeps "READY -> BLOCKED is impossible"
  (`state.py:82`) true, and `TransitionsDeclared` depends on it.
* The `version` column of `workflow_runs` is incremented and never compared, so a stale
  refresh can also be written over a terminal run state.
* Retried and reaped tasks go from `RUNNING` to `READY`, which `TASK_TRANSITIONS` does not
  list (`assert_task_transition` has no caller); `TransitionsDeclared` checks that this is
  the only such edge.
* `cancel` marks `RUNNING` rows `CANCELLED` at once, so a run is reported `CANCELLED` while
  a worker still executes a task of it and will have its result rejected. The attempt row
  of that task is never closed; `AttemptsAreTrue` admits this one open row.
* A request for the retry policy `none` is always refused: the schema gives `max_attempts` a
  default, and `NoRetry` has no such field, although `to_spec` says that "each policy
  receives only fields it accepts" (`schemas.py:32`). `describe` of a `NoRetry` does not
  "round-trip" (`retry.py:75`) for the same reason.
* `evict_idle` goes by the time alone. "Reaping is safe precisely because a fully-refilled
  bucket is indistinguishable from a brand new one" (`ratelimit.py:103`) is true of rates
  that fill a bucket within `idle_ttl`, which `LazyIsExact` therefore assumes; with the
  default hour and capacity, a rate below 100 tokens per hour gives an idle key a fresh
  burst.
* `evict_idle`, `Decision.headers` and `LruCache` have no caller in the service.

The counterpart of `finished_run` holds, and is proved: a run that *is*
reported finished is finished, with that outcome (`TerminalRunIsTrue`). The cached state
errs only towards "still running".

## Proofs

TLC checks each inductive invariant below as an invariant of an instance; the proofs are
for every value of the constants.

### The queue

For every finite, nonempty set of tasks, any dependency relation, any sets of workers and
runs, any budgets, priorities and batch size (the assumptions stated in `TaskQueue`).
Each module builds on the invariant of the one before.

`TaskQueueProofs`:

* `TypeCorrect`: `Spec => []TypeOK`. `TypeOK` alone is not inductive: the handlers of a
  report index tables by `current[w]`, so `TypeInv` adds that a client inside a report has
  a task.
* `LeaseCorrect`: `Spec => []LeaseIffRunning`. A commit publishes rows that were written
  earlier, so the invariant must speak of uncommitted rows: `LockInv` says that every row
  version, committed or not, obeys the lease constraint; that no row is locked twice; that
  a locked row is still active in the committed table; and that rows of a run appear
  together.
* `TerminalFinal`: `Spec => TerminalIsFinal`, from `LockInv`: a commit changes only rows
  its transaction locked, those were active when written, and the lock kept them so.
* `FinishedRunTrue`: `Spec => []TerminalRunIsTrue`. `RunInv` adds that a terminal state a
  client has derived and not yet written is what the rows will be when it commits: all rows
  it saw unlocked were terminal already, hence final, and the others are its own.

`TaskHistoryProofs`:

* `OwnerIsCurrent` and `StoppedIsEmpty`, from `OwnerInv`: a transaction is open only inside
  its handler; an uncommitted row has an owner only if it is that owner's claim; a worker
  between batches owns no row, a report releases its row or found it gone, and a heartbeat
  says "lost" only of a lease that is; and a living worker whose id is on a row has the row
  in its batch with that attempt. The predicate of the code is the worker's id alone; that
  it never confuses two attempts is because a worker whose claim was reaped can claim again
  only when its batch is empty.
* `AttemptsTrue`, from `HistoryInv`: it adds how an uncommitted row continues the committed
  one (`WritesFollow`), that an uncommitted attempt row belongs to a locked task row
  (`AttemptWritesFollow`), that attempts have unique keys, and that the attempt
  `record_failure` has read is the worker's own (`SeenIsMine`). The history property itself
  is then kept by each of the four ways the tables change: creation, claim, report, and
  sweep or cancellation.

`TaskFlowProofs`, from `FlowInv`, which is about open transactions again:

* `CountIsExact`: an open report of success has locked every child that still waits
  (`SuccessCovers`), so its commit changes the counts of all of them and nobody else can
  have changed them meanwhile.
* `FailureIsClosed`: every child of a task that a report has failed or blocked is
  blocked or cancelled in the report's view of the table, unless the loop has yet to visit
  its parent (`ClosedView`); at the commit nothing is left to visit. That a layer that matches no row ends the loop is sound
  because everything under such a layer is closed already.
* `BlockedForGood`: the frontier holds hopeless tasks only, the first one included whose
  row count the code does not look at.
* `EdgesDeclared`: in particular no `READY` task is ever blocked, which rests on
  `BlockedForGood` and `CountIsExact`: a `READY` task's parents have all succeeded.

`TaskLedgerProofs`:

* `QueueImplementsLedger`: `Spec => ImplementsLedger`, the whole refinement. Creation is
  `Submit`, a commit of a success `Succeed`, of a last failure `Fail` or, when the row was
  requeued under the report, `FailLate`; a sweep is `Lose`, a cancellation `Cancel`; claims,
  retries, heartbeats and everything before a commit are stuttering. `LedgerInv` adds what
  makes a commit *one* decision: the frontier lies below the failed task and everything
  below the task is reached, a report changes rows of its own run only, a cancellation
  leaves nothing active, and no row of a cancelled run is active again.

### Time and row locks

`LeaseProofs`:

* `HealthyKeeps`, `RecoveryInTime`, `DiscardJustified`, for any number of workers and all
  settings within `LeaseAssumption` and `SlowAssumption`. `ClockInv` says where a heartbeat
  can be while its worker is somewhere, bounds what is left of the lease by the age of the
  present beat, the misses so far and the call in flight (`LeaseCovers`), and bounds
  `dead_for` plus the time to the end of the sweep that will find the lease expired, which
  is the one at work or the next (`Recovery`). A sweep that found too little began before
  the expiry (`TooEarly`).
* `RunRowSafe` and `LightTransactionsSafe`, for any sessions, graph and depth. `LocksInv`:
  the row of the run is locked last, so its holder waits for nothing; a claim waits for
  nothing; a heartbeat holds nothing while it waits.

### The API process

`ServiceProofs`:

* `OneRunForEachKey`, `ReplayFaithful`, `VersionsHaveNoGap`, for any number of requests,
  keys and bodies. `SubmissionInv`: a committed run of a keyed request and its key row come
  together; a request about to commit has its key to itself; the version a publication has
  chosen is at most the next one, and one about to be committed is new and nobody else's.
* `LimiterIsExact` and `LimiterIsHonest`, for any number of threads and every capacity,
  cost, rate and idle time that the constructors accept. `LazyInv`, for checks that do not
  overlap: the one thread under way holds the key's bucket, what it has computed is what the
  bucket would hold now, `credit` is that level too, and `_last_seen` is no older than
  `_updated_at`. The last is what makes an eviction lose nothing: a bucket not seen for
  `idle_ttl` was not debited for `idle_ttl` either, so it is full. For honesty, under any
  race for one bucket: a standing promise is covered by what the bucket holds and the
  deficit (`PromiseKept`), and the thread that comes after the wait finds enough at every
  step of its check (`EntitledGets`). The products of time and rate are the only
  arithmetic, in two lemmas.
* `PagesNeverRepeat` and `PagesSkipNothing`, for any finite set of runs and any page sizes.
  `ListInv`: the cursor is the position of the last item listed, all that was listed is
  newer than what the next query can return, and a run that was there all along is listed
  or still below the cursor. That two runs have the same position only if they are one is
  where the tiebreaker `id` enters.

### The data structures

`CoreProofs`:

* `CountersExact` (`Spec => []PendingExact`) and `DeltaExact` (`Spec => DeltaIsExact`), for
  every finite acyclic graph, whose one arithmetic fact is that a first success removes
  exactly one element from the unmet parents of each child, and `CursorNeverStalls`
  (`Spec => []NoStall`): of the tasks that are neither run nor behind a failure, one waits
  for none of the others, so it is ready.
* `CacheListIsSound` and `CacheKeepsRecency`, for any keys, values, capacity and nesting of
  loaders. `CacheInv`: some sequence lists the keys of the dict, each once, and the pointers
  link exactly that sequence between the sentinels, both ways. The lemmas say what the
  pointer operations do to such a sequence (`PushedFront`, `Unlinked`, `MovedFront`);
  `OneOrder` says that the pointers allow only one, so it is the one `Recent` chooses. For
  the refinement, each operation's new sequence is the entry list `Recency` asks for: an
  update, an insertion, or an insertion that drops the last.
* `DagAnswerIsRight`, the order and the cycle, for every submission. `GraphInv`: the
  adjacency lists are those of the keys handled so far; in Kahn's loop each counter is the
  number of parents not yet ordered, the tasks whose counter is zero are those in the order
  and in the queue, and an ordered task's parents come before it; in the search the grey
  nodes are the path, without repetition and along edges, and the stack holds the same
  nodes. That the submission has no cycle follows from the order: of any set of tasks, the
  first one in the order waits for none of the set.
* `DagVerdictHasReason`, the safety half of `EverySubmissionIsJudged`. `JudgeInv`: children
  of finished (black) nodes are finished and no cycle is among finished nodes, and the
  children a path node is past are finished or next on the path. A stuck order leaves tasks
  that wait for each other, so there is a cycle; if every node were finished there would be
  none, so the search does not reach its `AssertionError`.
* `RetryBacksOff` (`RetrySpec => BackoffNeverShrinks`) and `RetryBudget`
  (`RetrySpec => []BudgetIsAsked`), for all amounts, attempts and caps.
  `RetryInv` keeps that a built policy passed its validation, that its budget is the one
  asked for, and that the last delay is one `next_delay` allows. Powers grow with the exponent (`PowersGrow`), which is proved from a
  least counterexample; both caps are monotone.

`DelayQueueProofs`, for any finite set of keys and any integer times:

* `QueueIsHeap` and `QueueIsIndexed`. `QueueInv` says what holds in the middle of a sift:
  the index is exact after every swap; while an entry moves up only it may be due before its
  parent, and while it moves down only its children before it; and in both cases its
  children are not due before its parent (`GrandparentFirst`), without which a swap could
  break the order behind it. After `_sift_up` has moved an entry, `_sift_down` starts where
  it was, at an entry that is in order: the proof shows that calling both is harmless.
* `DrainReturnsTheDue`, from `DrainInv` (what is popped is due, in order, and not after
  anything left) and that a root of a heap is its least entry (a least counterexample
  again).
* `QueueKeepsTimers`: `Spec => ImplementsTimers`. A removal of the root is the firing of
  one timer, a cancel withdraws one, the end of a drain fires the keys it popped, all other
  steps are stuttering; that a drain's keys are as many as its entries is a bijection
  between positions and keys.

### Only model-checked

All liveness (`EveryRunEnds`, `DeadOwnerIsReaped`, `GraphIsJudged`) is beyond the prover. Of
`GraphIsJudged` the part about safety is proved. Every invariant, action property and
refinement that a passing run checks has a theorem.

## Not modelled

Executors are I/O: an execution succeeds or fails at will. `EveryRunEnds` takes it to end;
the HTTP executor's timeout is per phase of a request, so a server that trickles its
answer can stretch it. Reading settings, building engines and sessions, wiring, error
texts and health checks have no state of their own; the validator of `heartbeat_seconds`,
the statement timeout and the statuses of errors are part of `LeaseClock`, `RowLocks` and
`Submission`. Queries other than the listing are read-only and single statements. A
cursor's text form (base64 of JSON), timestamps for display, durations and statistics are
left out. In `TaskQueue` time is not measured; `LeaseClock` measures it for one task.

## Extending it

Every part of the system that keeps state is modelled, and every safety property that a run
checks is proved. What would add most next is time in `TaskQueue` itself: `LeaseClock`
measures it for one task, and a proof that `TaskQueue`'s untimed expiry covers each of
`LeaseClock`'s behaviours would join the two. A change of a transaction in `runs.py` starts
at its action in `TaskQueue`, its row sequence in `RowLocks`, and the lemmas about that action
in the proof modules.
