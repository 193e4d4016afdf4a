------------------------------ MODULE RowLocks ------------------------------
(***************************************************************************)
(* The row locks of one run, taken one at a time: TaskQueue takes those of *)
(* a statement together, so waits never close a circle there. An UPDATE    *)
(* has no ORDER BY, so it meets its rows in any order; locks are kept to   *)
(* the end of the transaction. Which rows a WHERE matches is left open.    *)
(*                                                                         *)
(* PostgreSQL breaks a circle of waits by failing one transaction. For a   *)
(* worker that exception is the end of the process, so it matters which    *)
(* transactions can be met by it.                                          *)
(***************************************************************************)
EXTENDS Integers, Sequences

CONSTANTS
    Clients,    \* sessions: workers, heartbeats, the reaper, requests
    makes,      \* Clients -> the kinds of transactions it makes
    Tasks,      \* the tasks of the run; a task names its row of task_runs
    depends_on, \* Tasks -> the set of its parents
    Depth,      \* the most layers there are below a task
    Run         \* the run's row of workflow_runs

\* The transactions there are.
Kinds == {"report", "cancel", "reap", "claim", "renew"}

ASSUME RowsAssumption ==
    /\ Run \notin Tasks
    /\ Depth \in Nat
    /\ makes \in [Clients -> SUBSET Kinds]

VARIABLES
    doing,      \* the kind of transaction a client has open, or "none"
    plan,       \* the rows each of its statements has still to lock, in order
    held,       \* the rows it has locked
    want        \* the rows, none or one, it waits for

lock_vars == <<doing, plan, held, want>>

ChildrenOf(xs) == {t \in Tasks : depends_on[t] \cap xs # {}}

Free(c, x) == \A d \in Clients \ {c} : x \notin held[d]

-----------------------------------------------------------------------------
(* The statements of each transaction, as the sequence of rows they lock.  *)

\* A mistake: the run's state is rolled forward before the children are updated.
WithRefreshEarly(own, others) == <<own, {Run}>> \o others

\* _execute and cancel: refresh_run_state is the last statement.
WithRefresh(own, others) == <<own>> \o others \o <<{Run}>>

\* record_success: the row, then its waiting children.
record_success_locks(x) == {WithRefresh({x}, <<cs>>) : cs \in SUBSET ChildrenOf({x})}

\* _block_descendants' frontier: the children, theirs, and so on.
Frontier(x) ==
    LET f[i \in 0..Depth] == IF i = 0 THEN {x} ELSE ChildrenOf(f[i - 1])
    IN  f

\* record_failure: the row, then layer by layer what there is to block below it, until
\* a layer has nothing.
record_failure_locks(x) ==
    {WithRefresh({x}, layers) : layers \in
        {ls \in [1..Depth -> SUBSET Tasks] : \A i \in 1..Depth :
            ls[i] \subseteq IF i > 1 /\ ls[i - 1] = {} THEN {} ELSE Frontier(x)[i]}}

cancel_locks == {WithRefresh(xs, <<>>) : xs \in SUBSET Tasks}

reap_expired_leases_locks == {<<xs>> : xs \in SUBSET Tasks}

claim_batch_locks == {<<xs>> : xs \in SUBSET Tasks}

renew_lease_locks(x) == {<<{x}>>}

Plans(kind) ==
    CASE kind = "report" -> UNION {record_success_locks(x) \cup record_failure_locks(x) : x \in Tasks}
      [] kind = "cancel" -> cancel_locks
      [] kind = "reap" -> reap_expired_leases_locks
      [] kind = "claim" -> claim_batch_locks
      [] kind = "renew" -> UNION {renew_lease_locks(x) : x \in Tasks}

-----------------------------------------------------------------------------
(* Transactions.                                                           *)

LocksInit ==
    /\ doing = [c \in Clients |-> "none"]
    /\ plan = [c \in Clients |-> <<>>]
    /\ held = [c \in Clients |-> {}]
    /\ want = [c \in Clients |-> {}]

begin(c) ==
    /\ doing[c] = "none"
    /\ \E kind \in makes[c] : /\ doing' = [doing EXCEPT ![c] = kind]
                           /\ plan' \in {[plan EXCEPT ![c] = p] : p \in Plans(kind)}
    /\ UNCHANGED <<held, want>>

\* The rows c's present statement may turn to now.
Ahead(c) == IF want[c] # {} THEN want[c] ELSE IF plan[c] = <<>> THEN {} ELSE plan[c][1]

\* What is left of plan p once its first statement is done with x.
Without(p, x) == IF p[1] = {x} THEN Tail(p) ELSE [p EXCEPT ![1] = @ \ {x}]

Rest(c, x) == [plan EXCEPT ![c] = Without(@, x)]

lock(c, x) ==
    /\ x \in Ahead(c)
    /\ Free(c, x)
    /\ held' = [held EXCEPT ![c] = @ \cup {x}]
    /\ want' = [want EXCEPT ![c] = {}]
    /\ plan' = Rest(c, x)
    /\ UNCHANGED doing

\* A mistake: the claim waits for rows like any other statement.
SkipsLockedNever(c) == FALSE

\* FOR UPDATE SKIP LOCKED.
SkipsLocked(c) == doing[c] = "claim"

skip(c, x) ==
    /\ x \in Ahead(c)
    /\ ~Free(c, x)
    /\ SkipsLocked(c)
    /\ plan' = Rest(c, x)
    /\ UNCHANGED <<doing, held, want>>

wait(c, x) ==
    /\ x \in Ahead(c)
    /\ want[c] = {}
    /\ ~Free(c, x)
    /\ ~SkipsLocked(c)
    /\ want' = [want EXCEPT ![c] = {x}]
    /\ UNCHANGED <<doing, plan, held>>

\* A statement that matches no row.
match_nothing(c) ==
    /\ plan[c] # <<>>
    /\ plan[c][1] = {}
    /\ plan' = [plan EXCEPT ![c] = Tail(@)]
    /\ UNCHANGED <<doing, held, want>>

End(c) ==
    /\ doing' = [doing EXCEPT ![c] = "none"]
    /\ plan' = [plan EXCEPT ![c] = <<>>]
    /\ held' = [held EXCEPT ![c] = {}]
    /\ want' = [want EXCEPT ![c] = {}]

commit(c) == doing[c] # "none" /\ plan[c] = <<>> /\ End(c)

\* The victim of a circle, statement_timeout, or the end of the process.
rollback(c) == doing[c] # "none" /\ End(c)

LocksNext ==
    \E c \in Clients :
        \/ begin(c) \/ match_nothing(c) \/ commit(c) \/ rollback(c)
        \/ \E x \in Tasks \cup {Run} : lock(c, x) \/ skip(c, x) \/ wait(c, x)

LocksSpec == LocksInit /\ [][LocksNext]_lock_vars

-----------------------------------------------------------------------------
(* Properties.                                                             *)

WaitsFor(c, d) == c # d /\ want[c] \cap held[d] # {}

\* The clients of a circle of waits. Each waits for one other at most.
InCircle(c) ==
    \E S \in SUBSET Clients :
        /\ c \in S
        /\ \A d \in S : (\E e \in S : WaitsFor(d, e)) /\ (\E e \in S : WaitsFor(e, d))

\* Circles do occur, between reports, sweeps and cancellations that lock several task
\* rows. But claims, which every worker makes all the time, and heartbeats are never in
\* one: a claim does not wait, and a heartbeat holds nothing while it does.
ClaimsAndHeartbeatsAreSafe ==
    \A c \in Clients : InCircle(c) => doing[c] \notin {"claim", "renew"}

\* All reports of a run and its cancellation lock the run's row, which is why it comes
\* last: whoever holds it waits for nothing, so it is never part of a circle.
RunRowIsSafe ==
    \A c \in Clients : InCircle(c) => Run \notin want[c]
=============================================================================
