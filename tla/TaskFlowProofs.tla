--------------------------- MODULE TaskFlowProofs ---------------------------
(***************************************************************************)
(* How outcomes flow through the graph: what a parent's success releases,  *)
(* what a failure blocks, and which task transitions can happen at all.    *)
(***************************************************************************)
EXTENDS TaskHistoryProofs

-----------------------------------------------------------------------------
(* The invariant.                                                          *)

\* A task that will never succeed (any more).
Hopeless(row, t) ==
    \/ row.state \in {"DEAD_LETTER", "BLOCKED", "CANCELLED"}
    \/ row.state = "READY" /\ row.attempt = max_attempts[t]

\* The states of the vocabulary that no statement writes.
StatesUsed == \A x \in TaskRuns : task_runs[x].state \notin {"FAILED", "RETRYING"}

\* create_run inserts the rows of a run together.
RowsTogether ==
    \A x, y \in TaskRuns :
        x[1] = y[1] /\ task_runs[x].state = "ABSENT" => task_runs[y].state = "ABSENT"

\* The success a transaction will commit reaches every child that waits.
SuccessCovers(w) ==
    current[w] \in Locked(w) /\ writes[w][current[w]].state = "SUCCEEDED" =>
        \A y \in TaskRuns :
            current[w] \in Parents(y) /\ task_runs[y].state = "PENDING" => y \in Locked(w)

\* A task is blocked below a parent the transaction sees as hopeless.
BlockedReason(w) ==
    \A y \in Locked(w) : writes[w][y].state = "BLOCKED" =>
        \E p \in Parents(y) : Hopeless(View(w)[p], p[2])

\* The frontier of _block_descendants holds hopeless tasks.
FrontierHopeless(w) ==
    pc[w] = "blocking" =>
        \A t \in frontier[w] : Hopeless(View(w)[<<current[w][1], t>>], t)

\* Below every task the transaction fails or blocks, everything is blocked or
\* cancelled, or the loop has yet to get there.
ClosedView(w) ==
    \A p \in Locked(w) : writes[w][p].state \in {"DEAD_LETTER", "BLOCKED"} =>
        \A x \in TaskRuns : p \in Parents(x) =>
            \/ View(w)[x].state \in {"BLOCKED", "CANCELLED"}
            \/ pc[w] = "blocking" /\ p[2] \in frontier[w]

WorkerFlows(w) ==
    SuccessCovers(w) /\ BlockedReason(w) /\ FrontierHopeless(w) /\ ClosedView(w)

FlowInv ==
    /\ HistoryInv
    /\ StatesUsed
    /\ RowsTogether
    /\ PendingCountExact
    /\ FailureClosed
    /\ BlockedIsHopeless
    /\ \A w \in Workers : WorkerFlows(w)

-----------------------------------------------------------------------------
(* Parents, and the count of those that have not succeeded.                *)

\* A parent is a row of the same run.
LEMMA ParentFacts ==
    ASSUME NEW x \in TaskRuns, NEW p \in Parents(x)
    PROVE  /\ p \in TaskRuns /\ p[1] = x[1] /\ p[2] \in depends_on[x[2]]
           /\ p = <<x[1], p[2]>>
<1>1. PICK t \in depends_on[x[2]] : p = <<x[1], t>>
    BY DEF Parents
<1>2. t \in Tasks /\ x[1] \in Runs
    BY DependsOnAssumption DEF TaskRuns
<1> QED
    BY <1>1, <1>2 DEF TaskRuns

\* A task has as many parent rows as dependencies, finitely many.
LEMMA ParentsFinite ==
    ASSUME NEW x \in TaskRuns
    PROVE  /\ IsFiniteSet(Parents(x))
           /\ Cardinality(Parents(x)) = Cardinality(depends_on[x[2]])
<1> DEFINE f == [p \in Parents(x) |-> p[2]]
<1>1. IsFiniteSet(depends_on[x[2]])
    <2>1. depends_on[x[2]] \in SUBSET Tasks
        BY DependsOnAssumption DEF TaskRuns
    <2> QED
        BY <2>1, TasksAssumption, FS_Subset
<1>2. f \in [Parents(x) -> depends_on[x[2]]]
    BY ParentFacts
<1>3. \A p, q \in Parents(x) : f[p] = f[q] => p = q
    BY ParentFacts
<1>4. \A t \in depends_on[x[2]] : \E p \in Parents(x) : f[p] = t
    <2> SUFFICES ASSUME NEW t \in depends_on[x[2]] PROVE \E p \in Parents(x) : f[p] = t
        OBVIOUS
    <2>1. <<x[1], t>> \in Parents(x) /\ <<x[1], t>>[2] = t
        BY DEF Parents
    <2> QED
        BY <2>1
<1> HIDE DEF f
<1> QED
    BY <1>1, <1>2, <1>3, <1>4, SameCardinality

Unmet(x) == {p \in Parents(x) : task_runs[p].state # "SUCCEEDED"}

\* The count of unmet parents is zero only if every parent succeeded.
LEMMA UnmetCount ==
    ASSUME NEW x \in TaskRuns
    PROVE  /\ IsFiniteSet(Unmet(x)) /\ Cardinality(Unmet(x)) \in Nat
           /\ Cardinality(Unmet(x)) = 0 <=> Unmet(x) = {}
<1>1. Unmet(x) \in SUBSET Parents(x)
    BY DEF Unmet
<1>2. IsFiniteSet(Unmet(x))
    BY <1>1, ParentsFinite, FS_Subset
<1> QED
    BY <1>2, FS_CardinalityType, FS_EmptySet

\* A task with a parent that has not succeeded has not started.
LEMMA UnmetIsWaiting ==
    ASSUME PendingCountExact, NEW x \in TaskRuns, NEW p \in Parents(x),
           task_runs[p].state # "SUCCEEDED",
           task_runs[x].state \in Started \cup {"PENDING"}
    PROVE  task_runs[x].state = "PENDING"
<1>1. /\ task_runs[x].pending_deps = Cardinality(Unmet(x))
      /\ task_runs[x].state = "PENDING" <=> task_runs[x].pending_deps > 0
    BY DEF PendingCountExact, Unmet
<1>2. Cardinality(Unmet(x)) # 0 /\ Cardinality(Unmet(x)) \in Nat
    BY UnmetCount DEF Unmet
<1> QED
    BY <1>1, <1>2

-----------------------------------------------------------------------------
(* Hopeless tasks stay hopeless.                                           *)

\* No commit, sweep or claim gives a hopeless task another chance.
LEMMA HopelessStable ==
    ASSUME HistoryInv, [Next]_vars, NEW p \in TaskRuns, Hopeless(task_runs[p], p[2])
    PROVE  Hopeless(task_runs'[p], p[2])
<1>0. /\ LockInv /\ task_runs[p].attempt \in Nat /\ max_attempts[p[2]] \in Nat
      /\ WritesFollow
    BY BudgetAssumption
    DEF HistoryInv, OwnerInv, OpenInv, LockInv, TypeInv, TypeOK, TaskRunRow, TaskRuns
<1>1. CASE SameRow(task_runs[p], task_runs'[p])
    BY <1>1 DEF SameRow, Hopeless
<1>2. ~RowCreated(p)
    BY <1>0 DEF RowCreated, LockInv, AbsentTogether, Hopeless
<1>3. ~RowReaped(p)
    BY DEF RowReaped, Hopeless
<1>4. ASSUME NEW c \in Clients, RowCommitted(c, p) PROVE Hopeless(task_runs'[p], p[2])
    <2>1. Follows(c, p) /\ task_runs'[p] = writes[c][p] /\ p \in Locked(c)
        BY <1>0, <1>4 DEF RowCommitted, WritesFollow
    <2>2. task_runs[p].state = "READY" /\ task_runs[p].attempt = max_attempts[p[2]]
        BY <1>0, <2>1 DEF LockInv, LockedIsActive, Hopeless
    <2>3. ~Claims(c, p)
        BY <1>0, <2>2 DEF Claims
    <2> QED
        BY <2>1, <2>2, <2>3 DEF Follows, Reports, Unblocks, Blocks, Cancels, Hopeless
<1> QED
    BY <1>0, <1>1, <1>2, <1>3, <1>4, RowStep

\* Neither does it in the eyes of a transaction that goes on.
LEMMA ViewHopelessStable ==
    ASSUME HistoryInv, [Next]_vars, NEW w \in Workers, writes'[w] = writes[w],
           NEW p \in TaskRuns, Hopeless(View(w)[p], p[2])
    PROVE  Hopeless(View(w)'[p], p[2])
<1>1. Locked(w)' = Locked(w)
    BY DEF Locked
<1>2. CASE p \in Locked(w)
    BY <1>1, <1>2 DEF View, Hopeless
<1>3. CASE p \notin Locked(w)
    <2>1. View(w)[p] = task_runs[p] /\ View(w)'[p] = task_runs'[p]
        BY <1>1, <1>3 DEF View
    <2> QED
        BY <2>1, HopelessStable
<1> QED
    BY <1>2, <1>3

\* What a transaction sees as hopeless has not succeeded in the table.
LEMMA HopelessNotSucceeded ==
    ASSUME LockInv, NEW c \in Clients, NEW p \in TaskRuns, Hopeless(View(c)[p], p[2])
    PROVE  task_runs[p].state \notin {"SUCCEEDED", "ABSENT"}
<1>1. CASE p \in Locked(c)
    BY <1>1 DEF LockInv, LockedIsActive
<1>2. CASE p \notin Locked(c)
    BY <1>2 DEF View, Hopeless
<1> QED
    BY <1>1, <1>2

\* A child of a hopeless task waits, or is blocked or cancelled.
LEMMA ChildOfHopeless ==
    ASSUME FlowInv, NEW w \in Workers, NEW x \in TaskRuns, NEW p \in Parents(x),
           Hopeless(View(w)[p], p[2])
    PROVE  /\ task_runs[x].state \in {"PENDING", "BLOCKED", "CANCELLED"}
           /\ x \in Locked(w) /\ pc[w] = "blocking" => writes[w][x].state = "BLOCKED"
<1>0. LockInv /\ w \in Clients /\ WritesFollow /\ w \notin Runs
      /\ task_runs[x].state \in TaskState \cup {"ABSENT"}
    BY ClientsAssumption DEF FlowInv, HistoryInv, OwnerInv, OpenInv, LockInv, Clients,
        TypeInv, TypeOK, TaskRunRow
<1>1. p \in TaskRuns /\ p[1] = x[1]
    BY ParentFacts
<1>2. task_runs[p].state \notin {"SUCCEEDED", "ABSENT"}
    BY <1>0, <1>1, HopelessNotSucceeded
<1>3. task_runs[x].state # "ABSENT"
    BY <1>1, <1>2 DEF FlowInv, RowsTogether
<1>4. task_runs[x].state \in {"PENDING", "BLOCKED", "CANCELLED"}
    BY <1>0, <1>2, <1>3, UnmetIsWaiting DEF FlowInv, StatesUsed, Started, TaskState
<1>5. x \in Locked(w) /\ pc[w] = "blocking" => writes[w][x].state = "BLOCKED"
    BY <1>0, <1>4 DEF WritesFollow, Follows, Claims, Reports, Unblocks, Blocks, Cancels
<1> QED
    BY <1>4, <1>5

-----------------------------------------------------------------------------
(* The counters of unmet dependencies.                                     *)

\* Commits read the table through View: what a client has locked is replaced.
LEMMA CommitRows ==
    ASSUME LockInv, NEW c \in Clients, Commit(c), NEW x \in TaskRuns
    PROVE  /\ x \in Locked(c) => task_runs'[x] = writes[c][x]
           /\ x \notin Locked(c) => task_runs'[x] = task_runs[x]
BY DEF Commit, View

\* The states a transaction writes into a row, by what the row was.
LEMMA WrittenStates ==
    ASSUME FlowInv, NEW c \in Clients, NEW x \in Locked(c)
    PROVE  /\ x \in TaskRuns /\ Follows(c, x)
           /\ task_runs[x].state \in {"PENDING", "READY", "RUNNING"}
           /\ writes[c][x].state \in {"PENDING", "READY", "RUNNING", "SUCCEEDED",
                                      "DEAD_LETTER", "BLOCKED", "CANCELLED"}
<1>1. x \in TaskRuns /\ Follows(c, x) /\ task_runs[x].state # "RETRYING"
    BY DEF FlowInv, HistoryInv, WritesFollow, Locked, StatesUsed
<1>2. task_runs[x].state \in {"PENDING", "READY", "RUNNING"}
    BY <1>1 DEF FlowInv, HistoryInv, OwnerInv, OpenInv, LockInv, LockedIsActive
<1> QED
    BY <1>1, <1>2 DEF Follows, Claims, Reports, Unblocks, Blocks, Cancels

\* No statement writes FAILED or RETRYING.
LEMMA StatesUsedStep == ASSUME FlowInv, [Next]_vars PROVE StatesUsed'
<1> SUFFICES ASSUME NEW x \in TaskRuns
             PROVE  task_runs'[x].state \notin {"FAILED", "RETRYING"}
    BY DEF StatesUsed
<1>0. LockInv /\ task_runs[x] \in TaskRunRow /\ task_runs[x].state \notin {"FAILED", "RETRYING"}
    BY DEF FlowInv, HistoryInv, OwnerInv, OpenInv, LockInv, TypeInv, TypeOK, StatesUsed
<1>1. CASE SameRow(task_runs[x], task_runs'[x])
    BY <1>0, <1>1 DEF SameRow
<1>2. CASE RowCreated(x)
    BY <1>2 DEF RowCreated, CreatedRow, AbsentRow
<1>3. CASE RowReaped(x)
    BY <1>0, <1>3, UpdateFields DEF RowReaped, Released
<1>4. ASSUME NEW c \in Clients, RowCommitted(c, x)
      PROVE  task_runs'[x].state \notin {"FAILED", "RETRYING"}
    BY <1>4, WrittenStates DEF RowCommitted
<1> QED
    BY <1>0, <1>1, <1>2, <1>3, <1>4, RowStep

\* The state a created row starts in.
LEMMA CreatedState ==
    ASSUME NEW t \in Tasks
    PROVE  /\ CreatedRow(t).state \in {"READY", "PENDING"}
           /\ CreatedRow(t).pending_deps = Cardinality(depends_on[t])
           /\ CreatedRow(t).state = "READY" <=> Cardinality(depends_on[t]) = 0
BY DEF CreatedRow, AbsentRow

\* The rows of a run appear together and never disappear.
LEMMA RowsTogetherStep == ASSUME FlowInv, [Next]_vars PROVE RowsTogether'
<1> SUFFICES ASSUME NEW x \in TaskRuns, NEW y \in TaskRuns, x[1] = y[1],
                    task_runs'[x].state = "ABSENT"
             PROVE  task_runs'[y].state = "ABSENT"
    BY DEF RowsTogether
<1>0. LockInv /\ \A z \in TaskRuns : task_runs[z] \in TaskRunRow
    BY DEF FlowInv, HistoryInv, OwnerInv, OpenInv, LockInv, TypeInv, TypeOK
<1>1. task_runs[x].state = "ABSENT" => task_runs[y].state = "ABSENT"
    BY DEF FlowInv, RowsTogether
<1>2. CASE Quiet
    BY <1>1, <1>2 DEF Quiet, SameRow
<1>3. CASE reap_expired_leases
    BY <1>0, <1>1, <1>3, UpdateFields DEF reap_expired_leases, ExpiredLeases, Released
<1>4. ASSUME NEW c \in Clients, Commit(c) PROVE task_runs'[y].state = "ABSENT"
    BY <1>0, <1>1, <1>4, CommitRows, WrittenStates
<1>5. ASSUME NEW r \in Runs, create_run(r) PROVE task_runs'[y].state = "ABSENT"
    BY <1>1, <1>5, CreatedState DEF create_run, TaskRuns
<1> QED
    BY <1>0, <1>2, <1>3, <1>4, <1>5, TableStep
    DEF claim_commit, report_commit, cancel_commit, CommitReport, Clients

\* PendingCountExact, of one task.
CountExact(x) ==
    task_runs[x].state \in Started \cup {"PENDING"} =>
        /\ task_runs[x].pending_deps = Cardinality(Unmet(x))
        /\ task_runs[x].state = "PENDING" <=> task_runs[x].pending_deps > 0

\* The count is exact when it is so for each task.
LEMMA CountByTask == PendingCountExact <=> \A x \in TaskRuns : CountExact(x)
BY DEF PendingCountExact, CountExact, Unmet

\* A step that neither completes a parent nor starts the task keeps the count.
LEMMA CountKept ==
    ASSUME NEW x \in TaskRuns, CountExact(x),
           \A p \in Parents(x) :
               task_runs'[p].state = "SUCCEEDED" <=> task_runs[p].state = "SUCCEEDED",
           task_runs'[x].state \in Started \cup {"PENDING"} =>
               /\ task_runs[x].state \in Started \cup {"PENDING"}
               /\ task_runs'[x].pending_deps = task_runs[x].pending_deps
               /\ task_runs'[x].state = "PENDING" <=> task_runs[x].state = "PENDING"
    PROVE  CountExact(x)'
<1>1. Unmet(x)' = Unmet(x)
    BY DEF Unmet, Parents
<1> QED
    BY <1>1 DEF CountExact

\* The rows of a new run count all their dependencies.
LEMMA CountCreated ==
    ASSUME FlowInv, NEW r \in Runs, create_run(r), NEW x \in TaskRuns PROVE CountExact(x)'
<1>0. \A p \in Parents(x) : p \in TaskRuns /\ p[1] = x[1] /\ p[2] \in Tasks
    BY ParentFacts DEF TaskRuns
<1>1. CASE x[1] = r
    <2>1. \A p \in Parents(x) : task_runs'[p].state # "SUCCEEDED"
        BY <1>0, <1>1, CreatedState DEF create_run
    <2>2. Unmet(x)' = Parents(x)
        BY <2>1 DEF Unmet, Parents
    <2>3. x[2] \in Tasks /\ task_runs'[x] = CreatedRow(x[2])
        BY <1>1 DEF create_run, TaskRuns
    <2>4. Cardinality(depends_on[x[2]]) \in Nat
        BY ParentsFinite, FS_CardinalityType
    <2> QED
        BY <2>2, <2>3, <2>4, CreatedState, ParentsFinite DEF CountExact
<1>2. CASE x[1] # r
    <2>1. task_runs'[x] = task_runs[x] /\ \A p \in Parents(x) : task_runs'[p] = task_runs[p]
        BY <1>0, <1>2 DEF create_run
    <2>2. CountExact(x)
        BY CountByTask DEF FlowInv
    <2> QED
        BY <2>1, <2>2, CountKept
<1> QED
    BY <1>1, <1>2

\* The commit of a success report takes the reported parent, and only it, off the
\* count of every child that is still waiting.
LEMMA CountReported ==
    ASSUME FlowInv, NEW w \in Workers, report_commit(w), NEW x \in TaskRuns
    PROVE  CountExact(x)'
<1>0. /\ LockInv /\ w \in Clients /\ w \notin Runs /\ pc[w] = "committing" /\ Commit(w)
      /\ CountExact(x) /\ PendingCountExact /\ SuccessCovers(w)
    BY ClientsAssumption, CountByTask
    DEF FlowInv, HistoryInv, OwnerInv, OpenInv, LockInv, Clients, report_commit,
        CommitReport, WorkerFlows
<1>1. \A y \in TaskRuns : /\ y \in Locked(w) => task_runs'[y] = writes[w][y]
                          /\ y \notin Locked(w) => task_runs'[y] = task_runs[y]
    BY <1>0, CommitRows
<1>2. \A y \in Locked(w) :
        /\ y \in TaskRuns /\ task_runs[y].state \in {"PENDING", "READY", "RUNNING"}
        /\ Reports(w, y) \/ Unblocks(w, y) \/ Blocks(w, y)
    BY <1>0, WrittenStates DEF Follows, Claims, Cancels
<1>3. \A p \in Parents(x) : p \in TaskRuns
    BY ParentFacts
<1> DEFINE t == current[w]
           succeeds == t \in Locked(w) /\ writes[w][t].state = "SUCCEEDED"
<1>4. \A y \in TaskRuns : (task_runs'[y].state = "SUCCEEDED") <=>
                          (task_runs[y].state = "SUCCEEDED" \/ (succeeds /\ y = t))
    BY <1>1, <1>2 DEF Reports, Unblocks, Blocks
<1>5. CASE ~(succeeds /\ t \in Parents(x))
    <2>1. \A p \in Parents(x) :
            task_runs'[p].state = "SUCCEEDED" <=> task_runs[p].state = "SUCCEEDED"
        BY <1>3, <1>4, <1>5
    <2>2. ~Unblocks(w, x) \/ x \notin Locked(w)
        <3> SUFFICES ASSUME Unblocks(w, x), x \in Locked(w) PROVE FALSE
            OBVIOUS
        <3>1. t \in Parents(x) /\ writes[w][t].state = "SUCCEEDED" /\ t \in TaskRuns
            BY <1>3 DEF Unblocks
        <3>2. t \in Locked(w)
            BY <3>1 DEF Locked, AbsentRow
        <3> QED
            BY <3>1, <3>2, <1>5
    <2>3. CASE x \notin Locked(w)
        BY <2>1, <2>3, <1>0, <1>1, CountKept
    <2>4. CASE x \in Locked(w) /\ Reports(w, x)
        BY <2>1, <2>4, <1>0, <1>1, CountKept DEF Reports, Started
    <2>5. CASE x \in Locked(w) /\ Blocks(w, x)
        BY <2>5, <1>1 DEF Blocks, CountExact, Started
    <2> QED
        BY <1>2, <2>2, <2>3, <2>4, <2>5
<1>6. CASE succeeds /\ t \in Parents(x)
    <2>1. task_runs[t].state # "SUCCEEDED" /\ t \in TaskRuns
        BY <1>2, <1>6
    <2>2. CASE x \in Locked(w) /\ Unblocks(w, x)
        <3>1. Unmet(x)' = Unmet(x) \ {t}
            BY <1>3, <1>4, <1>6 DEF Unmet, Parents
        <3>2. t \in Unmet(x) /\ IsFiniteSet(Unmet(x)) /\ Cardinality(Unmet(x)) \in Nat
            BY <1>6, <2>1, UnmetCount DEF Unmet
        <3>3. Cardinality(Unmet(x)') = Cardinality(Unmet(x)) - 1
            BY <3>1, <3>2, FS_RemoveElement
        <3>4. task_runs[x].pending_deps = Cardinality(Unmet(x))
            BY <1>0, <2>2 DEF CountExact, Unblocks
        <3>5. Cardinality(Unmet(x)) > 0
            BY <3>2, UnmetCount
        <3>6. /\ task_runs'[x].pending_deps = Cardinality(Unmet(x)')
              /\ task_runs'[x].state = IF task_runs'[x].pending_deps = 0 THEN "READY" ELSE "PENDING"
              /\ task_runs'[x].pending_deps \in Nat
            BY <3>2, <3>3, <3>4, <3>5, <2>2, <1>1 DEF Unblocks
        <3> QED
            BY <3>6 DEF CountExact
    <2>3. CASE x \in Locked(w) /\ Blocks(w, x)
        BY <2>3, <1>1 DEF Blocks, CountExact, Started
    <2>4. ~(x \in Locked(w) /\ Reports(w, x))
        BY <1>0, <1>6, <2>1, UnmetIsWaiting DEF Reports, Started
    <2>5. CASE x \notin Locked(w)
        <3>1. task_runs[x].state # "PENDING"
            BY <1>0, <1>6, <2>5 DEF SuccessCovers
        <3>2. task_runs[x].state \notin Started \cup {"PENDING"}
            BY <1>0, <1>6, <2>1, <3>1, UnmetIsWaiting
        <3> QED
            BY <3>2, <2>5, <1>1 DEF CountExact
    <2> QED
        BY <1>2, <2>2, <2>3, <2>4, <2>5
<1> QED
    BY <1>5, <1>6

\* No step loses a decrement, repeats one, or releases a task early.
LEMMA CountStep == ASSUME FlowInv, [Next]_vars PROVE PendingCountExact'
<1>0. LockInv /\ \A z \in TaskRuns : task_runs[z] \in TaskRunRow /\ CountExact(z)
    BY CountByTask DEF FlowInv, HistoryInv, OwnerInv, OpenInv, LockInv, TypeInv, TypeOK
<1> SUFFICES ASSUME NEW x \in TaskRuns PROVE CountExact(x)'
    BY DEF PendingCountExact, CountExact, Unmet
<1>p. \A p \in Parents(x) : p \in TaskRuns
    BY ParentFacts
<1>1. CASE Quiet
    BY <1>0, <1>1, <1>p, CountKept DEF Quiet, SameRow
<1>2. CASE reap_expired_leases
    <2>1. \A z \in TaskRuns :
            \/ task_runs'[z] = task_runs[z]
            \/ /\ task_runs[z].state = "RUNNING" /\ task_runs'[z].state = "READY"
               /\ task_runs'[z].pending_deps = task_runs[z].pending_deps
        BY <1>0, <1>2, UpdateFields DEF reap_expired_leases, ExpiredLeases, Released
    <2> QED
        BY <2>1, <1>0, <1>p, CountKept DEF Started
<1>3. ASSUME NEW w \in Workers, claim_commit(w) PROVE CountExact(x)'
    <2>0. w \in Clients /\ Commit(w) /\ pc[w] = "claiming"
        BY <1>3 DEF claim_commit, Clients
    <2>1. \A z \in Locked(w) : Claims(w, z)
        BY <2>0, WrittenStates, ClientsAssumption
        DEF Follows, Reports, Unblocks, Blocks, Cancels, Reporting
    <2>2. \A z \in TaskRuns :
            \/ task_runs'[z] = task_runs[z]
            \/ /\ task_runs[z].state = "READY" /\ task_runs'[z].state = "RUNNING"
               /\ task_runs'[z].pending_deps = task_runs[z].pending_deps
        BY <1>0, <2>0, <2>1, CommitRows DEF Claims
    <2> QED
        BY <2>2, <1>0, <1>p, CountKept DEF Started
<1>4. ASSUME NEW r \in Runs, cancel_commit(r) PROVE CountExact(x)'
    <2>0. r \in Clients /\ r \notin Workers /\ Commit(r)
        BY <1>4, ClientsAssumption DEF cancel_commit, CommitReport, Clients
    <2>1. \A z \in Locked(r) : Cancels(r, z) /\ task_runs[z].state # "SUCCEEDED"
        BY <2>0, WrittenStates DEF Follows, Reports, Unblocks, Blocks, Claims
    <2>2. \A z \in TaskRuns :
            \/ task_runs'[z] = task_runs[z]
            \/ task_runs[z].state # "SUCCEEDED" /\ task_runs'[z].state = "CANCELLED"
        BY <1>0, <2>0, <2>1, CommitRows DEF Cancels
    <2> QED
        BY <2>2, <1>0, <1>p, CountKept DEF Started
<1> QED
    BY <1>0, <1>1, <1>2, <1>3, <1>4, TableStep, CountReported, CountCreated

-----------------------------------------------------------------------------
(* Failures and what lies below them.                                      *)

\* An outcome is written by the commit of a worker's report and by nothing else.
LEMMA ReportedBy ==
    ASSUME FlowInv, [Next]_vars, NEW p \in TaskRuns,
           task_runs'[p].state # task_runs[p].state,
           task_runs'[p].state \in {"SUCCEEDED", "DEAD_LETTER", "BLOCKED"}
    PROVE  \E w \in Workers : /\ report_commit(w) /\ task_runs' = View(w)
                              /\ p \in Locked(w) /\ task_runs'[p] = writes[w][p]
<1>0. LockInv /\ task_runs[p] \in TaskRunRow
    BY DEF FlowInv, HistoryInv, OwnerInv, OpenInv, LockInv, TypeInv, TypeOK
<1>1. ~Quiet
    BY DEF Quiet, SameRow
<1>2. ~reap_expired_leases
    BY <1>0, UpdateFields DEF reap_expired_leases, Released
<1>3. ASSUME NEW w \in Workers, claim_commit(w) PROVE FALSE
    <2>0. w \in Clients /\ Commit(w) /\ pc[w] = "claiming"
        BY <1>3 DEF claim_commit, Clients
    <2>1. p \in Locked(w) /\ task_runs'[p] = writes[w][p]
        BY <1>0, <2>0, CommitRows
    <2> QED
        BY <2>0, <2>1, WrittenStates, ClientsAssumption
        DEF Follows, Claims, Reports, Unblocks, Blocks, Cancels, Reporting
<1>4. ASSUME NEW r \in Runs, cancel_commit(r) PROVE FALSE
    <2>0. r \in Clients /\ r \notin Workers /\ Commit(r)
        BY <1>4, ClientsAssumption DEF cancel_commit, CommitReport, Clients
    <2>1. p \in Locked(r) /\ task_runs'[p] = writes[r][p]
        BY <1>0, <2>0, CommitRows
    <2> QED
        BY <2>0, <2>1, WrittenStates DEF Follows, Claims, Reports, Unblocks, Blocks, Cancels
<1>5. ASSUME NEW r \in Runs, create_run(r) PROVE FALSE
    BY <1>5, CreatedState DEF create_run, TaskRuns
<1>6. ASSUME NEW w \in Workers, report_commit(w)
      PROVE  /\ task_runs' = View(w)
             /\ p \in Locked(w) /\ task_runs'[p] = writes[w][p]
    <2>0. w \in Clients /\ Commit(w)
        BY <1>6 DEF report_commit, CommitReport, Clients
    <2> QED
        BY <1>0, <2>0, CommitRows DEF Commit
<1> QED
    BY <1>0, <1>1, <1>2, <1>3, <1>4, <1>5, <1>6, TableStep

\* BLOCKED and CANCELLED rows stay what they are.
LEMMA WithdrawnIsStable ==
    ASSUME LockInv, [Next]_vars, NEW x \in TaskRuns,
           task_runs[x].state \in {"BLOCKED", "CANCELLED", "DEAD_LETTER", "SUCCEEDED"}
    PROVE  task_runs'[x].state = task_runs[x].state
<1>1. run_state[x[1]] # "ABSENT"
    BY DEF LockInv, AbsentTogether
<1> QED
    BY <1>1, InactiveIsStable DEF ActiveTaskStates, TaskState, TerminalTaskStates

\* A failure is never committed without everything that waits below it.
LEMMA FailureClosedStep == ASSUME FlowInv, [Next]_vars PROVE FailureClosed'
<1> SUFFICES ASSUME NEW x \in TaskRuns, NEW p \in Parents(x)',
                    task_runs'[p].state \in {"DEAD_LETTER", "FAILED", "BLOCKED"}
             PROVE  task_runs'[x].state \in {"BLOCKED", "CANCELLED"}
    BY DEF FailureClosed
<1>0. LockInv /\ p \in Parents(x) /\ p \in TaskRuns
    BY ParentFacts DEF FlowInv, HistoryInv, OwnerInv, OpenInv, Parents
<1>1. task_runs'[p].state # "FAILED"
    BY <1>0, StatesUsedStep DEF StatesUsed
<1>2. CASE task_runs[p].state = task_runs'[p].state
    <2>1. task_runs[x].state \in {"BLOCKED", "CANCELLED"}
        BY <1>0, <1>2 DEF FlowInv, FailureClosed
    <2> QED
        BY <1>0, <2>1, WithdrawnIsStable
<1>3. CASE task_runs[p].state # task_runs'[p].state
    <2>1. PICK w \in Workers : /\ report_commit(w) /\ task_runs' = View(w)
                               /\ p \in Locked(w) /\ task_runs'[p] = writes[w][p]
        BY <1>0, <1>1, <1>3, ReportedBy
    <2>2. pc[w] = "committing" /\ ClosedView(w)
        BY <2>1 DEF report_commit, CommitReport, FlowInv, WorkerFlows
    <2> QED
        BY <1>0, <1>1, <2>1, <2>2 DEF ClosedView
<1> QED
    BY <1>2, <1>3

\* No task is blocked while each of its parents may still succeed.
LEMMA BlockedStep == ASSUME FlowInv, [Next]_vars PROVE BlockedIsHopeless'
<1> SUFFICES ASSUME NEW x \in TaskRuns, task_runs'[x].state = "BLOCKED"
             PROVE  \E p \in Parents(x) : Hopeless(task_runs'[p], p[2])
    BY DEF BlockedIsHopeless, Hopeless, Parents
<1>0. HistoryInv /\ \A p \in Parents(x) : p \in TaskRuns
    BY ParentFacts DEF FlowInv
<1>1. CASE task_runs[x].state = "BLOCKED"
    <2>1. PICK p \in Parents(x) : Hopeless(task_runs[p], p[2])
        BY <1>1 DEF FlowInv, BlockedIsHopeless, Hopeless
    <2> QED
        BY <1>0, <2>1, HopelessStable
<1>2. CASE task_runs[x].state # "BLOCKED"
    <2>1. PICK w \in Workers : /\ report_commit(w) /\ task_runs' = View(w)
                               /\ x \in Locked(w) /\ task_runs'[x] = writes[w][x]
        BY <1>2, ReportedBy
    <2>2. BlockedReason(w)
        BY DEF FlowInv, WorkerFlows
    <2> QED
        BY <2>1, <2>2 DEF BlockedReason
<1> QED
    BY <1>1, <1>2

-----------------------------------------------------------------------------
(* What reports have yet to commit.                                        *)

\* A worker enters the loop of _block_descendants with a terminal failure, and
\* leaves it when nothing is left to block, or by dying.
LEMMA BlockingFrame ==
    ASSUME TypeInv, [Next]_vars, NEW w \in Workers
    PROVE  /\ pc'[w] = "blocking" =>
                \/ record_failure_terminal(w) \/ block_descendants(w)
                \/ /\ pc[w] = "blocking" /\ writes'[w] = writes[w]
                   /\ frontier'[w] = frontier[w] /\ current'[w] = current[w]
           /\ pc[w] = "blocking" /\ pc'[w] # "blocking" =>
                block_descendants_done(w) \/ EndTransaction(w)
<1>0. w \in Clients /\ pc \in [Clients -> Pcs]
    BY DEF Clients, TypeInv, TypeOK
<1>1. CASE WorkerIdle(w)
    BY <1>1 DEF WorkerIdle
<1>2. CASE claim_batch(w) \/ claim_batch_rejected(w) \/ claim_commit(w)
    BY <1>0, <1>2 DEF claim_batch, claim_batch_rejected, claim_commit
<1>3. CASE start_task(w) \/ execute(w) \/ discard_result(w)
    BY <1>0, <1>3 DEF start_task, execute, discard_result, TaskDone
<1>4. CASE record_success(w) \/ record_success_rejected(w) \/ record_failure(w)
           \/ record_failure_retry(w)
    BY <1>0, <1>4 DEF record_success, record_success_rejected, record_failure,
        record_failure_retry
<1>5. CASE block_descendants_done(w) \/ refresh_run_state(w) \/ stop(w)
    BY <1>0, <1>5 DEF block_descendants_done, refresh_run_state, stop, MayStop
<1>6. CASE report_commit(w)
    BY <1>0, <1>6 DEF report_commit, CommitReport, TaskDone
<1>7. CASE renew_lease(w) \/ request_shutdown(w)
    BY <1>0, <1>7 DEF renew_lease, request_shutdown, transactions, job
<1>8. CASE crash(w)
    BY <1>0, <1>8 DEF crash
<1>9. CASE record_failure_terminal(w) \/ block_descendants(w)
    BY <1>0, <1>9 DEF record_failure_terminal, block_descendants
<1> QED
    BY <1>1, <1>2, <1>3, <1>4, <1>5, <1>6, <1>7, <1>8, <1>9, WorkerFrame
    DEF WorkerStep, WorkerEvent

\* A child of the frontier is in the layer the next UPDATE matches, or is blocked
\* or cancelled already.
LEMMA LayerBelow ==
    ASSUME FlowInv, NEW w \in Workers, pc[w] = "blocking", NEW x \in TaskRuns,
           NEW p \in Parents(x), p[1] = current[w][1], p[2] \in frontier[w]
    PROVE  x \in BlockableLayer(w) \/ View(w)[x].state \in {"BLOCKED", "CANCELLED"}
<1>1. p \in TaskRuns /\ p[1] = x[1] /\ p[2] \in depends_on[x[2]] /\ p = <<x[1], p[2]>>
    BY ParentFacts
<1>2. Hopeless(View(w)[p], p[2])
    BY <1>1 DEF FlowInv, WorkerFlows, FrontierHopeless
<1>3. /\ task_runs[x].state \in {"PENDING", "BLOCKED", "CANCELLED"}
      /\ x \in Locked(w) => writes[w][x].state = "BLOCKED"
    BY <1>2, ChildOfHopeless
<1>4. x[2] \in ChildrenOf(frontier[w])
    BY <1>1 DEF ChildrenOf, TaskRuns
<1>5. View(w)[x] = IF x \in Locked(w) THEN writes[w][x] ELSE task_runs[x]
    BY DEF View
<1> QED
    BY <1>1, <1>3, <1>4, <1>5 DEF BlockableLayer

\* Blocking a layer changes nothing outside it and makes the layer BLOCKED.
LEMMA LayerView ==
    ASSUME FlowInv, NEW w \in Workers, block_descendants(w), NEW x \in TaskRuns
    PROVE  /\ x \in BlockableLayer(w) => View(w)'[x].state = "BLOCKED"
           /\ x \notin BlockableLayer(w) => View(w)'[x] = View(w)[x]
<1>0. OpenInv /\ w \in Clients /\ task_runs' = task_runs
      /\ View(w) \in [TaskRuns -> TaskRunRow]
    BY ViewType
    DEF FlowInv, HistoryInv, OwnerInv, OpenInv, LockInv, TypeInv, Clients,
        block_descendants, tables
<1>1. /\ Locked(w)' = Locked(w) \cup BlockableLayer(w)
      /\ \A y \in BlockableLayer(w) : writes'[w][y] = BlockedRow(View(w)[y])
      /\ \A y \in TaskRuns \ BlockableLayer(w) : writes'[w][y] = writes[w][y]
    BY <1>0, BlockWrites
<1>2. View(w)'[x] = IF x \in Locked(w)' THEN writes'[w][x] ELSE task_runs'[x]
    BY DEF View
<1>3. View(w)[x] = IF x \in Locked(w) THEN writes[w][x] ELSE task_runs[x]
    BY DEF View
<1>4. ASSUME x \in BlockableLayer(w) PROVE View(w)'[x].state = "BLOCKED"
    BY <1>0, <1>1, <1>2, <1>4, UpdateFields
<1> QED
    BY <1>0, <1>1, <1>2, <1>3, <1>4

\* A failure report starts the loop from a task that will not succeed any more,
\* even if the report came too late to be written.
LEMMA LateReportHopeless ==
    ASSUME FlowInv, NEW w \in Workers, record_failure_terminal(w)
    PROVE  Hopeless(View(w)'[current[w]], current[w][2])
<1> DEFINE x == current[w]
<1>0. /\ OpenInv /\ w \in Clients /\ task_runs' = task_runs /\ pc[w] = "failing"
      /\ seen[w] >= max_attempts[x[2]] /\ x \in TaskRuns
      /\ task_runs[x] \in TaskRunRow /\ seen[w] \in Nat /\ x[2] \in Tasks
    <2>1. OpenInv /\ TypeInv /\ w \in Clients
        BY DEF FlowInv, HistoryInv, OwnerInv, OpenInv, LockInv, Clients
    <2>2. pc[w] = "failing" /\ ~should_retry(w) /\ task_runs' = task_runs
        BY DEF record_failure_terminal, tables
    <2>3. x \in TaskRuns
        BY <2>1, FailureWrites
    <2>4. task_runs[x] \in TaskRunRow /\ seen[w] \in Nat /\ x[2] \in Tasks
        BY <2>1, <2>3 DEF TypeInv, TypeOK, TaskRuns
    <2>5. max_attempts[x[2]] \in Nat
        BY <2>4, BudgetAssumption
    <2> QED
        BY <2>1, <2>2, <2>3, <2>4, <2>5 DEF should_retry
<1>1. /\ Locked(w)' = StillMine(w)
      /\ \A y \in StillMine(w) : writes'[w][y] = DeadRow(task_runs[y])
    BY <1>0, FailureWrites
<1>2. View(w)'[x] = IF x \in Locked(w)' THEN writes'[w][x] ELSE task_runs'[x]
    BY <1>0 DEF View
<1>3. CASE x \in StillMine(w)
    BY <1>0, <1>1, <1>2, <1>3, UpdateFields DEF Released, Hopeless
<1>4. CASE x \notin StillMine(w)
    <2>1. task_runs[x].worker_id # w
        BY <1>4 DEF StillMine
    <2>2. PICK a \in task_attempts : /\ a.task_run_id = x /\ a.attempt = seen[w]
                                     /\ a.worker_id = w /\ a.state # "SUCCEEDED"
        BY <1>0 DEF FlowInv, HistoryInv, SeenIsMine
    <2>3. HistoryOf(x)
        BY <1>0 DEF FlowInv, HistoryInv
    <2>4. Agree(a, task_runs[x]) /\ task_runs[x].attempt <= max_attempts[x[2]]
        BY <2>2, <2>3 DEF HistoryOf
    <2>5. /\ task_runs[x].attempt \in Nat /\ max_attempts[x[2]] \in Nat \ {0}
          /\ task_runs[x].state \in TaskState \cup {"ABSENT"}
        BY <1>0, BudgetAssumption DEF TaskRunRow
    <2>6. task_runs[x].attempt = max_attempts[x[2]] /\ a.attempt = task_runs[x].attempt
        BY <1>0, <2>2, <2>4, <2>5 DEF Agree
    <2>7. task_runs[x].state \notin {"RUNNING", "SUCCEEDED", "PENDING", "ABSENT"}
        BY <2>1, <2>2, <2>3, <2>4, <2>5, <2>6 DEF Agree, HistoryOf
    <2>8. task_runs[x].state \notin {"FAILED", "RETRYING"}
        BY <1>0 DEF FlowInv, StatesUsed
    <2>9. View(w)'[x] = task_runs[x]
        BY <1>0, <1>1, <1>2, <1>4
    <2> QED
        BY <2>5, <2>6, <2>7, <2>8, <2>9 DEF Hopeless, TaskState
<1> QED
    BY <1>3, <1>4

\* The frontier holds hopeless tasks in every iteration.
LEMMA FrontierStep ==
    ASSUME FlowInv, [Next]_vars, NEW w \in Workers PROVE FrontierHopeless(w)'
<1>0. TypeInv /\ HistoryInv /\ OpenInv
    BY DEF FlowInv, HistoryInv, OwnerInv, OpenInv, LockInv
<1> SUFFICES ASSUME pc'[w] = "blocking", NEW t \in frontier'[w]
             PROVE  Hopeless(View(w)'[<<current'[w][1], t>>], t)
    BY DEF FrontierHopeless
<1>1. CASE record_failure_terminal(w)
    <2>1. current' = current /\ t = current[w][2]
        BY <1>0, <1>1 DEF record_failure_terminal, TypeInv, TypeOK
    <2>2. current[w] \in TaskRuns
        BY <1>0, <1>1, FailureWrites
    <2>3. current[w] = <<current'[w][1], t>>
        BY <2>1, <2>2 DEF TaskRuns
    <2> QED
        BY <1>1, <2>1, <2>3, LateReportHopeless
<1>2. CASE block_descendants(w)
    <2>1. current' = current /\ pc[w] = "blocking" /\ t \in ChildrenOf(frontier[w])
          /\ current[w] \in TaskRuns
        BY <1>0, <1>2
        DEF block_descendants, NextFrontier, TypeInv, TypeOK, JobHasTask
    <2>2. PICK p2 \in frontier[w] : p2 \in depends_on[t] /\ t \in Tasks
        BY <2>1 DEF ChildrenOf
    <2> DEFINE x == <<current[w][1], t>>
               p == <<current[w][1], p2>>
    <2>3. x \in TaskRuns /\ p \in Parents(x)
        BY <2>1, <2>2 DEF TaskRuns, Parents
    <2>4. x \in BlockableLayer(w) \/ View(w)[x].state \in {"BLOCKED", "CANCELLED"}
        BY <2>1, <2>2, <2>3, LayerBelow
    <2>5. View(w)'[x].state \in {"BLOCKED", "CANCELLED"}
        BY <1>2, <2>3, <2>4, LayerView
    <2> QED
        BY <2>1, <2>5 DEF Hopeless
<1>3. CASE /\ pc[w] = "blocking" /\ writes'[w] = writes[w]
           /\ frontier'[w] = frontier[w] /\ current'[w] = current[w]
    <2>1. Hopeless(View(w)[<<current[w][1], t>>], t) /\ t \in frontier[w]
        BY <1>3 DEF FlowInv, WorkerFlows, FrontierHopeless
    <2>2. <<current[w][1], t>> \in TaskRuns
        BY <1>0, <1>3, <2>1 DEF TypeInv, TypeOK, JobHasTask, TaskRuns
    <2>3. <<current[w][1], t>>[2] = t
        OBVIOUS
    <2> QED
        BY <1>0, <1>3, <2>1, <2>2, <2>3, ViewHopelessStable
<1> QED
    BY <1>0, <1>1, <1>2, <1>3, BlockingFrame

\* The states a transaction's first statement writes.
LEMMA FirstStates ==
    ASSUME OpenInv, NEW w \in Workers
    PROVE  /\ claim_batch(w) => \A x \in Locked(w)' : writes'[w][x].state = "RUNNING"
           /\ record_success(w) => \A x \in Locked(w)' :
                writes'[w][x].state \in {"SUCCEEDED", "READY", "PENDING"}
           /\ record_failure_retry(w) => \A x \in Locked(w)' : writes'[w][x].state = "READY"
           /\ record_failure_terminal(w) => \A x \in Locked(w)' :
                x = current[w] /\ writes'[w][x].state = "DEAD_LETTER"
<1>0. \A x \in TaskRuns : task_runs[x] \in TaskRunRow
    BY DEF OpenInv, LockInv, TypeInv, TypeOK
<1>1. ASSUME claim_batch(w) PROVE \A x \in Locked(w)' : writes'[w][x].state = "RUNNING"
    BY <1>0, <1>1, ClaimWrites, UpdateFields
<1>2. ASSUME record_success(w)
      PROVE  \A x \in Locked(w)' : writes'[w][x].state \in {"SUCCEEDED", "READY", "PENDING"}
    <2>1. \A y \in WaitingChildren(current[w]) :
            UnblockedRow(task_runs[y]).state \in {"READY", "PENDING"}
        BY <1>0, UpdateFields DEF WaitingChildren
    <2>2. writes'[w][current[w]].state = "SUCCEEDED"
        BY <1>0, <1>2, SuccessWrites, UpdateFields DEF Released
    <2> QED
        BY <1>2, <2>1, <2>2, SuccessWrites
<1>3. ASSUME record_failure_retry(w)
      PROVE  \A x \in Locked(w)' : writes'[w][x].state = "READY"
    <2>1. \A y \in StillMine(w) : y = current[w]
        BY DEF StillMine
    <2> QED
        BY <1>0, <1>3, <2>1, FailureWrites, UpdateFields DEF Released
<1>4. ASSUME record_failure_terminal(w)
      PROVE  \A x \in Locked(w)' : x = current[w] /\ writes'[w][x].state = "DEAD_LETTER"
    <2>1. \A y \in StillMine(w) : y = current[w]
        BY DEF StillMine
    <2> QED
        BY <1>0, <1>4, <2>1, FailureWrites, UpdateFields DEF Released
<1> QED
    BY <1>1, <1>2, <1>3, <1>4

\* Nobody makes a child PENDING behind the back of a success report.
LEMMA WaitsAlready ==
    ASSUME FlowInv, [Next]_vars, NEW y \in TaskRuns, task_runs'[y].state = "PENDING",
           run_state[y[1]] # "ABSENT"
    PROVE  task_runs[y].state = "PENDING"
<1>0. LockInv /\ task_runs[y] \in TaskRunRow
    BY DEF FlowInv, HistoryInv, OwnerInv, OpenInv, LockInv, TypeInv, TypeOK
<1>1. CASE SameRow(task_runs[y], task_runs'[y])
    BY <1>1 DEF SameRow
<1>2. ~RowCreated(y)
    BY DEF RowCreated
<1>3. ~RowReaped(y)
    BY <1>0, UpdateFields DEF RowReaped, Released
<1>4. ASSUME NEW c \in Clients, RowCommitted(c, y) PROVE task_runs[y].state = "PENDING"
    BY <1>4, WrittenStates
    DEF RowCommitted, Follows, Claims, Reports, Unblocks, Blocks, Cancels
<1> QED
    BY <1>0, <1>1, <1>2, <1>3, <1>4, RowStep

\* A success report reaches every child that waits at the time it commits.
LEMMA SuccessCoversStep ==
    ASSUME FlowInv, [Next]_vars, NEW w \in Workers PROVE SuccessCovers(w)'
<1>0. OpenInv /\ LockInv /\ TypeInv /\ w \in Clients /\ w \notin Runs
    BY ClientsAssumption DEF FlowInv, HistoryInv, OwnerInv, OpenInv, LockInv, Clients
<1> SUFFICES ASSUME current'[w] \in Locked(w)', writes'[w][current'[w]].state = "SUCCEEDED",
                    NEW y \in TaskRuns, current'[w] \in Parents(y)',
                    task_runs'[y].state = "PENDING"
             PROVE  y \in Locked(w)'
    BY DEF SuccessCovers
<1>p. Parents(y)' = Parents(y)
    BY DEF Parents
<1>1. ~(claim_batch(w) \/ record_failure_retry(w) \/ record_failure_terminal(w))
    BY <1>0, FirstStates
<1>2. CASE record_success(w)
    <2>1. current' = current /\ task_runs' = task_runs
        BY <1>2 DEF record_success, job, tables
    <2>2. y[1] = current[w][1] /\ current[w][2] \in depends_on[y[2]] /\ y[2] \in Tasks
        BY <1>p, <2>1, ParentFacts DEF TaskRuns
    <2>3. y \in WaitingChildren(current[w])
        BY <2>1, <2>2 DEF WaitingChildren, ChildrenOf
    <2> QED
        BY <1>0, <1>2, <2>3, SuccessWrites
<1>3. ~block_descendants(w)
    <2> SUFFICES ASSUME block_descendants(w) PROVE FALSE
        OBVIOUS
    <2>1. pc[w] = "blocking" /\ current' = current
        BY DEF block_descendants
    <2>2. current[w] \in TaskRuns
        BY <2>1 DEF Locked
    <2>3. View(w)'[current[w]].state = "SUCCEEDED"
        BY <2>1, <2>2 DEF View
    <2>4. View(w)[current[w]].state = "SUCCEEDED" /\ current[w] \notin BlockableLayer(w)
        BY <2>2, <2>3, LayerView
    <2>5. current[w] \in Locked(w)
        BY <1>0, <2>1, <2>4, BlockWrites
    <2>6. Follows(w, current[w]) /\ writes[w][current[w]].state = "SUCCEEDED"
        BY <1>0, <2>2, <2>4, <2>5, WrittenStates DEF View
    <2> QED
        BY <1>0, <2>1, <2>6 DEF Follows, Claims, Reports, Unblocks, Blocks, Cancels
<1>4. ~EndTransaction(w)
    BY <1>0, EndedTransaction
<1>5. CASE UNCHANGED <<writes, attempt_writes>> /\ Locked(w) = {}
    BY <1>5 DEF Locked
<1>6. CASE GoesOn(w)
    <2>1. writes'[w] = writes[w] /\ current'[w] = current[w] /\ Locked(w)' = Locked(w)
        BY <1>0, <1>6 DEF GoesOn, Locked
    <2>2. current[w] \in TaskRuns /\ y[1] = current[w][1]
        BY <1>p, <2>1, ParentFacts
    <2>3. run_state[y[1]] # "ABSENT"
        BY <1>0, <2>1, <2>2, WrittenStates DEF LockInv, AbsentTogether
    <2>4. task_runs[y].state = "PENDING"
        BY <2>3, WaitsAlready
    <2> QED
        BY <1>p, <2>1, <2>4 DEF FlowInv, WorkerFlows, SuccessCovers
<1> QED
    BY <1>0, <1>1, <1>2, <1>3, <1>4, <1>5, <1>6, WorkerTransaction

\* A task the transaction blocks keeps a hopeless parent.
LEMMA BlockedReasonStep ==
    ASSUME FlowInv, [Next]_vars, NEW w \in Workers PROVE BlockedReason(w)'
<1>0. OpenInv /\ HistoryInv /\ TypeInv /\ w \in Clients /\ w \notin Runs
    BY ClientsAssumption DEF FlowInv, HistoryInv, OwnerInv, OpenInv, LockInv, Clients
<1> SUFFICES ASSUME NEW y \in Locked(w)', writes'[w][y].state = "BLOCKED"
             PROVE  \E p \in Parents(y) : Hopeless(View(w)'[p], p[2])
    BY DEF BlockedReason, Parents
<1>y. y \in TaskRuns
    BY DEF Locked
<1>p. \A p \in Parents(y) : p \in TaskRuns
    BY <1>y, ParentFacts
<1>1. ~(claim_batch(w) \/ record_success(w) \/ record_failure_retry(w)
        \/ record_failure_terminal(w))
    BY <1>0, FirstStates
<1>2. CASE block_descendants(w)
    <2>0. pc[w] = "blocking" /\ FrontierHopeless(w) /\ BlockedReason(w)
        BY <1>2 DEF block_descendants, FlowInv, WorkerFlows
    <2>1. \E p \in Parents(y) : Hopeless(View(w)[p], p[2])
        <3>1. CASE y \in BlockableLayer(w)
            <4>1. PICK p2 \in frontier[w] : p2 \in depends_on[y[2]]
                BY <3>1 DEF BlockableLayer, ChildrenOf
            <4>2. <<y[1], p2>> \in Parents(y) /\ y[1] = current[w][1]
                BY <3>1, <4>1 DEF BlockableLayer, Parents
            <4> QED
                BY <2>0, <4>1, <4>2 DEF FrontierHopeless
        <3>2. CASE y \notin BlockableLayer(w)
            BY <1>0, <1>2, <1>y, <2>0, <3>2, BlockWrites DEF BlockedReason
        <3> QED
            BY <3>1, <3>2
    <2>2. PICK p \in Parents(y) : Hopeless(View(w)[p], p[2])
        BY <2>1
    <2>3. Hopeless(View(w)'[p], p[2])
        BY <1>2, <1>p, <2>2, LayerView DEF Hopeless
    <2> QED
        BY <2>3
<1>3. ~EndTransaction(w)
    BY <1>0, EndedTransaction
<1>4. CASE UNCHANGED <<writes, attempt_writes>> /\ Locked(w) = {}
    BY <1>4 DEF Locked
<1>5. CASE GoesOn(w)
    <2>1. writes'[w] = writes[w] /\ Locked(w)' = Locked(w)
        BY <1>5 DEF GoesOn, Locked
    <2>2. PICK p \in Parents(y) : Hopeless(View(w)[p], p[2])
        BY <2>1 DEF FlowInv, WorkerFlows, BlockedReason
    <2> QED
        BY <1>0, <1>p, <2>1, <2>2, ViewHopelessStable
<1> QED
    BY <1>0, <1>1, <1>2, <1>3, <1>4, <1>5, WorkerTransaction

\* Below every failure the transaction will commit, the loop leaves nothing out.
LEMMA ClosedViewStep ==
    ASSUME FlowInv, [Next]_vars, NEW w \in Workers PROVE ClosedView(w)'
<1>0. OpenInv /\ LockInv /\ TypeInv /\ w \in Clients /\ w \notin Runs
    BY ClientsAssumption DEF FlowInv, HistoryInv, OwnerInv, OpenInv, LockInv, Clients
<1> SUFFICES ASSUME NEW p \in Locked(w)', writes'[w][p].state \in {"DEAD_LETTER", "BLOCKED"},
                    NEW x \in TaskRuns, p \in Parents(x)'
             PROVE  \/ View(w)'[x].state \in {"BLOCKED", "CANCELLED"}
                    \/ pc'[w] = "blocking" /\ p[2] \in frontier'[w]
    BY DEF ClosedView
<1>p. p \in Parents(x) /\ p \in TaskRuns
    BY ParentFacts DEF Parents
<1>1. ~(claim_batch(w) \/ record_success(w) \/ record_failure_retry(w))
    BY <1>0, FirstStates
<1>2. CASE record_failure_terminal(w)
    <2>1. p = current[w]
        BY <1>0, <1>2, FirstStates
    <2> QED
        BY <1>0, <1>2, <2>1 DEF record_failure_terminal, TypeInv, TypeOK
<1>3. ASSUME pc[w] = "blocking", p \in Locked(w), writes[w][p].state \in {"DEAD_LETTER", "BLOCKED"}
      PROVE  \/ x \in BlockableLayer(w)
             \/ View(w)[x].state \in {"BLOCKED", "CANCELLED"}
    <2>1. CASE p[2] \in frontier[w]
        <3>1. p[1] = current[w][1]
            BY <1>0, <1>3, WrittenStates
            DEF Follows, Claims, Reports, Unblocks, Blocks, Cancels
        <3> QED
            BY <1>3, <1>p, <2>1, <3>1, LayerBelow
    <2>2. CASE p[2] \notin frontier[w]
        BY <1>3, <1>p, <2>2 DEF FlowInv, WorkerFlows, ClosedView
    <2> QED
        BY <2>1, <2>2
<1>4. CASE block_descendants(w)
    <2>0. pc[w] = "blocking" /\ pc' = pc /\ frontier'[w] = ChildrenOf(frontier[w])
        BY <1>0, <1>4 DEF block_descendants, NextFrontier, TypeInv, TypeOK
    <2>1. CASE p \in BlockableLayer(w)
        BY <2>0, <2>1 DEF BlockableLayer
    <2>2. CASE p \notin BlockableLayer(w)
        <3>1. p \in Locked(w) /\ writes'[w][p] = writes[w][p]
            BY <1>0, <1>4, <1>p, <2>2, BlockWrites
        <3>2. x \in BlockableLayer(w) \/ View(w)[x].state \in {"BLOCKED", "CANCELLED"}
            BY <1>3, <2>0, <3>1
        <3> QED
            BY <1>4, <3>2, LayerView
    <2> QED
        BY <2>1, <2>2
<1>5. ~EndTransaction(w)
    BY <1>0, EndedTransaction
<1>6. CASE UNCHANGED <<writes, attempt_writes>> /\ Locked(w) = {}
    BY <1>6 DEF Locked
<1>7. CASE GoesOn(w) /\ ~record_failure_terminal(w) /\ ~block_descendants(w)
    <2>1. writes'[w] = writes[w] /\ Locked(w)' = Locked(w)
        BY <1>7 DEF GoesOn, Locked
    <2>2. ASSUME View(w)[x].state \in {"BLOCKED", "CANCELLED"}
          PROVE  View(w)'[x].state \in {"BLOCKED", "CANCELLED"}
        <3>1. View(w)[x] = IF x \in Locked(w) THEN writes[w][x] ELSE task_runs[x]
            BY DEF View
        <3>2. View(w)'[x] = IF x \in Locked(w) THEN writes[w][x] ELSE task_runs'[x]
            BY <2>1 DEF View
        <3> QED
            BY <1>0, <2>2, <3>1, <3>2, WithdrawnIsStable
    <2>3. CASE View(w)[x].state \in {"BLOCKED", "CANCELLED"}
        BY <2>2, <2>3
    <2>4. CASE pc[w] = "blocking" /\ p[2] \in frontier[w]
        <3>1. CASE pc'[w] = "blocking"
            BY <1>0, <1>7, <2>4, <3>1, BlockingFrame
        <3>2. CASE pc'[w] # "blocking"
            <4>1. block_descendants_done(w)
                BY <1>0, <1>5, <2>4, <3>2, BlockingFrame
            <4>2. BlockableLayer(w) = {}
                BY <4>1 DEF block_descendants_done
            <4> QED
                BY <1>3, <2>1, <2>2, <2>4, <4>2
        <3> QED
            BY <3>1, <3>2
    <2> QED
        BY <1>p, <2>1, <2>3, <2>4 DEF FlowInv, WorkerFlows, ClosedView
<1> QED
    BY <1>0, <1>1, <1>2, <1>4, <1>5, <1>6, <1>7, WorkerTransaction

-----------------------------------------------------------------------------
(* The theorems.                                                           *)

\* Every action preserves the invariant about flows.
LEMMA FlowStep == FlowInv /\ [Next]_vars => FlowInv'
<1> SUFFICES ASSUME FlowInv, [Next]_vars PROVE FlowInv'
    OBVIOUS
<1>1. HistoryInv'
    BY HistoryStep DEF FlowInv
<1>2. StatesUsed' /\ RowsTogether' /\ PendingCountExact' /\ FailureClosed'
      /\ BlockedIsHopeless'
    BY StatesUsedStep, RowsTogetherStep, CountStep, FailureClosedStep, BlockedStep
<1>3. ASSUME NEW w \in Workers PROVE WorkerFlows(w)'
    BY SuccessCoversStep, BlockedReasonStep, FrontierStep, ClosedViewStep DEF WorkerFlows
<1> QED
    BY <1>1, <1>2, <1>3 DEF FlowInv

\* The initial state satisfies it: there are no rows, and nothing is under way.
LEMMA FlowInit == Init => FlowInv
<1> SUFFICES ASSUME Init PROVE FlowInv
    OBVIOUS
<1>1. HistoryInv
    BY HistoryInit
<1>2. \A x \in TaskRuns : task_runs[x].state = "ABSENT"
    BY DEF Init, AbsentRow
<1>3. StatesUsed /\ RowsTogether
    BY <1>2 DEF StatesUsed, RowsTogether
<1>4. PendingCountExact
    BY <1>2 DEF PendingCountExact, Started
<1>5. FailureClosed /\ BlockedIsHopeless
    BY <1>2, ParentFacts DEF FailureClosed, BlockedIsHopeless
<1>6. ASSUME NEW w \in Workers PROVE WorkerFlows(w)
    <2>1. w \in Clients
        BY DEF Clients
    <2>2. Locked(w) = {} /\ pc[w] = "idle"
        BY <2>1 DEF Init, Locked, NoWrites
    <2> QED
        BY <2>2 DEF WorkerFlows, SuccessCovers, BlockedReason, FrontierHopeless, ClosedView
<1> QED
    BY <1>1, <1>3, <1>4, <1>5, <1>6 DEF FlowInv

\* Fan-in is exact: however the reports of a task's parents interleave, no decrement
\* is lost or repeated, and the task is released exactly when the last one succeeds.
THEOREM CountIsExact == Spec => []PendingCountExact
<1>1. Init => FlowInv
    BY FlowInit
<1>2. FlowInv /\ [Next]_vars => FlowInv'
    BY FlowStep
<1>3. FlowInv => PendingCountExact
    BY DEF FlowInv
<1> QED
    BY <1>1, <1>2, <1>3, PTL DEF Spec

\* A failure for good is never visible without the blocking of everything below it:
\* the layers _block_descendants blocks, whatever others commit between them, leave
\* no child waiting for a parent that cannot succeed.
THEOREM FailureIsClosed == Spec => []FailureClosed
<1>1. Init => FlowInv
    BY FlowInit
<1>2. FlowInv /\ [Next]_vars => FlowInv'
    BY FlowStep
<1>3. FlowInv => FailureClosed
    BY DEF FlowInv
<1> QED
    BY <1>1, <1>2, <1>3, PTL DEF Spec

\* Nothing is blocked that could still have run: a report whose lease was gone by the
\* time of its update blocks descendants too, but only of a task without attempts left.
THEOREM BlockedForGood == Spec => []BlockedIsHopeless
<1>1. Init => FlowInv
    BY FlowInit
<1>2. FlowInv /\ [Next]_vars => FlowInv'
    BY FlowStep
<1>3. FlowInv => BlockedIsHopeless
    BY DEF FlowInv
<1> QED
    BY <1>1, <1>2, <1>3, PTL DEF Spec

\* The edges a row takes.
RowMoves(x) ==
    LET from == task_runs[x].state
        to   == task_runs'[x].state
    IN  from \in TaskState /\ to # from =>
            to \in TASK_TRANSITIONS[from] \/ <<from, to>> = <<"RUNNING", "READY">>

\* A task is blocked only while it waits: a child of a hopeless task was never READY.
LEMMA BlocksWaiting ==
    ASSUME FlowInv, NEW c \in Clients, NEW x \in Locked(c), Blocks(c, x)
    PROVE  task_runs[x].state = "PENDING"
<1>0. LockInv /\ x \in TaskRuns /\ c \in Workers /\ writes[c][x].state = "BLOCKED"
    BY DEF Blocks, FlowInv, HistoryInv, OwnerInv, OpenInv, Locked
<1>1. PICK p \in Parents(x) : Hopeless(View(c)[p], p[2])
    BY <1>0 DEF FlowInv, WorkerFlows, BlockedReason
<1>2. task_runs[x].state \in {"PENDING", "BLOCKED", "CANCELLED"}
    BY <1>0, <1>1, ChildOfHopeless
<1> QED
    BY <1>2, WrittenStates

\* Every step moves a row along the table, or requeues it.
LEMMA MovesDeclared ==
    ASSUME FlowInv, [Next]_vars, NEW x \in TaskRuns PROVE RowMoves(x)
<1> SUFFICES ASSUME task_runs[x].state \in TaskState,
                    task_runs'[x].state # task_runs[x].state
             PROVE  \/ task_runs'[x].state \in TASK_TRANSITIONS[task_runs[x].state]
                    \/ task_runs[x].state = "RUNNING" /\ task_runs'[x].state = "READY"
    BY DEF RowMoves
<1>0. LockInv /\ task_runs[x] \in TaskRunRow
    BY DEF FlowInv, HistoryInv, OwnerInv, OpenInv, LockInv, TypeInv, TypeOK
<1>t. /\ TASK_TRANSITIONS["PENDING"] = {"READY", "BLOCKED", "CANCELLED"}
      /\ TASK_TRANSITIONS["READY"] = {"RUNNING", "CANCELLED"}
      /\ {"SUCCEEDED", "DEAD_LETTER", "CANCELLED"} \subseteq TASK_TRANSITIONS["RUNNING"]
    BY DEF TASK_TRANSITIONS, TaskState
<1>1. ~SameRow(task_runs[x], task_runs'[x])
    BY DEF SameRow
<1>2. ~RowCreated(x)
    BY <1>0 DEF RowCreated, LockInv, AbsentTogether, TaskState
<1>3. CASE RowReaped(x)
    BY <1>0, <1>3, UpdateFields DEF RowReaped, Released
<1>4. ASSUME NEW c \in Clients, RowCommitted(c, x)
      PROVE  \/ task_runs'[x].state \in TASK_TRANSITIONS[task_runs[x].state]
             \/ task_runs[x].state = "RUNNING" /\ task_runs'[x].state = "READY"
    <2>1. /\ x \in Locked(c) /\ task_runs'[x] = writes[c][x] /\ Follows(c, x)
          /\ task_runs[x].state \in {"PENDING", "READY", "RUNNING"}
        BY <1>4, WrittenStates DEF RowCommitted
    <2>2. CASE Claims(c, x)
        BY <1>t, <2>1, <2>2 DEF Claims
    <2>3. CASE Reports(c, x)
        BY <1>t, <2>1, <2>3 DEF Reports
    <2>4. CASE Unblocks(c, x)
        BY <1>t, <2>1, <2>4 DEF Unblocks
    <2>5. CASE Blocks(c, x)
        BY <1>t, <2>1, <2>5, BlocksWaiting DEF Blocks
    <2>6. CASE Cancels(c, x)
        BY <1>t, <2>1, <2>6 DEF Cancels
    <2> QED
        BY <2>1, <2>2, <2>3, <2>4, <2>5, <2>6 DEF Follows
<1> QED
    BY <1>0, <1>1, <1>2, <1>3, <1>4, RowStep

\* Although no statement consults TASK_TRANSITIONS, every committed change of a task's
\* state is one of its edges or the requeueing of a running task; in particular no
\* READY task is ever blocked.
THEOREM EdgesDeclared == Spec => TransitionsDeclared
<1>1. Init => FlowInv
    BY FlowInit
<1>2. FlowInv /\ [Next]_vars => FlowInv'
    BY FlowStep
<1>3. FlowInv /\ [Next]_vars =>
        [\A x \in TaskRuns :
            LET from == task_runs[x].state
                to   == task_runs'[x].state
            IN  from \in TaskState /\ to # from =>
                    to \in TASK_TRANSITIONS[from] \/ <<from, to>> = <<"RUNNING", "READY">>]_vars
    BY MovesDeclared DEF RowMoves
<1> QED
    BY <1>1, <1>2, <1>3, PTL DEF Spec, TransitionsDeclared
=============================================================================
