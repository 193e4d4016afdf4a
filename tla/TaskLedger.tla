----------------------------- MODULE TaskLedger -----------------------------
(***************************************************************************)
(* What the queue of conductor promises its clients: every task of a run   *)
(* is open until its outcome is written down, once, and each report or     *)
(* cancellation writes what it decides in a single step. No workers,       *)
(* leases, locks or transactions; TaskQueue is shown to implement this.    *)
(***************************************************************************)
CONSTANTS Runs, Tasks, depends_on

VARIABLE ledger     \* absent, open, stuck, or an outcome

Entries == Runs \X Tasks

Descendants(t) ==
    {u \in Tasks :
        \A S \in SUBSET Tasks :
            (\A v \in Tasks : depends_on[v] \cap (S \cup {t}) # {} => v \in S) => u \in S}

Below(x) == {<<x[1], u>> : u \in Descendants(x[2])}

Above(x) == {<<x[1], p>> : p \in depends_on[x[2]]}

\* The entries xs, as far as they are undecided, get the outcome.
Settled(xs, outcome) ==
    [x \in Entries |-> IF x \in xs /\ ledger[x] \in {"open", "stuck"} THEN outcome
                                                                      ELSE ledger[x]]

Init == ledger = [x \in Entries |-> "absent"]

Submit(r) ==
    /\ \A x \in Entries : x[1] = r => ledger[x] = "absent"
    /\ ledger' = [x \in Entries |-> IF x[1] = r THEN "open" ELSE ledger[x]]

MayRun(x) == ledger[x] = "open" /\ \A p \in Above(x) : ledger[p] = "done"

Succeed(x) == MayRun(x) /\ ledger' = Settled({x}, "done")

\* A failure for good takes everything that depends on the task with it.
Fail(x) ==
    /\ MayRun(x)
    /\ ledger' = [Settled(Below(x), "skipped") EXCEPT ![x] = "failed"]

\* The workers of last attempts are gone: those tasks cannot be run again.
Lose(xs) ==
    /\ \A x \in xs : MayRun(x)
    /\ ledger' = Settled(xs, "stuck")

\* The failure report of such a task still comes, too late for the task itself.
FailLate(x) == ledger[x] = "stuck" /\ ledger' = Settled(Below(x), "skipped")

Cancel(r) == ledger' = Settled({x \in Entries : x[1] = r}, "cancelled")

Next ==
    \/ \E r \in Runs : Submit(r) \/ Cancel(r)
    \/ \E x \in Entries : Succeed(x) \/ Fail(x) \/ FailLate(x)
    \/ \E xs \in SUBSET {x \in Entries : ledger[x] = "open"} : Lose(xs)

Spec == Init /\ [][Next]_ledger
=============================================================================
