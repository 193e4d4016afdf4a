----------------------------- MODULE MCTaskQueue -----------------------------
(***************************************************************************)
(* Small workflows for model checking TaskQueue. The shapes are the ones   *)
(* where the queue's transactions interact: a join, where two parents'     *)
(* reports meet in one child; a chain, where a failure has descendants;    *)
(* two independent tasks, where nothing but the run's state is shared.     *)
(***************************************************************************)
EXTENDS TaskQueue, TLC

CONSTANTS a, b, c, d   \* model values: tasks

\* c joins a and b, and d follows c.
JoinTasks == {a, b, c, d}
Join == [t \in JoinTasks |-> CASE t = c -> {a, b} [] t = d -> {c} [] OTHER -> {}]

ChainTasks == {a, b}
Chain == [t \in ChainTasks |-> IF t = b THEN {a} ELSE {}]

Independent == [t \in ChainTasks |-> {}]

OneAttempt == [t \in Tasks |-> 1]
RetryA == [t \in Tasks |-> IF t = a THEN 2 ELSE 1]

SamePriority == [t \in Tasks |-> 0]
\* Task b is claimed before task a.
BFirst == [t \in Tasks |-> IF t = b THEN 1 ELSE 0]

WorkerSymmetry == Permutations(Workers)
WorkerRunSymmetry == Permutations(Workers) \cup Permutations(Runs)
=============================================================================
