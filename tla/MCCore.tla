------------------------------- MODULE MCCore -------------------------------
(***************************************************************************)
(* The data structures and algorithms of conductor/core, one in each       *)
(* behaviour: subject names it, and the others stay as they are. They      *)
(* share nothing, so their interleavings would add no case.                *)
(***************************************************************************)
EXTENDS DagCursor, Dag, LruCache, RetryPolicy, TLC

CONSTANT Unknown    \* a name that is no task

\* The graph of the cursor, a diamond with a tail, and a task beside it:
\* 1 -> {2, 3} -> 4 -> 5,  6.
Diamond == 1 :> {} @@ 2 :> {1} @@ 3 :> {1} @@ 4 :> {2, 3} @@ 5 :> {4} @@ 6 :> {}

\* The submissions: four tasks, each with no parent, one, or two, the same one twice
\* and the name that is no task included. The order within a list decides only which
\* bad name is reported.
Four == <<1, 2, 3, 4>>

UpToTwo ==
    {<<>>} \cup {<<p>> : p \in 1..4 \cup {Unknown}} \cup
    {<<p, q>> \in (1..4) \X (1..4) : p <= q} \cup {<<1, Unknown>>, <<Unknown, 1>>}

\* Valid and invalid values of the numeric options of a retry policy.
AllAmounts == {-1, 0, 1, 2, 3}

VARIABLE subject

core_vars == <<subject, vars, graph_vars, cache_vars, retry_vars>>

\* A submission without dependencies, and a request that names no option.
NoDependencies == [n \in Vertices |-> <<>>]

NoOptions ==
    [f \in {"type", "max_attempts", "delay", "base", "factor", "max_delay", "jitter"}
       |-> Unset]

CoreInit ==
    /\ subject \in {"cursor", "graph", "cache", "retry"}
    /\ Init
    /\ IF subject = "graph" THEN GraphInit ELSE dependencies = NoDependencies /\ GraphStart
    /\ IF subject = "cache" THEN CacheInit ELSE capacity = 0 /\ CacheStart
    /\ IF subject = "retry" THEN RetryInit ELSE request = NoOptions /\ RetryStart

CoreNext ==
    \/ /\ subject = "cursor" /\ Next
       /\ UNCHANGED <<subject, graph_vars, cache_vars, retry_vars>>
    \/ /\ subject = "graph" /\ GraphNext
       /\ UNCHANGED <<subject, vars, cache_vars, retry_vars>>
    \/ /\ subject = "cache" /\ CacheNext
       /\ UNCHANGED <<subject, vars, graph_vars, retry_vars>>
    \/ /\ subject = "retry" /\ RetryNext
       /\ UNCHANGED <<subject, vars, graph_vars, cache_vars>>

\* The thread that orders a graph runs to its end.
CoreSpec ==
    /\ CoreInit /\ [][CoreNext]_core_vars
    /\ WF_core_vars(subject = "graph" /\ CoreNext)

\* Dag: every submission is ordered, or refused for a reason it gives.
GraphIsJudged == subject = "graph" => EverySubmissionIsJudged
=============================================================================
