----------------------------- MODULE DagCursor -----------------------------
(***************************************************************************)
(* The DagCursor of conductor/core/dag.py: one run's progress through a    *)
(* graph. Reports may come late, repeated and in any order ("at-least-once *)
(* delivery means this repeats"), so any operation may be called at any    *)
(* time. The cursor keeps in-degree counters and returns, from each        *)
(* success, the tasks it unblocked, instead of looking at the whole graph. *)
(***************************************************************************)
EXTENDS Integers, FiniteSets

CONSTANTS
    Nodes,      \* the nodes of the Dag
    Parents     \* Nodes -> the set of its parents

ASSUME NodesAssumption == IsFiniteSet(Nodes)
ASSUME ParentsAssumption == Parents \in [Nodes -> SUBSET Nodes]

\* __init__ raises CycleError unless is_acyclic: any set of nodes has one whose
\* parents are outside of it.
ASSUME AcyclicAssumption ==
    \A S \in SUBSET Nodes : S # {} => \E n \in S : Parents[n] \cap S = {}

VARIABLES
    pending,    \* _pending: how many parents have not succeeded
    succeeded,  \* _succeeded
    failed,     \* _failed
    result,     \* the delta the last call returned
    raised      \* the last call raised ValueError

vars == <<pending, succeeded, failed, result, raised>>

Children(n) == {c \in Nodes : n \in Parents[c]}

\* __init__, on a graph that is_acyclic has accepted.
Init ==
    /\ pending = [n \in Nodes |-> Cardinality(Parents[n])]
    /\ succeeded = {}
    /\ failed = {}
    /\ result = {}
    /\ raised = FALSE

ready == {n \in Nodes : pending[n] = 0 /\ n \notin succeeded /\ n \notin failed}

\* A mistake: a repeated success is not recognised.
IsRepeatNever(n) == FALSE

IsRepeat(n) == n \in succeeded

\* A mistake: every child is handed out by each of its parents.
UnblockedAll(n) == Children(n)

\* The children that waited for n alone.
Unblocked(n) == {c \in Children(n) : pending[c] = 1}

\* mark_succeeded, the first time it is called on a task whose parents are done.
mark_succeeded(n) ==
    /\ ~IsRepeat(n)
    /\ pending[n] = 0
    /\ succeeded' = succeeded \cup {n}
    /\ failed' = failed \ {n}
    /\ pending' = [c \in Nodes |-> IF c \in Children(n) THEN pending[c] - 1
                                                        ELSE pending[c]]
    /\ result' = Unblocked(n)
    /\ raised' = FALSE

mark_succeeded_again(n) ==
    /\ IsRepeat(n)
    /\ result' = {}
    /\ raised' = FALSE
    /\ UNCHANGED <<pending, succeeded, failed>>

mark_succeeded_refused(n) ==
    /\ ~IsRepeat(n)
    /\ pending[n] # 0
    /\ result' = {}
    /\ raised' = TRUE
    /\ UNCHANGED <<pending, succeeded, failed>>

mark_failed(n) ==
    /\ failed' = failed \cup {n}
    /\ result' = {}
    /\ raised' = FALSE
    /\ UNCHANGED <<pending, succeeded>>

Next ==
    \E n \in Nodes :
        \/ mark_succeeded(n) \/ mark_succeeded_again(n) \/ mark_succeeded_refused(n)
        \/ mark_failed(n)

Spec == Init /\ [][Next]_vars

-----------------------------------------------------------------------------
(* Queries.                                                                *)

\* A mistake: only the children of a failed task are blocked.
ClosedOneLayer(S) == \A n \in failed : Children(n) \subseteq S

\* blocked's search: the closed sets that hold the children of what failed; the
\* least of them is what its queue reaches.
Closed(S) ==
    /\ \A n \in failed : Children(n) \subseteq S
    /\ \A n \in S : Children(n) \subseteq S

blocked == {n \in Nodes : \A S \in SUBSET Nodes : Closed(S) => n \in S}

is_complete == ready = {}

is_successful == Cardinality(succeeded) = Cardinality(Nodes)

-----------------------------------------------------------------------------
(* Properties.                                                             *)

\* The counters never drift from the graph, whatever is reported late, twice or
\* after a failure: each is the number of parents that have not succeeded, so a
\* task succeeds only after all of its ancestors.
PendingExact ==
    /\ \A n \in Nodes : pending[n] = Cardinality(Parents[n] \ succeeded)
    /\ \A n \in succeeded : Parents[n] \subseteq succeeded

\* "The scheduler enqueues exactly these": a task is in the returned delta of
\* exactly the call that makes it runnable, so starting the roots and then every
\* delta starts each task once and misses none.
DeltaIsExact ==
    [][/\ \A n \in Nodes :
            n \in result' <=>
                (Parents[n] \subseteq succeeded') /\ ~(Parents[n] \subseteq succeeded)
       /\ \A n \in Nodes : pending[n] = 0 => pending'[n] = 0]_vars

\* A run is over, with nothing ready, only when each task has succeeded, has
\* failed, or waits behind one that failed: the cursor cannot stall.
NoStall ==
    is_complete =>
        /\ Nodes = succeeded \cup failed \cup blocked
        /\ failed = {} => is_successful
=============================================================================
