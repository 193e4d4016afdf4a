----------------------------- MODULE RunListing -----------------------------
(***************************************************************************)
(* GET /runs, page by page: RunRepository.list_page, with the Cursor and   *)
(* Page of db/repositories/base.py, while runs are inserted and change     *)
(* state. created_at is the time at which the inserting transaction began  *)
(* (server_default now()), so runs become visible out of its order, and    *)
(* several runs may share it. Ids are random: any order is possible.       *)
(***************************************************************************)
EXTENDS Integers, FiniteSets, Sequences, SequencesExt

CONSTANTS
    Ids,        \* the ids of runs, a set of numbers
    ListTime,   \* bound: the clock stops here
    Limits,     \* page sizes a client may ask for
    MaxPageSize \* settings.max_page_size

ASSUME ListingAssumption ==
    /\ Ids \subseteq Int /\ IsFiniteSet(Ids)
    /\ Limits \subseteq Nat \ {0}
    /\ MaxPageSize \in Nat \ {0}

VARIABLES
    today,      \* the database's clock
    created_at, \* of each run, 0 before it is inserted
    committed,  \* the runs that are visible
    active,     \* the runs whose state the filter of the walk names
    filtered,   \* the walk asks for that state
    cursor,     \* next_cursor of the last page: Top, an item, or Finished
    listed,     \* the items of all pages of the walk
    steady      \* history: runs visible, and not filtered out, all along the walk

list_vars == <<today, created_at, committed, active, filtered, cursor, listed, steady>>

Top == [created_at |-> 0, id |-> 0]
Finished == [created_at |-> -1, id |-> 0]

\* An empty table, and a walk that has not begun.
ListStart ==
    /\ today = 1
    /\ created_at = [r \in Ids |-> 0]
    /\ committed = {}
    /\ active = Ids
    /\ cursor = Top
    /\ listed = <<>>
    /\ steady = {}

ListInit == filtered \in BOOLEAN /\ ListStart

Begun == cursor # Top \/ listed # <<>>

-----------------------------------------------------------------------------
(* Writers.                                                                *)

insert_run(r) ==
    /\ created_at[r] = 0
    /\ created_at' = [created_at EXCEPT ![r] = today]
    /\ UNCHANGED <<today, committed, active, filtered, cursor, listed, steady>>

commit_run(r) ==
    /\ created_at[r] # 0
    /\ r \notin committed
    /\ committed' = committed \cup {r}
    /\ UNCHANGED <<today, created_at, active, filtered, cursor, listed, steady>>

\* refresh_run_state writes another state: for the filter the run comes or goes.
change_state(r) ==
    /\ r \in committed
    /\ active' = IF r \in active THEN active \ {r} ELSE active \cup {r}
    /\ steady' = IF filtered THEN steady \ {r} ELSE steady
    /\ UNCHANGED <<today, created_at, committed, filtered, cursor, listed>>

next_day ==
    /\ today < ListTime
    /\ today' = today + 1
    /\ UNCHANGED <<created_at, committed, active, filtered, cursor, listed, steady>>

-----------------------------------------------------------------------------
(* The reader.                                                             *)

Position(r) == [created_at |-> created_at[r], id |-> r]

\* A mistake: the tiebreaker is left out.
BeforeByTime(p, q) == p.created_at < q.created_at

\* A mistake: the page begins with the last item of the one before.
BeforeOrAt(p, q) ==
    p.created_at < q.created_at \/ (p.created_at = q.created_at /\ p.id <= q.id)

\* The row-value comparison of the query.
Before(p, q) ==
    p.created_at < q.created_at \/ (p.created_at = q.created_at /\ p.id < q.id)

\* ORDER BY created_at DESC, id DESC.
Newer(r, s) ==
    \/ created_at[r] > created_at[s]
    \/ created_at[r] = created_at[s] /\ r > s

Ordered(S) ==
    {s \in [1..Cardinality(S) -> S] :
        /\ ToSet(s) = S
        /\ \A i, j \in 1..Cardinality(S) : i < j => Newer(s[i], s[j])}

Matching == IF filtered THEN committed \cap active ELSE committed

\* The rows of the query, without its limit.
Rows == {r \in Matching : cursor = Top \/ Before(Position(r), cursor)}

PageSize(limit) == IF limit <= MaxPageSize THEN limit ELSE MaxPageSize

\* One request. A row more than the page holds says that there is another page.
list_page(limit) ==
    LET size == PageSize(limit)
    IN  /\ cursor # Finished
        /\ \E rows \in Ordered(Rows) :
             IF Len(rows) > size
               THEN /\ listed' = listed \o SubSeq(rows, 1, size)
                    /\ cursor' = Position(rows[size])
               ELSE /\ listed' = listed \o rows
                    /\ cursor' = Finished
        /\ steady' = IF Begun THEN steady ELSE Matching
        /\ UNCHANGED <<today, created_at, committed, active, filtered>>

ListNext ==
    \/ \E r \in Ids : insert_run(r) \/ commit_run(r) \/ change_state(r)
    \/ \E limit \in Limits : list_page(limit)
    \/ next_day

ListSpec == ListInit /\ [][ListNext]_list_vars

-----------------------------------------------------------------------------
(* Properties.                                                             *)

\* "The page boundary is stable under concurrent inserts": over all pages of a walk
\* the runs come newest first and none twice, whatever is inserted, committed late
\* or changes state between two requests.
ListedOnce ==
    \A i, j \in 1..Len(listed) : i < j => Newer(listed[i], listed[j])

\* A run that was there when the walk began, and never left the filter, is on one of
\* its pages, also when its created_at is that of the last item of a page.
NoneMissed ==
    cursor = Finished => steady \subseteq ToSet(listed)
=============================================================================
