------------------------------ MODULE MCLeases ------------------------------
(***************************************************************************)
(* What TaskQueue abstracts from, one in each behaviour: subject is        *)
(* "clock" (how long leases, heartbeats and sweeps take) or "locks" (the   *)
(* row locks of a statement, one after the other).                         *)
(***************************************************************************)
EXTENDS LeaseClock, RowLocks, TLC

CONSTANTS Other, a, b, c

\* b depends on a, and c on both: a and b share a child, and a has two layers below it.
Shortcut == a :> {} @@ b :> {a} @@ c :> {a, b}

\* Two workers, and a session of the API or of the reaper.
Sessions == Workers \cup {Other}

Makes ==
    [s \in Sessions |-> IF s \in Workers THEN {"report", "claim", "renew"}
                                         ELSE {"cancel", "reap"}]

VARIABLE subject

WorkerSymmetry == Permutations(Workers)

LeasesInit ==
    /\ subject \in {"clock", "locks"}
    /\ Init /\ LocksInit
    /\ subject = "locks" => skew = 0

LeasesNext ==
    \/ subject = "clock" /\ Next /\ UNCHANGED <<subject, lock_vars>>
    \/ subject = "locks" /\ LocksNext /\ UNCHANGED <<subject, vars>>

LeasesSpec == LeasesInit /\ [][LeasesNext]_<<subject, vars, lock_vars>>
=============================================================================
