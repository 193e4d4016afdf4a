------------------------------- MODULE Timers -------------------------------
(***************************************************************************)
(* What a delay queue promises, whatever it is built from: at most one     *)
(* timer per key, a push replaces the key's timer, a cancel withdraws it,  *)
(* and timers fire earliest first. conductor/core/heap.py's DelayQueue is  *)
(* shown to implement this.                                                *)
(***************************************************************************)
EXTENDS Integers, FiniteSets

CONSTANTS Keys, Times, Never    \* Never: no timer for the key

VARIABLE due    \* Keys -> when the key's timer fires, or Never

Set == {k \in Keys : due[k] # Never}

Init == due = [k \in Keys |-> Never]

Push(k, t) == due' = [due EXCEPT ![k] = t]

Cancel(k) == due' = [due EXCEPT ![k] = Never]

\* Timers fire: those of the keys ks, none later than one that stays.
Fire(ks) ==
    /\ \A k \in ks, j \in Set \ ks : due[k] <= due[j]
    /\ due' = [k \in Keys |-> IF k \in ks THEN Never ELSE due[k]]

\* Everything due by now fires, or the n earliest if there are more.
FireDue(now, n) ==
    LET ripe == {k \in Set : due[k] <= now}
    IN  \E ks \in SUBSET ripe :
            /\ Cardinality(ks) <= n
            /\ ripe \ ks # {} => Cardinality(ks) = n
            /\ Fire(ks)

Next ==
    \/ \E k \in Keys, t \in Times : Push(k, t)
    \/ \E k \in Keys : Cancel(k)
    \/ \E k \in Set : Fire({k})
    \/ \E now \in Times, n \in 1..Cardinality(Keys) : FireDue(now, n)

Spec == Init /\ [][Next]_due
=============================================================================
