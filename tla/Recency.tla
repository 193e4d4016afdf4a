------------------------------ MODULE Recency ------------------------------
(***************************************************************************)
(* What an LRU cache promises: its entries in the order of their last use, *)
(* never more than its capacity, the least recently used given up first.   *)
(* conductor/core/lru.py's LruCache is shown to implement this.            *)
(***************************************************************************)
EXTENDS Integers, Sequences, SequencesExt

CONSTANTS Keys, Values, Nothing

VARIABLES
    capacity,
    entries,    \* records [key, value], the most recently used first
    returned    \* what the last operation returned

vars == <<capacity, entries, returned>>

Init == capacity \in Nat /\ entries = <<>> /\ returned = Nothing

Holds(k) == \E i \in 1..Len(entries) : entries[i].key = k

Place(k) == CHOOSE i \in 1..Len(entries) : entries[i].key = k

Without(k) == IF Holds(k) THEN RemoveAt(entries, Place(k)) ELSE entries

\* The entries once k is used with value v; one of them may be too many.
Fronted(k, v) == <<[key |-> k, value |-> v]>> \o Without(k)

Fits(s) == Len(s) <= capacity

Trimmed(s) == IF Fits(s) THEN s ELSE Front(s)

Hit(k) ==
    /\ Holds(k)
    /\ entries' = Fronted(k, entries[Place(k)].value)
    /\ returned' = entries[Place(k)].value

Miss(k) == ~Holds(k) /\ entries' = entries /\ returned' = Nothing

\* A put returns the key that was given up for it.
Put(k, v) ==
    /\ entries' = Trimmed(Fronted(k, v))
    /\ returned' = IF Fits(Fronted(k, v)) THEN Nothing ELSE Last(Fronted(k, v)).key

\* The put of a value that was read through the cache.
Load(k, v) == entries' = Trimmed(Fronted(k, v)) /\ returned' = v

Drop(k) == Holds(k) /\ entries' = Without(k) /\ returned' = k

Clear == entries' = <<>> /\ returned' = Nothing

Next ==
    /\ UNCHANGED capacity
    /\ \/ \E k \in Keys : Hit(k) \/ Miss(k) \/ Drop(k)
       \/ \E k \in Keys, v \in Values : Put(k, v) \/ Load(k, v)
       \/ Clear

Spec == Init /\ [][Next]_vars
=============================================================================
