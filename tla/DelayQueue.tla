----------------------------- MODULE DelayQueue -----------------------------
(***************************************************************************)
(* conductor/core/heap.py: a binary min-heap over due_at with an index     *)
(* from key to position, so that a timer can be withdrawn by its key. One  *)
(* scheduler loop owns it, so an operation runs to its end before the next *)
(* begins; one action is one iteration of a loop, or the code up to one.   *)
(* Positions count from 1 here and from 0 in the code; the payload of an   *)
(* entry goes where its key goes and is left out.                          *)
(***************************************************************************)
EXTENDS Integers, FiniteSets, Sequences, SequencesExt

CONSTANTS Keys, Times, Never

ASSUME TimesAssumption == Times \subseteq Int /\ Never \notin Int
ASSUME KeysAssumption == IsFiniteSet(Keys)

VARIABLES
    heap,       \* _heap, a sequence of entries
    index,      \* _index: key -> position, 0 when the key is not queued
    pc,         \* the loop that runs: _sift_up's, _sift_down's or pop_due's; or "idle"
    position,   \* the local of the sift that runs
    settling,   \* the position both sifts of an entry start from, 0 in a push
    returned,   \* the entries the last operation returns
    asked       \* the arguments of the last operation if it is pop_due

vars == <<heap, index, pc, position, settling, returned, asked>>

Entry == [key : Keys, due_at : Times]

\* The last operation is no drain.
NotAsked == [now |-> 0, limit |-> 0]

Init ==
    /\ heap = <<>>
    /\ index = [k \in Keys |-> 0]
    /\ pc = "idle"
    /\ position = 0
    /\ settling = 0
    /\ returned = <<>>
    /\ asked = NotAsked

-----------------------------------------------------------------------------
(* The heap internals.                                                     *)

parent(p) == p \div 2

swap(i, j) ==
    /\ heap' = [heap EXCEPT ![i] = heap[j], ![j] = heap[i]]
    /\ index' = [index EXCEPT ![heap[j].key] = i, ![heap[i].key] = j]

\* The caller of a sift goes on: pop_due with its loop, the others return.
Resume(args) == IF args = NotAsked THEN "idle" ELSE "draining"

EarlierThanParent(p) == p > 1 /\ heap[p].due_at < heap[parent(p)].due_at

\* An iteration of _sift_up.
sift_up ==
    /\ pc = "up"
    /\ EarlierThanParent(position)
    /\ swap(position, parent(position))
    /\ position' = parent(position)
    /\ UNCHANGED <<pc, settling, returned, asked>>

\* _sift_up is done. After a push that is all; otherwise _sift_down follows.
sift_up_ends ==
    /\ pc = "up"
    /\ ~EarlierThanParent(position)
    /\ pc' = IF settling = 0 THEN Resume(asked) ELSE "down"
    /\ position' = settling
    /\ UNCHANGED <<heap, index, settling, returned, asked>>

\* A mistake: the right child is not looked at.
SmallestOfTwo(p) ==
    IF 2 * p <= Len(heap) /\ heap[2 * p].due_at < heap[p].due_at THEN 2 * p ELSE p

\* The position among p and its children that is due first, ties to the left.
Smallest(p) ==
    LET left == IF 2 * p <= Len(heap) /\ heap[2 * p].due_at < heap[p].due_at
                  THEN 2 * p ELSE p
    IN  IF 2 * p + 1 <= Len(heap) /\ heap[2 * p + 1].due_at < heap[left].due_at
          THEN 2 * p + 1 ELSE left

\* An iteration of _sift_down.
sift_down ==
    /\ pc = "down"
    /\ Smallest(position) # position
    /\ swap(position, Smallest(position))
    /\ position' = Smallest(position)
    /\ UNCHANGED <<pc, settling, returned, asked>>

sift_down_ends ==
    /\ pc = "down"
    /\ Smallest(position) = position
    /\ pc' = Resume(asked)
    /\ position' = 0
    /\ settling' = 0
    /\ UNCHANGED <<heap, index, returned, asked>>

\* A mistake: an entry put into a hole is only moved down.
ResettleDownOnly(p) == pc' = "down" /\ position' = p /\ settling' = p

\* An entry that changed at p may have to go either way.
Resettle(p) == pc' = "up" /\ position' = p /\ settling' = p

\* A mistake: the key of the moved last entry keeps its old position.
MovedToStale(k, p) == index[k]

\* _remove_at's move of the former last entry, which is k's, into the hole at p.
MovedTo(k, p) == p

\* _remove_at up to the sifts, which a removal of the last entry does not need.
remove_at(p, args) ==
    LET last == Last(heap).key
    IN  /\ heap' = IF p < Len(heap) THEN [Front(heap) EXCEPT ![p] = Last(heap)]
                                    ELSE Front(heap)
        /\ index' = [k \in Keys |-> IF k = heap[p].key THEN 0
                                    ELSE IF k = last THEN MovedTo(k, p) ELSE index[k]]
        /\ IF p < Len(heap) THEN Resettle(p)
           ELSE pc' = Resume(args) /\ UNCHANGED <<position, settling>>

-----------------------------------------------------------------------------
(* The public operations.                                                  *)

\* push of a new key.
push(k, t) ==
    /\ pc = "idle"
    /\ index[k] = 0
    /\ heap' = Append(heap, [key |-> k, due_at |-> t])
    /\ index' = [index EXCEPT ![k] = Len(heap) + 1]
    /\ pc' = "up"
    /\ position' = Len(heap) + 1
    /\ settling' = 0
    /\ returned' = <<>>
    /\ asked' = NotAsked

\* push of a queued key: _replace.
replace(k, t) ==
    /\ pc = "idle"
    /\ index[k] # 0
    /\ heap' = [heap EXCEPT ![index[k]] = [key |-> k, due_at |-> t]]
    /\ Resettle(index[k])
    /\ returned' = <<>>
    /\ asked' = NotAsked
    /\ UNCHANGED index

pop ==
    /\ pc = "idle"
    /\ heap # <<>>
    /\ remove_at(1, NotAsked)
    /\ returned' = <<heap[1]>>
    /\ asked' = NotAsked

cancel(k) ==
    /\ pc = "idle"
    /\ index[k] # 0
    /\ remove_at(index[k], NotAsked)
    /\ returned' = <<heap[index[k]]>>
    /\ asked' = NotAsked

pop_due(now, limit) ==
    /\ pc = "idle"
    /\ pc' = "draining"
    /\ returned' = <<>>
    /\ asked' = [now |-> now, limit |-> limit]
    /\ UNCHANGED <<heap, index, position, settling>>

\* A mistake: an entry due exactly now is left for the next tick.
IsDueStrict(now) == heap # <<>> /\ heap[1].due_at < now

IsDue(now) == heap # <<>> /\ heap[1].due_at <= now

\* An iteration of pop_due, up to the sifts of its pop.
drain ==
    /\ pc = "draining"
    /\ IsDue(asked.now) /\ Len(returned) < asked.limit
    /\ remove_at(1, asked)
    /\ returned' = Append(returned, heap[1])
    /\ UNCHANGED asked

drain_ends ==
    /\ pc = "draining"
    /\ ~ (IsDue(asked.now) /\ Len(returned) < asked.limit)
    /\ pc' = "idle"
    /\ UNCHANGED <<heap, index, position, settling, returned, asked>>

Next ==
    \/ \E k \in Keys, t \in Times : push(k, t) \/ replace(k, t)
    \/ pop
    \/ \E k \in Keys : cancel(k)
    \/ \E now \in Times, limit \in 1..Cardinality(Keys) : pop_due(now, limit)
    \/ sift_up \/ sift_up_ends \/ sift_down \/ sift_down_ends
    \/ drain \/ drain_ends

Spec == Init /\ [][Next]_vars

-----------------------------------------------------------------------------
(* Properties.                                                             *)

\* No entry is due before its parent when an operation is over, after any mix of
\* pushes, reschedules, withdrawals from the middle and drains: what is at the root
\* is due first.
HeapOrdered ==
    pc \in {"idle", "draining"} =>
        \A p \in 2..Len(heap) : heap[parent(p)].due_at <= heap[p].due_at

\* The index is exactly the inverse of the heap, in the middle of a sift too: cancel
\* and replace reach the entry of their key and no other, and no key is queued twice.
IndexExact ==
    /\ \A p \in 1..Len(heap) : index[heap[p].key] = p
    /\ \A k \in Keys : index[k] # 0 => index[k] <= Len(heap) /\ heap[index[k]].key = k

\* A drain returns the timers due by now, the earliest first and at most limit of
\* them, and leaves a due timer behind only if it returned limit of them.
DrainIsExact ==
    pc = "idle" /\ asked # NotAsked =>
        /\ \A i \in 1..Len(returned) : returned[i].due_at <= asked.now
        /\ \A i, j \in 1..Len(returned) :
             i < j => returned[i].due_at <= returned[j].due_at
        /\ Len(returned) <= asked.limit
        /\ \A p \in 1..Len(heap) : heap[p].due_at <= asked.now =>
             /\ Len(returned) = asked.limit
             /\ \A i \in 1..Len(returned) : returned[i].due_at <= heap[p].due_at

\* A drain that has not returned holds the entries it has popped.
HeldBack(k) ==
    IF pc = "idle" \/ asked = NotAsked THEN {}
    ELSE {i \in 1..Len(returned) : returned[i].key = k}

\* When k's timer fires.
DueOf(k) ==
    IF index[k] # 0 THEN heap[index[k]].due_at
    ELSE IF HeldBack(k) # {} THEN returned[CHOOSE i \in HeldBack(k) : TRUE].due_at
    ELSE Never

\* DelayQueue implements Timers: for every key the heap keeps exactly the timer
\* the sequence of operations leaves, and fires none before an earlier one.
Abstract == INSTANCE Timers WITH due <- [k \in Keys |-> DueOf(k)]

ImplementsTimers == Abstract!Spec
=============================================================================
