------------------------------ MODULE LruCache ------------------------------
(***************************************************************************)
(* conductor/core/lru.py: a dict of nodes over a doubly linked list        *)
(* between two sentinels. A key has at most one node, which goes by the    *)
(* name of its key here. get_or_load calls its loader between its look-up  *)
(* and its put, and the loader may itself use the cache.                   *)
(***************************************************************************)
EXTENDS Integers, FiniteSets, Sequences, SequencesExt

CONSTANTS
    Keys, Values,
    Capacities,     \* capacities to build a cache with
    MaxNesting,     \* bound: loaders that call get_or_load
    head, tail,     \* the sentinels _head and _tail
    Nil,            \* Python's None as a pointer
    Nothing         \* Python's None as a result

ASSUME CacheAssumption ==
    /\ Capacities \subseteq Nat      \* __init__ refuses others
    /\ head # tail /\ head \notin Keys /\ tail \notin Keys

VARIABLES
    capacity,   \* _capacity
    nodes,      \* the keys of _nodes
    value,      \* the values of the nodes
    links,      \* [next, prev]: the pointers of nodes and sentinels
    loading,    \* keys whose loader is running, the innermost first
    returned    \* the result of the last operation

cache_vars == <<capacity, nodes, value, links, loading, returned>>

Sentinels == {head, tail}

NoEntries ==
    [next |-> [n \in Keys \cup Sentinels |-> IF n = head THEN tail ELSE Nil],
     prev |-> [n \in Keys \cup Sentinels |-> IF n = tail THEN head ELSE Nil]]

-----------------------------------------------------------------------------
(* Linked-list internals: what becomes of the pointers l.                  *)

push_front(l, n) ==
    LET first == l.next[head]
    IN  [next |-> [l.next EXCEPT ![n] = first, ![head] = n],
         prev |-> [l.prev EXCEPT ![n] = head, ![first] = n]]

\* A mistake: the node after it still points back to the node taken out.
UnlinkForward(l, n) ==
    [next |-> [l.next EXCEPT ![l.prev[n]] = l.next[n], ![n] = Nil],
     prev |-> [l.prev EXCEPT ![n] = Nil]]

unlink(l, n) ==
    [next |-> [l.next EXCEPT ![l.prev[n]] = l.next[n], ![n] = Nil],
     prev |-> [l.prev EXCEPT ![l.next[n]] = l.prev[n], ![n] = Nil]]

\* A mistake: a use does not count.
StayInPlace(l, n) == l

move_to_front(l, n) == IF l.next[head] = n THEN l ELSE push_front(unlink(l, n), n)

-----------------------------------------------------------------------------
(* Operations.                                                             *)

\* __init__, for any capacity.
CacheStart ==
    /\ nodes = {}
    /\ value = [k \in Keys |-> Nothing]
    /\ links = NoEntries
    /\ loading = <<>>
    /\ returned = Nothing

CacheInit == capacity \in Capacities /\ CacheStart

Touch(k) ==
    /\ links' = move_to_front(links, k)
    /\ UNCHANGED <<capacity, nodes, value>>

\* get, and get_or_load of a key that is there.
get(k) ==
    /\ k \in nodes
    /\ Touch(k)
    /\ returned' = value[k]
    /\ UNCHANGED loading

get_default(k) ==
    /\ k \notin nodes
    /\ returned' = Nothing
    /\ UNCHANGED <<capacity, nodes, value, links, loading>>

\* put's effect. With capacity 0 nothing is stored.
Store(k, v) ==
    LET pushed == push_front(links, k)
        victim == pushed.prev[tail]
    IN  CASE capacity = 0 -> UNCHANGED <<nodes, value, links>>
          [] capacity # 0 /\ k \in nodes ->
               /\ value' = [value EXCEPT ![k] = v]
               /\ links' = move_to_front(links, k)
               /\ UNCHANGED nodes
          [] capacity # 0 /\ k \notin nodes /\ Cardinality(nodes) < capacity ->
               /\ nodes' = nodes \cup {k}
               /\ value' = [value EXCEPT ![k] = v]
               /\ links' = pushed
          [] OTHER ->
               /\ nodes' = (nodes \cup {k}) \ {victim}
               /\ value' = [value EXCEPT ![k] = v, ![victim] = Nothing]
               /\ links' = unlink(pushed, victim)

\* The key a put evicts, which it returns.
Evicted(k) ==
    IF capacity = 0 THEN k
    ELSE IF k \in nodes \/ Cardinality(nodes) < capacity THEN Nothing
    ELSE push_front(links, k).prev[tail]

put(k, v) ==
    /\ Store(k, v)
    /\ returned' = Evicted(k)
    /\ UNCHANGED <<capacity, loading>>

\* get_or_load of a key that is not there, up to the call of the loader.
get_or_load(k) ==
    /\ k \notin nodes
    /\ Len(loading) < MaxNesting
    /\ loading' = <<k>> \o loading
    /\ returned' = Nothing
    /\ UNCHANGED <<capacity, nodes, value, links>>

\* The loader returns: put, whatever has happened to the cache meanwhile.
loaded(v) ==
    /\ loading # <<>>
    /\ Store(loading[1], v)
    /\ loading' = SubSeq(loading, 2, Len(loading))
    /\ returned' = v
    /\ UNCHANGED capacity

invalidate(k) ==
    /\ k \in nodes
    /\ nodes' = nodes \ {k}
    /\ value' = [value EXCEPT ![k] = Nothing]
    /\ links' = unlink(links, k)
    /\ returned' = k
    /\ UNCHANGED <<capacity, loading>>

\* The sentinels are wired to each other; the nodes are garbage.
clear ==
    /\ nodes' = {}
    /\ value' = [k \in Keys |-> Nothing]
    /\ links' = NoEntries
    /\ returned' = Nothing
    /\ UNCHANGED <<capacity, loading>>

CacheNext ==
    \/ \E k \in Keys : get(k) \/ get_default(k) \/ get_or_load(k) \/ invalidate(k)
    \/ \E k \in Keys, v \in Values : put(k, v)
    \/ \E v \in Values : loaded(v)
    \/ clear

CacheSpec == CacheInit /\ [][CacheNext]_cache_vars

-----------------------------------------------------------------------------
(* Properties.                                                             *)

\* Stop i of a walk over the entries s, between the two sentinels.
Stop(s, i) == IF i = 0 THEN head ELSE IF i <= Len(s) THEN s[i] ELSE tail

\* A walk along next, as __iter__'s, meets the entries s, and so does one along prev.
Linked(l, s) ==
    \A i \in 0..Len(s) :
        l.next[Stop(s, i)] = Stop(s, i + 1) /\ l.prev[Stop(s, i + 1)] = Stop(s, i)

\* The order of the list: there is one if the list is sound.
Orders == {s \in SetToSeqs(nodes) : Linked(links, s)}

\* The list reads the same from both ends and holds each key of the dict once,
\* within the capacity, whatever a loader did in the middle of a load.
ListIsSound == Orders # {} /\ Cardinality(nodes) <= capacity

\* LruCache implements Recency: the list is the order of last use, so what is
\* evicted is always the entry that was used least recently.
Recent == CHOOSE s \in Orders : TRUE

LastUse == INSTANCE Recency WITH
    entries <- [i \in 1..Len(Recent) |-> [key |-> Recent[i], value |-> value[Recent[i]]]]

ImplementsRecency == LastUse!Spec
=============================================================================
