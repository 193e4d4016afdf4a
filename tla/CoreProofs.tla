----------------------------- MODULE CoreProofs -----------------------------
(***************************************************************************)
(* Proofs about the data structures and algorithms of conductor/core: the  *)
(* cursor over a graph, the graph itself, the LRU cache and the retry      *)
(* policies, for every graph, every list of calls and every setting.       *)
(***************************************************************************)
EXTENDS DagCursor, Dag, LruCache, RetryPolicy,
        FiniteSetTheorems, SequenceTheorems, WellFoundedInduction, TLAPS

\* A set of numbers has a least one: what an induction on a length or an exponent
\* is made from.
LEMMA Least ==
    ASSUME NEW T, T \subseteq Nat, T # {}
    PROVE  \E x \in T : \A y \in T : x <= y
<1> DEFINE R == {ss \in Nat \X Nat : ss[1] < ss[2]}
<1>1. IsWellFoundedOn(R, Nat)
  BY NatLessThanWellFounded, Zenon DEF OpToRel
<1>2. PICK x \in T : \A y \in T : ~ (<<y, x>> \in R)
  BY <1>1, WFMin, Zenon
<1>3. ASSUME NEW y \in T PROVE x <= y
  <2>1. x \in Nat /\ y \in Nat
    OBVIOUS
  <2>2. ASSUME y < x PROVE <<y, x>> \in R
    BY <2>1, <2>2
  <2> QED
    BY <1>2, <2>1, <2>2
<1> QED
  BY <1>3

\* No element of s twice.
Distinct(s) == \A i, j \in 1..Len(s) : s[i] = s[j] => i = j

-----------------------------------------------------------------------------
(* DagCursor.                                                              *)

TypeInv ==
    /\ pending \in [Nodes -> Int]
    /\ succeeded \subseteq Nodes
    /\ failed \subseteq Nodes

\* The inductive invariant: PendingExact with the types it is read in.
CursorInv == TypeInv /\ PendingExact

\* The parents of a node are finitely many, and so are those of them that have
\* not succeeded.
LEMMA ParentsFinite ==
    ASSUME NEW n \in Nodes, NEW S
    PROVE  /\ IsFiniteSet(Parents[n] \ S)
           /\ Cardinality(Parents[n] \ S) \in Nat
<1>1. Parents[n] \subseteq Nodes
  BY ParentsAssumption
<1>2. Parents[n] \ S \subseteq Nodes
  BY <1>1
<1>3. IsFiniteSet(Parents[n] \ S)
  BY <1>2, NodesAssumption, FS_Subset
<1> QED
  BY <1>3, FS_CardinalityType

\* One more success lowers the count of unmet parents by one exactly for the
\* children of the task that succeeded (the loop of mark_succeeded).
LEMMA CountAfterSuccess ==
    ASSUME NEW n \in Nodes, NEW c \in Nodes, NEW S, n \notin S
    PROVE  Cardinality(Parents[c] \ (S \cup {n})) =
             IF c \in Children(n) THEN Cardinality(Parents[c] \ S) - 1
                                  ELSE Cardinality(Parents[c] \ S)
<1>1. CASE c \in Children(n)
  <2>1. n \in Parents[c] \ S
    BY <1>1 DEF Children
  <2>2. Parents[c] \ (S \cup {n}) = (Parents[c] \ S) \ {n}
    OBVIOUS
  <2>3. Cardinality((Parents[c] \ S) \ {n}) = Cardinality(Parents[c] \ S) - 1
    BY <2>1, ParentsFinite, FS_RemoveElement
  <2> QED
    BY <1>1, <2>2, <2>3
<1>2. CASE c \notin Children(n)
  <2>1. Parents[c] \ (S \cup {n}) = Parents[c] \ S
    BY <1>2 DEF Children
  <2> QED
    BY <1>2, <2>1
<1> QED
  BY <1>1, <1>2

\* A counter is zero exactly when every parent has succeeded.
LEMMA ZeroMeansDone ==
    ASSUME CursorInv, NEW n \in Nodes
    PROVE  pending[n] = 0 <=> Parents[n] \subseteq succeeded
<1>1. pending[n] = Cardinality(Parents[n] \ succeeded)
  BY DEF CursorInv, PendingExact
<1>2. Cardinality(Parents[n] \ succeeded) = 0 <=> Parents[n] \ succeeded = {}
  BY ParentsFinite, FS_EmptySet
<1> QED
  BY <1>1, <1>2

\* A new cursor counts every parent.
LEMMA CursorInit == Init => CursorInv
<1> SUFFICES ASSUME Init PROVE CursorInv
  OBVIOUS
<1>1. \A n \in Nodes : Parents[n] \ {} = Parents[n]
  OBVIOUS
<1>2. \A n \in Nodes : Cardinality(Parents[n]) \in Nat
  BY <1>1, ParentsFinite
<1> QED
  BY <1>1, <1>2 DEF Init, CursorInv, TypeInv, PendingExact

\* Every report preserves the invariant; only a first success changes counters.
LEMMA CursorNext == CursorInv /\ [Next]_vars => CursorInv'
<1> SUFFICES ASSUME CursorInv, [Next]_vars PROVE CursorInv'
  OBVIOUS
<1> USE DEF CursorInv, TypeInv
<1>1. CASE UNCHANGED <<pending, succeeded>> /\ failed' \subseteq Nodes
  BY <1>1 DEF PendingExact
<1>2. ASSUME NEW n \in Nodes, mark_succeeded(n)
      PROVE  CursorInv'
  <2>1. n \notin succeeded /\ succeeded' = succeeded \cup {n}
    BY <1>2 DEF mark_succeeded, IsRepeat
  <2>2. TypeInv'
    BY <1>2, <2>1 DEF mark_succeeded
  <2>3. ASSUME NEW c \in Nodes
        PROVE  pending'[c] = Cardinality(Parents[c] \ succeeded')
    <3>1. pending'[c] = IF c \in Children(n) THEN pending[c] - 1 ELSE pending[c]
      BY <1>2 DEF mark_succeeded
    <3>2. pending[c] = Cardinality(Parents[c] \ succeeded)
      BY DEF PendingExact
    <3>3. Cardinality(Parents[c] \ (succeeded \cup {n})) =
            IF c \in Children(n) THEN Cardinality(Parents[c] \ succeeded) - 1
                                 ELSE Cardinality(Parents[c] \ succeeded)
      BY <2>1, CountAfterSuccess
    <3> QED
      BY <2>1, <3>1, <3>2, <3>3
  <2>4. ASSUME NEW c \in succeeded'
        PROVE  Parents[c] \subseteq succeeded'
    <3>1. CASE c = n
      BY <1>2, <2>1, <3>1, ZeroMeansDone DEF mark_succeeded
    <3>2. CASE c \in succeeded
      BY <2>1, <3>2 DEF PendingExact
    <3> QED
      BY <2>1, <3>1, <3>2
  <2> QED
    BY <2>2, <2>3, <2>4 DEF PendingExact
<1>3. [Next]_vars => \/ UNCHANGED <<pending, succeeded>> /\ failed' \subseteq Nodes
                     \/ \E n \in Nodes : mark_succeeded(n)
  BY DEF Next, vars, mark_succeeded_again, mark_succeeded_refused, mark_failed
<1> QED
  BY <1>1, <1>2, <1>3

\* The invariant holds throughout a run.
LEMMA CursorAlways == Spec => []CursorInv
BY CursorInit, CursorNext, PTL DEF Spec

\* The counters of a DagCursor are the numbers of parents that have not
\* succeeded, and nothing succeeds before its ancestors, on every finite graph
\* and under every order and repetition of mark_succeeded and mark_failed.
THEOREM CountersExact == Spec => []PendingExact
<1>1. CursorInv => PendingExact
  BY DEF CursorInv
<1> QED
  BY <1>1, CursorAlways, PTL

\* What mark_succeeded returns is exactly what became runnable by that call.
THEOREM DeltaExact == Spec => DeltaIsExact
<1> DEFINE Delta ==
      /\ \A n \in Nodes :
           n \in result' <=>
             (Parents[n] \subseteq succeeded') /\ ~(Parents[n] \subseteq succeeded)
      /\ \A n \in Nodes : pending[n] = 0 => pending'[n] = 0
<1>1. CursorInv /\ CursorInv' /\ [Next]_vars => [Delta]_vars
  <2> SUFFICES ASSUME CursorInv, CursorInv', Next PROVE Delta
    OBVIOUS
  <2>1. CASE UNCHANGED <<pending, succeeded>> /\ result' = {}
    BY <2>1
  <2>2. ASSUME NEW n \in Nodes, mark_succeeded(n)
        PROVE  Delta
    <3>1. ASSUME NEW c \in Nodes
          PROVE  /\ pending[c] = 0 <=> Parents[c] \subseteq succeeded
                 /\ pending'[c] = 0 <=> Parents[c] \subseteq succeeded'
      <4>1. pending[c] = 0 <=> Parents[c] \subseteq succeeded
        BY ZeroMeansDone
      <4>2. pending'[c] = Cardinality(Parents[c] \ succeeded')
        BY DEF CursorInv, PendingExact
      <4>3. Cardinality(Parents[c] \ succeeded') = 0 <=> Parents[c] \ succeeded' = {}
        BY ParentsFinite, FS_EmptySet
      <4> QED
        BY <4>1, <4>2, <4>3
    <3>2. ASSUME NEW c \in Nodes
          PROVE  pending'[c] = IF c \in Children(n) THEN pending[c] - 1 ELSE pending[c]
      BY <2>2 DEF mark_succeeded
    <3>3. ASSUME NEW c \in Nodes
          PROVE  c \in result' <=> c \in Children(n) /\ pending[c] = 1
      BY <2>2 DEF mark_succeeded, Unblocked, Children
    <3>4. ASSUME NEW c \in Nodes
          PROVE  pending[c] \in Nat /\ pending'[c] \in Nat
      BY ParentsFinite DEF CursorInv, PendingExact
    <3> QED
      BY <3>1, <3>2, <3>3, <3>4
  <2>3. \/ UNCHANGED <<pending, succeeded>> /\ result' = {}
        \/ \E n \in Nodes : mark_succeeded(n)
    BY DEF Next, mark_succeeded_again, mark_succeeded_refused, mark_failed
  <2> QED
    BY <2>1, <2>2, <2>3
<1> QED
  BY <1>1, CursorAlways, PTL DEF Spec, DeltaIsExact

\* Every child of a failed or of a blocked task is blocked: what the search of
\* blocked reaches is closed under _children.
LEMMA BlockedIsClosed ==
    ASSUME NEW n \in Nodes, NEW p \in Parents[n], p \in failed \cup blocked
    PROVE  n \in blocked
<1> SUFFICES ASSUME NEW S \in SUBSET Nodes, Closed(S)
             PROVE  n \in S
  BY DEF blocked
<1>1. n \in Children(p)
  BY DEF Children
<1>2. CASE p \in failed
  BY <1>1, <1>2 DEF Closed
<1>3. CASE p \in blocked
  <2>1. p \in S
    BY <1>3 DEF blocked
  <2> QED
    BY <1>1, <2>1 DEF Closed
<1> QED
  BY <1>2, <1>3

\* Nothing is blocked as long as nothing has failed.
LEMMA NothingBlocked ==
    ASSUME failed = {}
    PROVE  blocked = {}
<1>1. Closed({})
  BY DEF Closed
<1> QED
  BY <1>1 DEF blocked

\* A node that is not settled has a parent that is not settled either, when
\* nothing is ready: the parents cannot all have succeeded, or it would be ready,
\* and none has failed or is blocked, or it would be blocked.
LEMMA UnsettledGoesUp ==
    ASSUME CursorInv, is_complete,
           NEW n \in Nodes \ (succeeded \cup failed \cup blocked)
    PROVE  Parents[n] \cap (Nodes \ (succeeded \cup failed \cup blocked)) # {}
<1> SUFFICES ASSUME Parents[n] \cap (Nodes \ (succeeded \cup failed \cup blocked)) = {}
             PROVE  FALSE
  OBVIOUS
<1>1. Parents[n] \subseteq Nodes
  BY ParentsAssumption
<1>2. \A p \in Parents[n] : p \notin failed \cup blocked
  BY BlockedIsClosed
<1>3. Parents[n] \subseteq succeeded
  BY <1>1, <1>2
<1>4. pending[n] = 0
  BY <1>3, ZeroMeansDone
<1> QED
  BY <1>4 DEF is_complete, ready

\* The cursor of a finite acyclic graph never stalls: when nothing is ready, every
\* task has succeeded, has failed or is behind one that failed, and a run without
\* failures is then successful. Otherwise the unsettled nodes would have a member
\* without a parent among them, which UnsettledGoesUp excludes.
THEOREM CursorNeverStalls == Spec => []NoStall
<1>1. ASSUME CursorInv PROVE NoStall
  <2> SUFFICES ASSUME is_complete
               PROVE  /\ Nodes = succeeded \cup failed \cup blocked
                      /\ failed = {} => is_successful
    BY DEF NoStall
  <2> DEFINE U == Nodes \ (succeeded \cup failed \cup blocked)
  <2>1. U = {}
    <3> SUFFICES ASSUME U # {} PROVE FALSE
      OBVIOUS
    <3>1. PICK n \in U : Parents[n] \cap U = {}
      BY AcyclicAssumption
    <3> QED
      BY <1>1, <3>1, UnsettledGoesUp
  <2>2. succeeded \subseteq Nodes /\ failed \subseteq Nodes /\ blocked \subseteq Nodes
    BY <1>1 DEF CursorInv, TypeInv, blocked
  <2>3. Nodes = succeeded \cup failed \cup blocked
    BY <2>1, <2>2
  <2>4. ASSUME failed = {} PROVE is_successful
    <3>1. Nodes = succeeded
      BY <2>3, <2>4, NothingBlocked
    <3> QED
      BY <3>1 DEF is_successful
  <2> QED
    BY <2>3, <2>4
<1> QED
  BY <1>1, CursorAlways, PTL

-----------------------------------------------------------------------------
(* LruCache.                                                               *)

\* A node of the list, or a sentinel.
Cell == Keys \cup Sentinels

Links == [next : [Cell -> Cell \cup {Nil}], prev : [Cell -> Cell \cup {Nil}]]

\* s lists the keys of N, each once.
Lists(s, N) ==
    /\ s \in Seq(Keys)
    /\ Distinct(s)
    /\ \A k : k \in N <=> \E i \in 1..Len(s) : s[i] = k

\* Within a walk every stop is another cell.
LEMMA Stops ==
    ASSUME NEW s \in Seq(Keys), Distinct(s)
    PROVE  /\ Stop(s, 0) = head /\ Stop(s, Len(s) + 1) = tail
           /\ \A i \in 1..Len(s) : Stop(s, i) = s[i] /\ Stop(s, i) \in Keys
           /\ \A i \in 0..(Len(s) + 1) : Stop(s, i) \in Cell
           /\ \A i, j \in 0..(Len(s) + 1) : Stop(s, i) = Stop(s, j) => i = j
<1> USE CacheAssumption
<1>1. Len(s) \in Nat /\ \A i \in 1..Len(s) : s[i] \in Keys
  OBVIOUS
<1>2. /\ Stop(s, 0) = head /\ Stop(s, Len(s) + 1) = tail
      /\ \A i \in 1..Len(s) : Stop(s, i) = s[i] /\ Stop(s, i) \in Keys
  BY <1>1 DEF Stop
<1>3. \A i \in 0..(Len(s) + 1) : i = 0 \/ i \in 1..Len(s) \/ i = Len(s) + 1
  BY <1>1
<1>4. \A i \in 0..(Len(s) + 1) : Stop(s, i) \in Cell
  BY <1>2, <1>3 DEF Cell, Sentinels
<1>5. \A i, j \in 0..(Len(s) + 1) : Stop(s, i) = Stop(s, j) => i = j
  BY <1>1, <1>2, <1>3 DEF Distinct
<1> QED
  BY <1>2, <1>4, <1>5

\* SetToSeqs(N) are the listings of N.
LEMMA Listings ==
    ASSUME NEW N \in SUBSET Keys, IsFiniteSet(N), NEW s
    PROVE  s \in SetToSeqs(N) <=> Lists(s, N)
<1> DEFINE n == Cardinality(N)
<1>1. n \in Nat
  BY FS_CardinalityType
<1>2. ASSUME s \in SetToSeqs(N) PROVE Lists(s, N)
  <2>1. s \in [1..n -> N] /\ \A i, j \in 1..n : i # j => s[i] # s[j]
    BY <1>2 DEF SetToSeqs
  <2>2. s \in Seq(Keys) /\ Len(s) = n
    BY <1>1, <2>1
  <2>3. s \in Injection(1..n, N)
    BY <2>1, Zenon DEF Injection, IsInjective
  <2>4. IsFiniteSet(1..n) /\ Cardinality(1..n) = n
    BY <1>1, FS_Interval
  <2>5. s \in Surjection(1..n, N)
    BY <2>3, <2>4, FS_Injection
  <2>6. \A k \in N : \E i \in 1..n : s[i] = k
    BY <2>5 DEF Surjection
  <2> QED
    BY <2>1, <2>2, <2>6 DEF Lists, Distinct
<1>3. ASSUME Lists(s, N) PROVE s \in SetToSeqs(N)
  <2>1. s \in [1..Len(s) -> N] /\ Len(s) \in Nat
    BY <1>3 DEF Lists
  <2>2. s \in Bijection(1..Len(s), N)
    BY <1>3, <2>1 DEF Lists, Distinct, Bijection, Injection, Surjection, IsInjective
  <2>3. \A m \in Nat : Cardinality(1..m) = m /\ IsFiniteSet(1..m)
    BY FS_Interval
  <2>4. Cardinality(N) = Cardinality(1..Len(s))
    BY <2>1, <2>2, <2>3, FS_Bijection DEF ExistsBijection
  <2>5. Len(s) = n
    BY <2>1, <2>3, <2>4
  <2> QED
    BY <1>3, <2>1, <2>5 DEF Lists, Distinct, SetToSeqs
<1> QED
  BY <1>2, <1>3

\* A listing is as long as the set.
LEMMA ListLength ==
    ASSUME NEW N \in SUBSET Keys, IsFiniteSet(N), NEW s, Lists(s, N)
    PROVE  Len(s) = Cardinality(N)
<1>1. s \in SetToSeqs(N)
  BY Listings
<1> QED
  BY <1>1, FS_CardinalityType DEF SetToSeqs

\* The list that leaves out s[p].
LEMMA Removed ==
    ASSUME NEW N, NEW s, Lists(s, N), NEW p \in 1..Len(s)
    PROVE  LET t == RemoveAt(s, p)
           IN  /\ Lists(t, N \ {s[p]})
               /\ Len(t) = Len(s) - 1
               /\ \A i \in 1..Len(t) : t[i] = IF i < p THEN s[i] ELSE s[i + 1]
<1> DEFINE t == RemoveAt(s, p)
<1>1. s \in Seq(Keys) /\ Len(s) \in Nat
  BY DEF Lists
<1>2. t \in Seq(Keys) /\ Len(t) = Len(s) - 1
      /\ \A i \in 1..Len(t) : t[i] = IF i < p THEN s[i] ELSE s[i + 1]
  <2> DEFINE a == SubSeq(s, 1, p - 1)
             b == SubSeq(s, p + 1, Len(s))
  <2>1. a \in Seq(Keys) /\ Len(a) = p - 1 /\ \A i \in 1..(p - 1) : a[i] = s[i]
    BY <1>1
  <2>2. /\ b \in Seq(Keys) /\ Len(b) = Len(s) - p
        /\ \A i \in 1..(Len(s) - p) : b[i] = s[p + i]
    BY <1>1
  <2>3. t = a \o b
    BY DEF RemoveAt
  <2> HIDE DEF a, b, t
  <2>4. /\ t \in Seq(Keys) /\ Len(t) = Len(a) + Len(b)
        /\ \A i \in 1..Len(t) : t[i] = IF i <= Len(a) THEN a[i] ELSE b[i - Len(a)]
    <3>1. /\ a \o b \in Seq(Keys) /\ Len(a \o b) = Len(a) + Len(b)
          /\ \A i \in 1..(Len(a) + Len(b)) :
               (a \o b)[i] = IF i <= Len(a) THEN a[i] ELSE b[i - Len(a)]
      BY <2>1, <2>2, ConcatProperties, Zenon
    <3> QED
      BY <2>3, <3>1
  <2>5. Len(t) = Len(s) - 1
    BY <1>1, <2>1, <2>2, <2>4
  <2>6. ASSUME NEW i \in 1..Len(t), i < p PROVE t[i] = s[i]
    BY <1>1, <2>1, <2>4, <2>5, <2>6
  <2>7. ASSUME NEW i \in 1..Len(t), ~(i < p) PROVE t[i] = s[i + 1]
    <3>1. i - (p - 1) \in 1..(Len(s) - p) /\ p + (i - (p - 1)) = i + 1
      BY <1>1, <2>5, <2>7
    <3> QED
      BY <1>1, <2>1, <2>2, <2>4, <2>7, <3>1
  <2> QED
    BY <2>4, <2>5, <2>6, <2>7
<1> HIDE DEF t
<1>3. Distinct(t)
  BY <1>1, <1>2 DEF Lists, Distinct
<1>4. ASSUME NEW k PROVE k \in N \ {s[p]} <=> \E i \in 1..Len(t) : t[i] = k
  <2>1. ASSUME k \in N \ {s[p]} PROVE \E i \in 1..Len(t) : t[i] = k
    <3>1. PICK j \in 1..Len(s) : s[j] = k
      BY <2>1 DEF Lists
    <3>2. j # p
      BY <2>1, <3>1
    <3>3. CASE j < p
      BY <1>1, <1>2, <3>1, <3>3
    <3>4. CASE j > p
      <4>1. j - 1 \in 1..Len(t) /\ t[j - 1] = k
        BY <1>1, <1>2, <3>1, <3>4
      <4> QED
        BY <4>1
    <3> QED
      BY <1>1, <3>1, <3>2, <3>3, <3>4
  <2>2. ASSUME NEW i \in 1..Len(t), t[i] = k PROVE k \in N \ {s[p]}
    <3>1. PICK j \in 1..Len(s) : j # p /\ s[j] = k
      BY <1>1, <1>2, <2>2
    <3> QED
      BY <3>1 DEF Lists, Distinct
  <2> QED
    BY <2>1, <2>2
<1>5. Lists(t, N \ {s[p]})
  BY <1>2, <1>3, <1>4 DEF Lists
<1> QED
  BY <1>2, <1>5 DEF t

\* The list with k in front.
LEMMA Prepended ==
    ASSUME NEW N, NEW s, Lists(s, N), NEW k \in Keys, k \notin N
    PROVE  LET t == <<k>> \o s
           IN  /\ Lists(t, N \cup {k})
               /\ Len(t) = Len(s) + 1
               /\ t[1] = k
               /\ \A i \in 1..Len(s) : t[i + 1] = s[i]
<1> DEFINE t == <<k>> \o s
<1>1. s \in Seq(Keys) /\ Len(s) \in Nat
  BY DEF Lists
<1>2. t \in Seq(Keys) /\ Len(t) = Len(s) + 1 /\ t[1] = k
      /\ \A i \in 1..Len(t) : i # 1 => t[i] = s[i - 1]
  BY <1>1
<1> HIDE DEF t
<1>3. \A i \in 1..Len(s) : t[i + 1] = s[i]
  BY <1>1, <1>2
<1>4. Distinct(t)
  <2>1. \A i \in 1..Len(s) : s[i] # k
    BY DEF Lists
  <2>2. \A i \in 1..Len(t) : i # 1 => i - 1 \in 1..Len(s)
    BY <1>1, <1>2
  <2>3. \A i, j \in 1..Len(s) : s[i] = s[j] => i = j
    BY DEF Lists, Distinct
  <2>4. \A i, j \in 1..Len(t) : t[i] = t[j] => i = j
    <3> SUFFICES ASSUME NEW i \in 1..Len(t), NEW j \in 1..Len(t), t[i] = t[j] PROVE i = j
      OBVIOUS
    <3>1. CASE i = 1 \/ j = 1
      BY <1>2, <2>1, <2>2, <3>1
    <3>2. CASE i # 1 /\ j # 1
      <4>1. i - 1 = j - 1
        BY <1>2, <2>2, <2>3, <3>2
      <4> QED
        BY <1>1, <1>2, <4>1
    <3> QED
      BY <3>1, <3>2
  <2> QED
    BY <2>4 DEF Distinct
<1>5. ASSUME NEW x PROVE x \in N \cup {k} <=> \E i \in 1..Len(t) : t[i] = x
  <2>1. ASSUME x \in N PROVE \E i \in 1..Len(t) : t[i] = x
    <3>1. PICK j \in 1..Len(s) : s[j] = x
      BY <2>1 DEF Lists
    <3>2. j + 1 \in 1..Len(t)
      BY <1>1, <1>2
    <3> QED
      BY <1>3, <3>1, <3>2
  <2>2. 1 \in 1..Len(t)
    BY <1>1, <1>2
  <2>3. ASSUME NEW i \in 1..Len(t), t[i] = x, i # 1 PROVE x \in N
    <3>1. i - 1 \in 1..Len(s)
      BY <1>1, <1>2, <2>3
    <3> QED
      BY <1>2, <2>3, <3>1 DEF Lists
  <2> QED
    BY <1>2, <2>1, <2>2, <2>3
<1> QED
  BY <1>2, <1>3, <1>4, <1>5 DEF t, Lists

-----------------------------------------------------------------------------
(* What the pointer operations do to a list.                               *)

\* push_front puts a key that is not in the list at its front.
LEMMA PushedFront ==
    ASSUME NEW l \in Links, NEW N, NEW s, Lists(s, N), Linked(l, s), NEW k \in Keys, k \notin N
    PROVE  push_front(l, k) \in Links /\ Linked(push_front(l, k), <<k>> \o s)
<1> DEFINE t == <<k>> \o s
           m == push_front(l, k)
           n == Len(s)
           first == Stop(s, 1)
<1>1. s \in Seq(Keys) /\ n \in Nat /\ Distinct(s)
  BY DEF Lists
<1>2. /\ Stop(s, 0) = head /\ Stop(s, n + 1) = tail
      /\ \A i \in 1..n : Stop(s, i) = s[i] /\ Stop(s, i) \in Keys
      /\ \A i \in 0..(n + 1) : Stop(s, i) \in Cell
      /\ \A i, j \in 0..(n + 1) : Stop(s, i) = Stop(s, j) => i = j
  BY <1>1, Stops
<1>3. /\ Lists(t, N \cup {k}) /\ Len(t) = n + 1 /\ t[1] = k
      /\ \A i \in 1..n : t[i + 1] = s[i]
  BY Prepended
<1>4. /\ Stop(t, 0) = head /\ Stop(t, 1) = k
      /\ \A i \in 1..(n + 1) : Stop(t, i + 1) = Stop(s, i)
  BY <1>1, <1>3 DEF Stop
<1>5. /\ k \in Cell /\ k # head /\ k # tail /\ head \in Cell
      /\ \A i \in 0..(n + 1) : Stop(s, i) # k
  <2>1. \A i \in 1..n : Stop(s, i) # k
    BY <1>2 DEF Lists
  <2>2. \A i \in 0..(n + 1) : i = 0 \/ i = n + 1 \/ i \in 1..n
    BY <1>1
  <2>3. k \in Cell /\ k # head /\ k # tail /\ head \in Cell
    BY CacheAssumption DEF Cell, Sentinels
  <2> QED
    BY <1>2, <2>1, <2>2, <2>3
<1>6. /\ l.next[head] = first
      /\ \A i \in 0..n : l.next[Stop(s, i)] = Stop(s, i + 1) /\ l.prev[Stop(s, i + 1)] = Stop(s, i)
  BY <1>1, <1>2 DEF Linked
<1>7. first \in Cell
  BY <1>1, <1>2
<1>8. /\ m = [next |-> [l.next EXCEPT ![k] = first, ![head] = k],
              prev |-> [l.prev EXCEPT ![k] = head, ![first] = k]]
  BY <1>6 DEF push_front
<1>9. /\ l.next \in [Cell -> Cell \cup {Nil}] /\ l.prev \in [Cell -> Cell \cup {Nil}]
  BY DEF Links
<1> HIDE DEF t, m, n, first
<1>10. /\ m \in Links
       /\ m.next[head] = k /\ m.next[k] = first
       /\ \A x \in Cell : x # head /\ x # k => m.next[x] = l.next[x]
       /\ m.prev[first] = k /\ (first # k => m.prev[k] = head)
       /\ \A x \in Cell : x # first /\ x # k => m.prev[x] = l.prev[x]
  BY <1>5, <1>7, <1>8, <1>9 DEF Links
<1>11. ASSUME NEW i \in 0..(n + 1)
       PROVE  m.next[Stop(t, i)] = Stop(t, i + 1) /\ m.prev[Stop(t, i + 1)] = Stop(t, i)
  <2>1. CASE i = 0
    BY <1>1, <1>4, <1>5, <1>10, <2>1 DEF first
  <2>2. CASE i = 1
    BY <1>1, <1>4, <1>10, <2>2 DEF first
  <2>3. CASE i > 1
    <3> DEFINE j == i - 1
    <3>1. j \in 1..n /\ j + 1 \in 1..(n + 1) /\ i = j + 1 /\ j \in 0..n /\ j # 0 /\ j + 1 # 1
          /\ j \in 0..(n + 1) /\ j + 1 \in 0..(n + 1) /\ j \in 1..(n + 1) /\ 1 \in 0..(n + 1)
          /\ 0 \in 0..(n + 1)
      BY <1>1, <2>3
    <3>2. Stop(t, i) = Stop(s, j) /\ Stop(t, i + 1) = Stop(s, j + 1)
      BY <1>4, <3>1
    <3>3. Stop(s, j) # head /\ Stop(s, j) # k /\ Stop(s, j + 1) # first /\ Stop(s, j + 1) # k
          /\ Stop(s, j) \in Cell /\ Stop(s, j + 1) \in Cell
      BY <1>2, <1>5, <3>1 DEF first
    <3> QED
      BY <1>6, <1>10, <3>1, <3>2, <3>3
  <2> QED
    BY <1>1, <2>1, <2>2, <2>3
<1>12. Linked(m, t)
  BY <1>3, <1>11 DEF Linked
<1> QED
  BY <1>10, <1>12 DEF m, t

\* unlink takes a key out and leaves the others in their order.
LEMMA Unlinked ==
    ASSUME NEW l \in Links, NEW N, NEW s, Lists(s, N), Linked(l, s), NEW p \in 1..Len(s)
    PROVE  unlink(l, s[p]) \in Links /\ Linked(unlink(l, s[p]), RemoveAt(s, p))
<1> DEFINE t == RemoveAt(s, p)
           m == unlink(l, s[p])
           n == Len(s)
           x == s[p]
           before == Stop(s, p - 1)
           after == Stop(s, p + 1)
<1>1. s \in Seq(Keys) /\ n \in Nat /\ Distinct(s)
  BY DEF Lists
<1>2. /\ Stop(s, 0) = head /\ Stop(s, n + 1) = tail
      /\ \A i \in 1..n : Stop(s, i) = s[i] /\ Stop(s, i) \in Keys
      /\ \A i \in 0..(n + 1) : Stop(s, i) \in Cell
      /\ \A i, j \in 0..(n + 1) : Stop(s, i) = Stop(s, j) => i = j
  BY <1>1, Stops
<1>3. /\ Len(t) = n - 1
      /\ \A i \in 1..Len(t) : t[i] = IF i < p THEN s[i] ELSE s[i + 1]
  BY Removed
<1> HIDE DEF t
<1>4. \A i \in 0..n : Stop(t, i) = IF i < p THEN Stop(s, i) ELSE Stop(s, i + 1)
  <2> SUFFICES ASSUME NEW i \in 0..n
               PROVE  Stop(t, i) = IF i < p THEN Stop(s, i) ELSE Stop(s, i + 1)
    OBVIOUS
  <2>1. CASE i = 0
    BY <1>1, <2>1 DEF Stop
  <2>2. CASE i = n
    BY <1>1, <1>3, <2>2 DEF Stop
  <2>3. CASE i \in 1..(n - 1)
    BY <1>1, <1>3, <2>3 DEF Stop
  <2> QED
    BY <1>1, <2>1, <2>2, <2>3
<1>5. \A i \in 0..n : l.next[Stop(s, i)] = Stop(s, i + 1) /\ l.prev[Stop(s, i + 1)] = Stop(s, i)
  BY DEF Linked
<1>6. x = Stop(s, p) /\ l.next[x] = after /\ l.prev[x] = before
      /\ x \in Cell /\ before \in Cell /\ after \in Cell
  <2>1. p \in 0..n /\ p - 1 \in 0..n /\ (p - 1) + 1 = p /\ p + 1 \in 0..(n + 1)
        /\ p - 1 \in 0..(n + 1) /\ p \in 0..(n + 1)
    BY <1>1
  <2> QED
    BY <1>2, <1>5, <2>1
<1>7. m = [next |-> [l.next EXCEPT ![before] = after, ![x] = Nil],
           prev |-> [l.prev EXCEPT ![after] = before, ![x] = Nil]]
  BY <1>6 DEF unlink
<1>8. /\ l.next \in [Cell -> Cell \cup {Nil}] /\ l.prev \in [Cell -> Cell \cup {Nil}]
  BY DEF Links
<1> HIDE DEF m, n, x, before, after
<1>9. /\ m \in Links
      /\ before # x => m.next[before] = after
      /\ \A y \in Cell : y # before /\ y # x => m.next[y] = l.next[y]
      /\ after # x => m.prev[after] = before
      /\ \A y \in Cell : y # after /\ y # x => m.prev[y] = l.prev[y]
  BY <1>6, <1>7, <1>8 DEF Links
<1>10. ASSUME NEW i \in 0..(n - 1)
       PROVE  m.next[Stop(t, i)] = Stop(t, i + 1) /\ m.prev[Stop(t, i + 1)] = Stop(t, i)
  <2> DEFINE j == IF i < p THEN i ELSE i + 1
  <2>0. p \in 1..n
    BY DEF n
  <2>1. CASE i = p - 1
    <3>1. Stop(t, i) = before /\ Stop(t, i + 1) = after
      BY <1>1, <1>4, <2>0, <2>1 DEF before, after
    <3>2. p - 1 \in 0..(n + 1) /\ p \in 0..(n + 1) /\ p + 1 \in 0..(n + 1)
      BY <1>1, <2>0
    <3>3. before # x /\ after # x
      BY <1>2, <1>6, <2>0, <3>2 DEF before, after
    <3> QED
      BY <1>9, <3>1, <3>3
  <2>2. CASE i # p - 1
    <3>1. Stop(t, i) = Stop(s, j) /\ Stop(t, i + 1) = Stop(s, j + 1)
      BY <1>1, <1>4, <2>0, <2>2
    <3>2. j \in 0..n /\ j + 1 \in 0..(n + 1) /\ j \in 0..(n + 1)
          /\ j # p /\ j # p - 1 /\ j + 1 # p /\ j + 1 # p + 1
          /\ p - 1 \in 0..(n + 1) /\ p \in 0..(n + 1) /\ p + 1 \in 0..(n + 1)
      BY <1>1, <2>0, <2>2
    <3> HIDE DEF j
    <3>3. /\ Stop(s, j) # x /\ Stop(s, j) # before
          /\ Stop(s, j + 1) # x /\ Stop(s, j + 1) # after
      BY <1>2, <1>6, <3>2 DEF before, after
    <3>4. Stop(s, j) \in Cell /\ Stop(s, j + 1) \in Cell
      BY <1>2, <3>2
    <3> QED
      BY <1>5, <1>9, <3>1, <3>2, <3>3, <3>4
  <2> QED
    BY <2>1, <2>2
<1>11. Linked(m, t)
  BY <1>3, <1>10 DEF Linked
<1> QED
  BY <1>9, <1>11 DEF m, t, x

\* move_to_front: unlink and push_front, or nothing when it is there already.
LEMMA MovedFront ==
    ASSUME NEW l \in Links, NEW N, NEW s, Lists(s, N), Linked(l, s), NEW p \in 1..Len(s)
    PROVE  LET t == <<s[p]>> \o RemoveAt(s, p)
           IN  /\ move_to_front(l, s[p]) \in Links
               /\ Linked(move_to_front(l, s[p]), t)
               /\ Lists(t, N)
               /\ Len(t) = Len(s)
<1> DEFINE k == s[p]
           u == RemoveAt(s, p)
           t == <<k>> \o u
           m == unlink(l, k)
<1>1. s \in Seq(Keys) /\ Len(s) \in Nat /\ Distinct(s) /\ k \in Keys /\ k \in N
  BY DEF Lists
<1>2. /\ Lists(u, N \ {k}) /\ Len(u) = Len(s) - 1
      /\ \A i \in 1..Len(u) : u[i] = IF i < p THEN s[i] ELSE s[i + 1]
  BY Removed
<1>3. m \in Links /\ Linked(m, u)
  BY Unlinked
<1> HIDE DEF k, u, m
<1>4. push_front(m, k) \in Links /\ Linked(push_front(m, k), t)
  BY <1>1, <1>2, <1>3, PushedFront
<1>5. /\ Lists(t, (N \ {k}) \cup {k}) /\ Len(t) = Len(u) + 1 /\ t[1] = k
      /\ \A i \in 1..Len(u) : t[i + 1] = u[i]
  BY <1>1, <1>2, Prepended
<1>6. (N \ {k}) \cup {k} = N
  BY <1>1
<1>7. CASE l.next[head] = k
  <2>1. Stop(s, 0) = head /\ Stop(s, 1) = s[1] /\ s[1] = k
    BY <1>1, <1>7 DEF Linked, Stop
  <2>2. p = 1
    BY <1>1, <2>1 DEF Distinct, k
  <2>3. t = s
    <3>1. \A i \in 1..Len(t) : i # 1 => i - 1 \in 1..Len(u) /\ (i - 1) + 1 = i
      BY <1>1, <1>2, <1>5
    <3>2. \A i \in 1..Len(t) : i # 1 => t[i] = u[i - 1]
      BY <1>5, <3>1
    <3>3. \A i \in 1..Len(t) : t[i] = s[i]
      BY <1>1, <1>2, <1>5, <2>1, <2>2, <3>1, <3>2
    <3>4. Len(t) = Len(s) /\ t \in Seq(Keys)
      BY <1>1, <1>2, <1>5 DEF Lists
    <3> QED
      BY <1>1, <3>3, <3>4, SeqEqual
  <2> QED
    BY <1>7, <2>3 DEF move_to_front, k, u
<1>8. CASE l.next[head] # k
  <2>1. move_to_front(l, k) = push_front(m, k)
    BY <1>8 DEF move_to_front, m
  <2>2. Lists(t, N) /\ Len(t) = Len(s)
    <3> HIDE DEF t
    <3>1. Len(t) = Len(s)
      BY <1>1, <1>2, <1>5
    <3>2. Lists(t, N)
      BY <1>5, <1>6, Zenon
    <3> QED
      BY <3>1, <3>2
  <2> QED
    BY <1>4, <2>1, <2>2 DEF k, u
<1> QED
  BY <1>7, <1>8

\* The pointers allow one order only.
LEMMA OneOrder ==
    ASSUME NEW l, NEW s \in Seq(Keys), NEW t \in Seq(Keys), Linked(l, s), Linked(l, t)
    PROVE  s = t
<1> USE CacheAssumption
<1>1. Len(s) \in Nat /\ Len(t) \in Nat
  OBVIOUS
<1> DEFINE Bad == {i \in Nat : i <= Len(s) + 1 /\ i <= Len(t) + 1 /\ Stop(s, i) # Stop(t, i)}
<1>2. Bad = {}
  <2> SUFFICES ASSUME Bad # {} PROVE FALSE
    OBVIOUS
  <2>1. PICK i \in Bad : \A j \in Bad : i <= j
    BY Least
  <2>2. i # 0
    BY <2>1 DEF Stop
  <2>3. i - 1 \in 0..Len(s) /\ i - 1 \in 0..Len(t) /\ (i - 1) + 1 = i /\ i - 1 \notin Bad
    BY <1>1, <2>1, <2>2
  <2>4. Stop(s, i - 1) = Stop(t, i - 1)
    BY <1>1, <2>1, <2>3
  <2>5. l.next[Stop(s, i - 1)] = Stop(s, i) /\ l.next[Stop(t, i - 1)] = Stop(t, i)
    BY <2>3 DEF Linked
  <2> QED
    BY <2>1, <2>4, <2>5
<1>3. \A i \in Nat : i <= Len(s) + 1 /\ i <= Len(t) + 1 => Stop(s, i) = Stop(t, i)
  BY <1>2
<1>4. Len(s) = Len(t)
  <2>1. ASSUME NEW a \in Seq(Keys), NEW b \in Seq(Keys), Len(a) < Len(b)
        PROVE  Stop(a, Len(a) + 1) # Stop(b, Len(a) + 1)
    BY <2>1 DEF Stop
  <2>2. CASE Len(s) < Len(t)
    BY <1>1, <1>3, <2>1, <2>2
  <2>3. CASE Len(t) < Len(s)
    BY <1>1, <1>3, <2>1, <2>3
  <2> QED
    BY <1>1, <2>2, <2>3
<1>5. \A i \in 1..Len(s) : s[i] = t[i]
  <2>1. \A i \in 1..Len(s) : Stop(s, i) = s[i] /\ Stop(t, i) = t[i]
    BY <1>1, <1>4 DEF Stop
  <2> QED
    BY <1>1, <1>3, <1>4, <2>1
<1> QED
  BY <1>4, <1>5, SeqEqual

-----------------------------------------------------------------------------
(* The invariant.                                                          *)

CacheTypeOK ==
    /\ capacity \in Nat
    /\ nodes \in SUBSET Keys /\ IsFiniteSet(nodes)
    /\ value \in [Keys -> Values \cup {Nothing}]
    /\ links \in Links
    /\ loading \in Seq(Keys)

InOrderNow(s) == Lists(s, nodes) /\ Linked(links, s)

CacheInv ==
    /\ CacheTypeOK
    /\ Cardinality(nodes) <= capacity
    /\ \E s : InOrderNow(s)

\* Linked pointers allow one listing of the keys, so that is the one chosen.
LEMMA ChosenOrder ==
    ASSUME NEW N \in SUBSET Keys, IsFiniteSet(N), NEW l, NEW s, Lists(s, N), Linked(l, s)
    PROVE  LET orders == {t \in SetToSeqs(N) : Linked(l, t)}
           IN  orders # {} /\ (CHOOSE t \in orders : TRUE) = s
<1> DEFINE orders == {t \in SetToSeqs(N) : Linked(l, t)}
           chosen == CHOOSE t \in orders : TRUE
<1>1. s \in orders
  BY Listings
<1>2. chosen \in orders
  BY <1>1
<1>3. Lists(chosen, N) /\ Linked(l, chosen)
  BY <1>2, Listings
<1> HIDE DEF chosen
<1>4. chosen = s
  BY <1>3, OneOrder DEF Lists
<1> QED
  BY <1>1, <1>4 DEF chosen

\* The one order of the list.
LEMMA TheOrder ==
    ASSUME CacheTypeOK, NEW s, InOrderNow(s)
    PROVE  Orders # {} /\ Recent = s
  BY ChosenOrder DEF CacheTypeOK, InOrderNow, Orders, Recent

\* Three disjuncts of CacheNext change the list; the operations they share are these.
LEMMA TouchStep ==
    ASSUME CacheInv, NEW k \in nodes, NEW s, InOrderNow(s), links' = move_to_front(links, k), nodes' = nodes
    PROVE  \E p \in 1..Len(s) :
             /\ s[p] = k
             /\ links' \in Links
             /\ InOrderNow(<<k>> \o RemoveAt(s, p))'
             /\ Len(<<k>> \o RemoveAt(s, p)) = Len(s)
<1>1. PICK p \in 1..Len(s) : s[p] = k
  BY DEF InOrderNow, Lists
<1>2. links \in Links
  BY DEF CacheInv, CacheTypeOK
<1> QED
  BY <1>1, <1>2, MovedFront DEF InOrderNow

\* Taking out the last entry.
LEMMA RemovedLast ==
    ASSUME NEW s \in Seq(Keys), s # <<>>
    PROVE  RemoveAt(s, Len(s)) = Front(s)
<1>1. Len(s) \in Nat /\ Len(s) # 0
  OBVIOUS
<1>2. SubSeq(s, Len(s) + 1, Len(s)) = <<>>
  BY <1>1
<1>3. SubSeq(s, 1, Len(s) - 1) \in Seq(Keys)
  BY <1>1
<1> QED
  BY <1>2, <1>3 DEF RemoveAt, Front

\* The four things put may do to the order s, and what it evicts.
Kept(s, t) == capacity = 0 /\ s = <<>> /\ t = s /\ value' = value /\ nodes' = nodes

Updated(s, t, k, v) ==
    /\ capacity # 0 /\ k \in nodes
    /\ \E p \in 1..Len(s) : s[p] = k /\ t = <<k>> \o RemoveAt(s, p)
    /\ value' = [value EXCEPT ![k] = v]
    /\ nodes' = nodes

Added(s, t, k, v) ==
    /\ capacity # 0 /\ k \notin nodes /\ Len(s) < capacity
    /\ t = <<k>> \o s
    /\ value' = [value EXCEPT ![k] = v]
    /\ nodes' = nodes \cup {k}

Replaced(s, t, k, v) ==
    /\ capacity # 0 /\ k \notin nodes /\ Len(s) = capacity
    /\ t = Front(<<k>> \o s)
    /\ value' = [value EXCEPT ![k] = v, ![s[Len(s)]] = Nothing]
    /\ nodes' = (nodes \cup {k}) \ {s[Len(s)]}

\* A put, or what a loader returns, changes the order of last use in one of four ways:
\* not at all without capacity, and by updating, adding, or replacing the oldest.
LEMMA StoreStep ==
    ASSUME CacheInv, NEW k \in Keys, NEW v \in Values, NEW s, InOrderNow(s), Store(k, v)
    PROVE  \E t :
             /\ InOrderNow(t)' /\ links' \in Links
             /\ \/ Kept(s, t) /\ Evicted(k) = k
                \/ Updated(s, t, k, v) /\ Evicted(k) = Nothing
                \/ Added(s, t, k, v) /\ Evicted(k) = Nothing
                \/ Replaced(s, t, k, v) /\ Evicted(k) = s[Len(s)]
<1>1. /\ capacity \in Nat /\ nodes \in SUBSET Keys /\ IsFiniteSet(nodes) /\ links \in Links
      /\ Cardinality(nodes) <= capacity /\ Lists(s, nodes) /\ Linked(links, s)
  BY DEF CacheInv, CacheTypeOK, InOrderNow
<1>2. s \in Seq(Keys) /\ Len(s) = Cardinality(nodes) /\ Len(s) \in Nat
  BY <1>1, ListLength DEF Lists
<1>3. CASE capacity = 0
  <2>1. UNCHANGED <<nodes, value, links>>
    BY <1>3 DEF Store
  <2>2. s = <<>>
    BY <1>1, <1>2, <1>3
  <2>3. Evicted(k) = k
    BY <1>3 DEF Evicted
  <2> QED
    BY <1>1, <1>3, <2>1, <2>2, <2>3 DEF InOrderNow, Kept
<1>4. CASE capacity # 0 /\ k \in nodes
  <2>1. value' = [value EXCEPT ![k] = v] /\ links' = move_to_front(links, k) /\ nodes' = nodes
    BY <1>4 DEF Store
  <2>2. PICK p \in 1..Len(s) : /\ s[p] = k /\ links' \in Links
                               /\ InOrderNow(<<k>> \o RemoveAt(s, p))'
    BY <1>4, <2>1, TouchStep
  <2>3. Evicted(k) = Nothing
    BY <1>4 DEF Evicted
  <2> QED
    BY <1>4, <2>1, <2>2, <2>3 DEF Updated
<1>5. CASE capacity # 0 /\ k \notin nodes
  <2> DEFINE u == <<k>> \o s
             pushed == push_front(links, k)
             victim == pushed.prev[tail]
  <2>1. pushed \in Links /\ Linked(pushed, u)
    BY <1>1, <1>5, PushedFront
  <2>2. /\ Lists(u, nodes \cup {k}) /\ Len(u) = Len(s) + 1 /\ u[1] = k
        /\ \A i \in 1..Len(s) : u[i + 1] = s[i]
    BY <1>1, <1>5, Prepended
  <2>3. CASE Cardinality(nodes) < capacity
    <3>1. nodes' = nodes \cup {k} /\ value' = [value EXCEPT ![k] = v] /\ links' = pushed
      BY <1>5, <2>3 DEF Store
    <3>2. Evicted(k) = Nothing
      BY <1>5, <2>3 DEF Evicted
    <3>3. InOrderNow(u)' /\ links' \in Links
      BY <2>1, <2>2, <3>1 DEF InOrderNow
    <3> QED
      BY <1>2, <1>5, <2>3, <3>1, <3>2, <3>3 DEF Added
  <2>4. CASE ~(Cardinality(nodes) < capacity)
    <3>1. /\ nodes' = (nodes \cup {k}) \ {victim}
          /\ value' = [value EXCEPT ![k] = v, ![victim] = Nothing]
          /\ links' = unlink(pushed, victim)
      BY <1>5, <2>4 DEF Store
    <3>2. Len(s) = capacity /\ Len(s) # 0
      BY <1>1, <1>2, <1>5, <2>4
    <3>3. u \in Seq(Keys) /\ u # <<>> /\ Len(u) \in 1..Len(u)
      BY <1>2, <2>2 DEF Lists
    <3>4. victim = u[Len(u)]
      BY <1>2, <2>1, <2>2 DEF Linked, Stop
    <3>5. u[Len(u)] = s[Len(s)]
      BY <1>2, <2>2, <3>2
    <3>6. Evicted(k) = s[Len(s)]
      BY <1>5, <2>4, <3>4, <3>5 DEF Evicted
    <3> HIDE DEF u, pushed, victim
    <3>7. links' \in Links /\ Linked(links', RemoveAt(u, Len(u)))
      BY <2>1, <2>2, <3>1, <3>3, <3>4, Unlinked
    <3>8. Lists(RemoveAt(u, Len(u)), nodes')
      BY <2>2, <3>1, <3>3, <3>4, Removed
    <3>9. RemoveAt(u, Len(u)) = Front(u)
      BY <3>3, RemovedLast
    <3>10. InOrderNow(Front(u))'
      BY <3>7, <3>8, <3>9 DEF InOrderNow
    <3> QED
      BY <1>5, <3>1, <3>2, <3>4, <3>5, <3>6, <3>7, <3>10 DEF Replaced, u
  <2> QED
    BY <2>3, <2>4
<1> QED
  BY <1>3, <1>4, <1>5

\* An order keeps the cache within its capacity, and the types, through a put.
LEMMA StoreKeeps ==
    ASSUME CacheInv, NEW k \in Keys, NEW v \in Values, Store(k, v), capacity' = capacity,
           loading' \in Seq(Keys)
    PROVE  CacheInv'
<1>1. PICK s : InOrderNow(s)
  BY DEF CacheInv
<1>2. PICK t : /\ InOrderNow(t)' /\ links' \in Links
               /\ \/ Kept(s, t) \/ Updated(s, t, k, v) \/ Added(s, t, k, v) \/ Replaced(s, t, k, v)
  BY <1>1, StoreStep
<1>3. /\ capacity \in Nat /\ nodes \in SUBSET Keys /\ IsFiniteSet(nodes)
      /\ Cardinality(nodes) <= capacity /\ value \in [Keys -> Values \cup {Nothing}]
      /\ Lists(s, nodes)
  BY <1>1 DEF CacheInv, CacheTypeOK, InOrderNow
<1>4. s \in Seq(Keys) /\ Len(s) = Cardinality(nodes) /\ Len(s) \in Nat
  BY <1>3, ListLength DEF Lists
<1>5. /\ nodes' \in SUBSET Keys /\ IsFiniteSet(nodes') /\ Cardinality(nodes') <= capacity
      /\ value' \in [Keys -> Values \cup {Nothing}]
  <2>1. CASE Kept(s, t)
    BY <1>3, <2>1 DEF Kept
  <2>2. CASE Updated(s, t, k, v)
    BY <1>3, <2>2 DEF Updated
  <2>3. CASE Added(s, t, k, v)
    <3>1. IsFiniteSet(nodes \cup {k}) /\ Cardinality(nodes \cup {k}) = Cardinality(nodes) + 1
      BY <1>3, <2>3, FS_AddElement DEF Added
    <3>2. nodes' = nodes \cup {k} /\ value' = [value EXCEPT ![k] = v] /\ Len(s) < capacity
      BY <2>3 DEF Added
    <3> QED
      BY <1>3, <1>4, <3>1, <3>2
  <2>4. CASE Replaced(s, t, k, v)
    <3> DEFINE victim == s[Len(s)]
    <3>1. IsFiniteSet(nodes \cup {k}) /\ Cardinality(nodes \cup {k}) = Cardinality(nodes) + 1
      BY <1>3, <2>4, FS_AddElement DEF Replaced
    <3>2. victim \in nodes
      BY <1>3, <1>4, <2>4 DEF Replaced, Lists
    <3>3. /\ IsFiniteSet((nodes \cup {k}) \ {victim})
          /\ Cardinality((nodes \cup {k}) \ {victim}) = Cardinality(nodes \cup {k}) - 1
      BY <3>1, <3>2, FS_RemoveElement
    <3>4. nodes' = (nodes \cup {k}) \ {victim}
          /\ value' = [value EXCEPT ![k] = v, ![victim] = Nothing]
      BY <2>4 DEF Replaced
    <3> HIDE DEF victim
    <3>5. value' \in [Keys -> Values \cup {Nothing}]
      BY <1>3, <3>4
    <3>6. nodes' \in SUBSET Keys
      BY <1>3, <3>4
    <3>7. Cardinality(nodes') = Cardinality(nodes) /\ IsFiniteSet(nodes')
      BY <1>3, <1>4, <3>1, <3>3, <3>4
    <3> QED
      BY <1>3, <3>5, <3>6, <3>7
  <2> QED
    BY <1>2, <2>1, <2>2, <2>3, <2>4
<1> QED
  BY <1>2, <1>3, <1>5 DEF CacheInv, CacheTypeOK

\* invalidate takes its key out of the order.
LEMMA InvalidateStep ==
    ASSUME CacheInv, NEW k \in Keys, NEW s, InOrderNow(s), invalidate(k)
    PROVE  /\ \E p \in 1..Len(s) : s[p] = k /\ InOrderNow(RemoveAt(s, p))'
           /\ CacheInv'
<1>1. /\ capacity \in Nat /\ nodes \in SUBSET Keys /\ IsFiniteSet(nodes) /\ links \in Links
      /\ Cardinality(nodes) <= capacity /\ value \in [Keys -> Values \cup {Nothing}]
      /\ Lists(s, nodes) /\ Linked(links, s) /\ loading \in Seq(Keys)
  BY DEF CacheInv, CacheTypeOK, InOrderNow
<1>2. /\ k \in nodes /\ nodes' = nodes \ {k} /\ value' = [value EXCEPT ![k] = Nothing]
      /\ links' = unlink(links, k) /\ capacity' = capacity /\ loading' = loading
  BY DEF invalidate
<1>3. PICK p \in 1..Len(s) : s[p] = k
  BY <1>1, <1>2 DEF Lists
<1>4. links' \in Links /\ Linked(links', RemoveAt(s, p))
  BY <1>1, <1>2, <1>3, Unlinked
<1>5. Lists(RemoveAt(s, p), nodes')
  BY <1>1, <1>2, <1>3, Removed
<1>6. IsFiniteSet(nodes') /\ Cardinality(nodes') = Cardinality(nodes) - 1
  BY <1>1, <1>2, FS_RemoveElement
<1>7. Cardinality(nodes') <= capacity'
  BY <1>1, <1>2, <1>6, FS_CardinalityType
<1>8. InOrderNow(RemoveAt(s, p))'
  BY <1>4, <1>5 DEF InOrderNow
<1>9. CacheTypeOK'
  BY <1>1, <1>2, <1>4, <1>6 DEF CacheTypeOK
<1> QED
  BY <1>3, <1>7, <1>8, <1>9 DEF CacheInv

\* The empty list, of a new cache and of one that was cleared.
LEMMA EmptyOrder ==
    /\ NoEntries \in Links /\ Linked(NoEntries, <<>>) /\ Lists(<<>>, {})
    /\ IsFiniteSet({}) /\ Cardinality({}) = 0
<1> USE CacheAssumption
<1>1. NoEntries \in Links
  BY DEF NoEntries, Links, Cell, Sentinels
<1>2. NoEntries.next[head] = tail /\ NoEntries.prev[tail] = head
  BY DEF NoEntries, Sentinels
<1>3. Stop(<<>>, 0) = head /\ Stop(<<>>, 1) = tail
  BY DEF Stop
<1>4. Linked(NoEntries, <<>>)
  BY <1>2, <1>3 DEF Linked
<1>5. Lists(<<>>, {})
  BY DEF Lists, Distinct
<1> QED
  BY <1>1, <1>4, <1>5, FS_EmptySet

\* An empty cache has the empty order.
LEMMA CacheInitInv ==
    CacheInit => CacheInv
<1> SUFFICES ASSUME CacheInit PROVE CacheInv
  OBVIOUS
<1>1. capacity \in Nat /\ nodes = {} /\ links = NoEntries /\ value = [k \in Keys |-> Nothing]
      /\ loading = <<>>
  BY CacheAssumption DEF CacheInit, CacheStart
<1> QED
  BY <1>1, EmptyOrder DEF CacheInv, CacheTypeOK, InOrderNow

\* Every operation keeps the list sound; a loader's put meets whatever list there is.
LEMMA CacheStep ==
    CacheInv /\ [CacheNext]_cache_vars => CacheInv'
<1> SUFFICES ASSUME CacheInv, [CacheNext]_cache_vars PROVE CacheInv'
  OBVIOUS
<1>0. /\ capacity \in Nat /\ nodes \in SUBSET Keys /\ IsFiniteSet(nodes) /\ links \in Links
      /\ Cardinality(nodes) <= capacity /\ value \in [Keys -> Values \cup {Nothing}]
      /\ loading \in Seq(Keys)
  BY DEF CacheInv, CacheTypeOK
<1>s. PICK s : InOrderNow(s)
  BY DEF CacheInv
<1>1. ASSUME NEW k \in Keys, get(k) PROVE CacheInv'
  <2>1. k \in nodes /\ links' = move_to_front(links, k) /\ UNCHANGED <<capacity, nodes, value, loading>>
    BY <1>1 DEF get, Touch
  <2>2. links' \in Links /\ \E t : InOrderNow(t)'
    BY <1>s, <2>1, TouchStep
  <2> QED
    BY <1>0, <2>1, <2>2 DEF CacheInv, CacheTypeOK
<1>2. ASSUME NEW k \in Keys, get_default(k) PROVE CacheInv'
  BY <1>0, <1>s, <1>2 DEF get_default, CacheInv, CacheTypeOK, InOrderNow
<1>3. ASSUME NEW k \in Keys, get_or_load(k) PROVE CacheInv'
  <2>1. UNCHANGED <<capacity, nodes, value, links>> /\ loading' \in Seq(Keys)
    BY <1>0, <1>3 DEF get_or_load
  <2> QED
    BY <1>0, <1>s, <2>1 DEF CacheInv, CacheTypeOK, InOrderNow
<1>4. ASSUME NEW k \in Keys, invalidate(k) PROVE CacheInv'
  BY <1>s, <1>4, InvalidateStep
<1>5. ASSUME NEW k \in Keys, NEW v \in Values, put(k, v) PROVE CacheInv'
  BY <1>0, <1>5, StoreKeeps DEF put
<1>6. ASSUME NEW v \in Values, loaded(v) PROVE CacheInv'
  <2>1. loading[1] \in Keys /\ loading' \in Seq(Keys)
    BY <1>0, <1>6 DEF loaded
  <2>2. Store(loading[1], v) /\ capacity' = capacity
    BY <1>6 DEF loaded
  <2>3. PICK k \in Keys : k = loading[1]
    BY <2>1
  <2> QED
    BY <2>1, <2>2, <2>3, StoreKeeps
<1>7. CASE clear
  <2>1. /\ nodes' = {} /\ value' = [k \in Keys |-> Nothing] /\ links' = NoEntries
        /\ capacity' = capacity /\ loading' = loading
    BY <1>7 DEF clear
  <2>2. /\ InOrderNow(<<>>)' /\ links' \in Links /\ IsFiniteSet(nodes') /\ Cardinality(nodes') = 0
        /\ value' \in [Keys -> Values \cup {Nothing}]
    BY <2>1, EmptyOrder DEF InOrderNow
  <2> QED
    BY <1>0, <2>1, <2>2 DEF CacheInv, CacheTypeOK
<1>8. CASE UNCHANGED cache_vars
  BY <1>0, <1>s, <1>8 DEF cache_vars, CacheInv, CacheTypeOK, InOrderNow
<1> QED
  BY <1>1, <1>2, <1>3, <1>4, <1>5, <1>6, <1>7, <1>8 DEF CacheNext

\* CacheInv is an invariant of the cache.
LEMMA CacheInvHolds ==
    CacheSpec => []CacheInv
  BY CacheInitInv, CacheStep, PTL DEF CacheSpec

\* An order that links both ways is all that the two walks of ListIsSound see.
LEMMA CacheInvIsSound ==
    CacheInv => ListIsSound
<1> SUFFICES ASSUME CacheInv PROVE ListIsSound
  OBVIOUS
<1>1. PICK s : InOrderNow(s)
  BY DEF CacheInv
<1> QED
  BY <1>1, TheOrder DEF CacheInv, ListIsSound

\* core/lru.py: the list of the LRU cache always reads the same from both ends, holds
\* each key of the dict once and never more than its capacity.
THEOREM CacheListIsSound ==
    CacheSpec => []ListIsSound
  BY CacheInvHolds, CacheInvIsSound, PTL

-----------------------------------------------------------------------------
(* The list is the order of last use.                                      *)

\* What Recency sees of the order s, when the values are w.
Shown(s, w) == [i \in 1..Len(s) |-> [key |-> s[i], value |-> w[s[i]]]]

Shows == [key : Keys, value : Values \cup {Nothing}]

\* What Recency sees is a list as long as the order.
LEMMA ShownSeq ==
    ASSUME NEW s \in Seq(Keys), NEW w \in [Keys -> Values \cup {Nothing}]
    PROVE  /\ Shown(s, w) \in Seq(Shows)
           /\ Len(Shown(s, w)) = Len(s)
           /\ \A i \in 1..Len(s) : Shown(s, w)[i] = [key |-> s[i], value |-> w[s[i]]]
<1>1. Len(s) \in Nat /\ \A i \in 1..Len(s) : s[i] \in Keys
  OBVIOUS
<1> QED
  BY <1>1 DEF Shown, Shows

\* An entry is at its key's place.
LEMMA PlaceOf ==
    ASSUME CacheInv, NEW s, InOrderNow(s), NEW k \in Keys
    PROVE  /\ LastUse!Holds(k) <=> k \in nodes
           /\ \A p \in 1..Len(s) : s[p] = k => LastUse!Place(k) = p
<1>1. Recent = s
  BY TheOrder DEF CacheInv
<1>2. s \in Seq(Keys) /\ Distinct(s) /\ Lists(s, nodes)
  BY DEF InOrderNow, Lists
<1> DEFINE e == Shown(s, value)
<1>3. /\ Len(e) = Len(s)
      /\ \A i \in 1..Len(s) : e[i].key = s[i]
  <2>1. value \in [Keys -> Values \cup {Nothing}]
    BY DEF CacheInv, CacheTypeOK
  <2> HIDE DEF e
  <2>2. Len(e) = Len(s) /\ \A i \in 1..Len(s) : e[i] = [key |-> s[i], value |-> value[s[i]]]
    BY <1>2, <2>1, ShownSeq DEF e
  <2>3. ASSUME NEW i \in 1..Len(s) PROVE e[i].key = s[i]
    <3>1. e[i] = [key |-> s[i], value |-> value[s[i]]]
      BY <2>2
    <3> QED
      BY <3>1
  <2> QED
    BY <2>2, <2>3
<1>4. /\ LastUse!Holds(k) <=> \E i \in 1..Len(e) : e[i].key = k
      /\ LastUse!Place(k) = CHOOSE i \in 1..Len(e) : e[i].key = k
  BY <1>1, Zenon DEF LastUse!Holds, LastUse!Place, Shown
<1> HIDE DEF e
<1>5. LastUse!Holds(k) <=> k \in nodes
  BY <1>2, <1>3, <1>4 DEF Lists
<1>6. ASSUME NEW p \in 1..Len(s), s[p] = k PROVE LastUse!Place(k) = p
  BY <1>2, <1>3, <1>4, <1>6 DEF Distinct
<1> QED
  BY <1>5, <1>6

\* Taking an entry out of the order takes it out of what Recency sees.
LEMMA ShownRemoved ==
    ASSUME NEW N, NEW s, Lists(s, N), NEW p \in 1..Len(s),
           NEW w \in [Keys -> Values \cup {Nothing}], NEW x \in [Keys -> Values \cup {Nothing}]
    PROVE  (\A k \in Keys : k # s[p] => x[k] = w[k])
             => Shown(RemoveAt(s, p), x) = RemoveAt(Shown(s, w), p)
<1> DEFINE t == RemoveAt(s, p)
           e == Shown(s, w)
           f == Shown(t, x)
           g == RemoveAt(e, p)
<1>1. s \in Seq(Keys) /\ Len(s) \in Nat /\ Distinct(s)
  BY DEF Lists
<1>2. /\ Lists(t, N \ {s[p]}) /\ Len(t) = Len(s) - 1
      /\ \A i \in 1..Len(t) : t[i] = IF i < p THEN s[i] ELSE s[i + 1]
  BY Removed
<1> HAVE \A k \in Keys : k # s[p] => x[k] = w[k]
<1>3. t \in Seq(Keys)
  BY <1>2 DEF Lists
<1>4. /\ e \in Seq(Shows) /\ Len(e) = Len(s)
      /\ \A i \in 1..Len(s) : e[i] = [key |-> s[i], value |-> w[s[i]]]
  BY <1>1, ShownSeq
<1>5. /\ f \in Seq(Shows) /\ Len(f) = Len(t)
      /\ \A i \in 1..Len(t) : f[i] = [key |-> t[i], value |-> x[t[i]]]
  BY <1>3, ShownSeq
<1> HIDE DEF t, e, f
<1>6. /\ g \in Seq(Shows) /\ Len(g) = Len(e) - 1
      /\ \A i \in 1..Len(g) : g[i] = IF i < p THEN e[i] ELSE e[i + 1]
  <2> DEFINE a == SubSeq(e, 1, p - 1)
             b == SubSeq(e, p + 1, Len(e))
  <2>1. a \in Seq(Shows) /\ Len(a) = p - 1 /\ \A i \in 1..(p - 1) : a[i] = e[i]
    BY <1>1, <1>4
  <2>2. /\ b \in Seq(Shows) /\ Len(b) = Len(e) - p
        /\ \A i \in 1..(Len(e) - p) : b[i] = e[p + i]
    BY <1>1, <1>4
  <2>3. g = a \o b
    BY DEF RemoveAt
  <2> HIDE DEF a, b, g
  <2>4. /\ a \o b \in Seq(Shows) /\ Len(a \o b) = Len(a) + Len(b)
        /\ \A i \in 1..(Len(a) + Len(b)) :
             (a \o b)[i] = IF i <= Len(a) THEN a[i] ELSE b[i - Len(a)]
    BY <2>1, <2>2, ConcatProperties, Zenon
  <2>5. Len(g) = Len(e) - 1 /\ Len(g) = Len(a) + Len(b)
    BY <1>1, <1>4, <2>1, <2>2, <2>3, <2>4
  <2>6. ASSUME NEW i \in 1..Len(g), i < p PROVE g[i] = e[i]
    BY <1>1, <1>4, <2>1, <2>3, <2>4, <2>5, <2>6
  <2>7. ASSUME NEW i \in 1..Len(g), ~(i < p) PROVE g[i] = e[i + 1]
    <3>1. i - (p - 1) \in 1..(Len(e) - p) /\ p + (i - (p - 1)) = i + 1
      BY <1>1, <1>4, <2>5, <2>7
    <3>2. g[i] = b[i - Len(a)]
      BY <1>1, <1>4, <2>1, <2>3, <2>4, <2>5, <2>7
    <3>3. b[i - (p - 1)] = e[p + (i - (p - 1))]
      BY <2>2, <3>1
    <3> QED
      BY <2>1, <3>1, <3>2, <3>3
  <2> QED
    BY <2>3, <2>4, <2>5, <2>6, <2>7
<1> HIDE DEF g
<1>7. Len(f) = Len(g)
  BY <1>1, <1>2, <1>4, <1>5, <1>6
<1>8. ASSUME NEW i \in 1..Len(f) PROVE f[i] = g[i]
  <2>1. PICK j \in 1..Len(s) : j # p /\ t[i] = s[j] /\ g[i] = e[j]
    <3>1. i \in 1..Len(t) /\ i \in 1..Len(g)
      BY <1>5, <1>7
    <3>2. CASE i < p
      <4>1. i \in 1..Len(s) /\ i # p /\ t[i] = s[i] /\ g[i] = e[i]
        BY <1>1, <1>2, <1>6, <3>1, <3>2
      <4> QED
        BY <4>1
    <3>3. CASE ~(i < p)
      <4>1. i + 1 \in 1..Len(s) /\ i + 1 # p /\ t[i] = s[i + 1] /\ g[i] = e[i + 1]
        BY <1>1, <1>2, <1>6, <3>1, <3>3
      <4> QED
        BY <4>1
    <3> QED
      BY <3>2, <3>3
  <2>2. s[j] # s[p] /\ s[j] \in Keys
    BY <1>1, <2>1 DEF Distinct
  <2>3. x[s[j]] = w[s[j]]
    BY <2>2
  <2>4. f[i] = [key |-> t[i], value |-> x[t[i]]] /\ e[j] = [key |-> s[j], value |-> w[s[j]]]
    BY <1>4, <1>5
  <2> QED
    BY <2>1, <2>3, <2>4
<1> QED
  BY <1>5, <1>6, <1>7, <1>8, SeqEqual DEF f, g, e, t

\* A key in front of the order is an entry in front of what Recency sees.
LEMMA ShownPrepended ==
    ASSUME NEW s \in Seq(Keys), NEW k \in Keys, NEW w \in [Keys -> Values \cup {Nothing}]
    PROVE  Shown(<<k>> \o s, w) = <<[key |-> k, value |-> w[k]]>> \o Shown(s, w)
<1> DEFINE t == <<k>> \o s
           e == Shown(s, w)
           f == Shown(t, w)
           g == <<[key |-> k, value |-> w[k]]>> \o e
<1>1. /\ t \in Seq(Keys) /\ Len(t) = Len(s) + 1 /\ Len(s) \in Nat
      /\ \A i \in 1..Len(t) : t[i] = IF i = 1 THEN k ELSE s[i - 1]
  OBVIOUS
<1>2. /\ e \in Seq(Shows) /\ Len(e) = Len(s)
      /\ \A i \in 1..Len(s) : e[i] = [key |-> s[i], value |-> w[s[i]]]
  BY ShownSeq
<1> HIDE DEF t, e
<1>3. /\ f \in Seq(Shows) /\ Len(f) = Len(t)
      /\ \A i \in 1..Len(t) : f[i] = [key |-> t[i], value |-> w[t[i]]]
  BY <1>1, ShownSeq
<1>4. [key |-> k, value |-> w[k]] \in Shows
  BY DEF Shows
<1>5. /\ g \in Seq(Shows) /\ Len(g) = Len(e) + 1
      /\ \A i \in 1..Len(g) : g[i] = IF i = 1 THEN [key |-> k, value |-> w[k]] ELSE e[i - 1]
  BY <1>2, <1>4
<1> HIDE DEF f, g
<1>7. Len(f) = Len(g)
  BY <1>1, <1>2, <1>3, <1>5
<1>6. ASSUME NEW i \in 1..Len(f) PROVE f[i] = g[i]
  <2>1. f[i] = [key |-> t[i], value |-> w[t[i]]]
    BY <1>3
  <2>2. CASE i = 1
    BY <1>1, <1>3, <1>5, <1>7, <2>1, <2>2
  <2>3. CASE i # 1
    <3>1. t[i] = s[i - 1] /\ g[i] = e[i - 1] /\ i - 1 \in 1..Len(s)
      BY <1>1, <1>2, <1>3, <1>5, <1>7, <2>3
    <3>2. e[i - 1] = [key |-> s[i - 1], value |-> w[s[i - 1]]]
      BY <1>2, <3>1
    <3> QED
      BY <2>1, <3>1, <3>2
  <2> QED
    BY <2>2, <2>3
<1> QED
  BY <1>3, <1>5, <1>6, <1>7, SeqEqual DEF f, g, t, e

\* Values of keys that are not in the order do not show.
LEMMA ShownSame ==
    ASSUME NEW s \in Seq(Keys), NEW w, NEW x, \A i \in 1..Len(s) : w[s[i]] = x[s[i]]
    PROVE  Shown(s, w) = Shown(s, x)
  BY DEF Shown

\* What Recency says of a key, in terms of the list.
LEMMA SeenByRecency ==
    ASSUME CacheInv, NEW s, InOrderNow(s), NEW k \in Keys
    PROVE  /\ LastUse!Holds(k) <=> k \in nodes
           /\ k \notin nodes => LastUse!Without(k) = Shown(s, value)
           /\ \A p \in 1..Len(s) : s[p] = k =>
                LastUse!Place(k) = p /\ LastUse!Without(k) = RemoveAt(Shown(s, value), p)
<1>1. Recent = s
  BY TheOrder DEF CacheInv
<1>2. /\ LastUse!Holds(k) <=> k \in nodes
      /\ \A p \in 1..Len(s) : s[p] = k => LastUse!Place(k) = p /\ k \in nodes
  BY PlaceOf DEF InOrderNow, Lists
<1>3. LastUse!Without(k) = IF LastUse!Holds(k) THEN RemoveAt(Shown(s, value), LastUse!Place(k))
                           ELSE Shown(s, value)
  BY <1>1, Zenon DEF LastUse!Without, LastUse!RemoveAt, RemoveAt, Shown
<1> QED
  BY <1>2, <1>3

\* put and Recency's Put leave the same entries and give up the same key.
LEMMA StoreShown ==
    ASSUME CacheInv, NEW k \in Keys, NEW v \in Values, NEW s, InOrderNow(s), NEW t,
           \/ Kept(s, t) /\ Evicted(k) = k
           \/ Updated(s, t, k, v) /\ Evicted(k) = Nothing
           \/ Added(s, t, k, v) /\ Evicted(k) = Nothing
           \/ Replaced(s, t, k, v) /\ Evicted(k) = s[Len(s)]
    PROVE  LET F == LastUse!Fronted(k, v)
           IN  /\ Shown(t, value') = IF Len(F) <= capacity THEN F ELSE SubSeq(F, 1, Len(F) - 1)
               /\ Evicted(k) = IF Len(F) <= capacity THEN Nothing ELSE F[Len(F)].key
<1> DEFINE F == LastUse!Fronted(k, v)
           e == Shown(s, value)
           w == [value EXCEPT ![k] = v]
           one == [key |-> k, value |-> v]
<1>1. /\ capacity \in Nat /\ nodes \in SUBSET Keys /\ IsFiniteSet(nodes)
      /\ Cardinality(nodes) <= capacity /\ value \in [Keys -> Values \cup {Nothing}]
      /\ Lists(s, nodes)
  BY DEF CacheInv, CacheTypeOK, InOrderNow
<1>2. s \in Seq(Keys) /\ Len(s) = Cardinality(nodes) /\ Len(s) \in Nat /\ Distinct(s)
  BY <1>1, ListLength DEF Lists
<1>3. F = <<one>> \o LastUse!Without(k)
  BY Zenon DEF LastUse!Fronted
<1>4. w \in [Keys -> Values \cup {Nothing}] /\ w[k] = v
      /\ \A x \in Keys : x # k => w[x] = value[x]
  BY <1>1
<1>5. /\ k \notin nodes => LastUse!Without(k) = e
      /\ \A p \in 1..Len(s) : s[p] = k => LastUse!Without(k) = RemoveAt(e, p)
  BY SeenByRecency
<1> HIDE DEF F, w, e
<1>6. ASSUME k \notin nodes PROVE F = Shown(<<k>> \o s, w)
  <2>1. \A i \in 1..Len(s) : s[i] \in Keys /\ s[i] # k
    BY <1>1, <1>2, <1>6 DEF Lists
  <2>2. \A i \in 1..Len(s) : value[s[i]] = w[s[i]]
    BY <1>4, <2>1
  <2>3. e = Shown(s, w)
    BY <1>2, <2>2, ShownSame DEF e
  <2>4. Shown(<<k>> \o s, w) = <<[key |-> k, value |-> w[k]]>> \o Shown(s, w)
    BY <1>2, <1>4, ShownPrepended
  <2> QED
    BY <1>3, <1>4, <1>5, <1>6, <2>3, <2>4
<1> DEFINE u == <<k>> \o s
<1>7. ASSUME k \notin nodes
      PROVE  /\ u \in Seq(Keys) /\ Len(u) = Len(s) + 1 /\ Len(F) = Len(s) + 1
             /\ Lists(u, nodes \cup {k}) /\ u[1] = k /\ \A i \in 1..Len(s) : u[i + 1] = s[i]
             /\ F[Len(F)].key = u[Len(u)]
  <2>1. /\ Lists(u, nodes \cup {k}) /\ Len(u) = Len(s) + 1 /\ u[1] = k
        /\ \A i \in 1..Len(s) : u[i + 1] = s[i]
    BY <1>1, <1>7, Prepended
  <2>2. u \in Seq(Keys)
    BY <2>1 DEF Lists
  <2> HIDE DEF u
  <2>3. /\ Len(Shown(u, w)) = Len(u)
        /\ \A i \in 1..Len(u) : Shown(u, w)[i] = [key |-> u[i], value |-> w[u[i]]]
    BY <1>4, <2>2, ShownSeq
  <2>4. F = Shown(u, w)
    BY <1>6, <1>7 DEF u
  <2>5. Len(u) \in 1..Len(u)
    BY <1>2, <2>1
  <2>6. F[Len(F)] = [key |-> u[Len(u)], value |-> w[u[Len(u)]]]
    BY <2>3, <2>4, <2>5
  <2>7. F[Len(F)].key = u[Len(u)]
    BY <2>6
  <2> QED
    BY <2>1, <2>2, <2>3, <2>4, <2>7 DEF u
<1> HIDE DEF u
<1>8. CASE Kept(s, t) /\ Evicted(k) = k
  <2>1. capacity = 0 /\ s = <<>> /\ Len(s) = 0 /\ t = <<>> /\ k \notin nodes
    BY <1>1, <1>2, <1>8 DEF Kept, Lists
  <2>2. u[Len(u)] = k /\ Len(F) = 1
    <3>1. k \notin nodes /\ Len(s) = 0
      BY <2>1
    <3>2. Len(u) = Len(s) + 1 /\ Len(F) = Len(s) + 1 /\ u[1] = k
      BY <1>7, <3>1, Zenon
    <3>3. Len(u) = 1 /\ Len(F) = 1
      BY <3>1, <3>2
    <3> QED
      BY <3>2, <3>3
  <2>3. F[Len(F)].key = k
    BY <1>7, <2>1, <2>2
  <2>4. Shown(t, value') = <<>>
    BY <2>1 DEF Shown
  <2>5. SubSeq(F, 1, Len(F) - 1) = <<>>
    BY <2>2
  <2>6. ~(Len(F) <= capacity)
    BY <2>1, <2>2
  <2> QED
    BY <1>8, <2>3, <2>4, <2>5, <2>6 DEF F
<1>9. CASE Updated(s, t, k, v) /\ Evicted(k) = Nothing
  <2>1. PICK p \in 1..Len(s) : s[p] = k /\ t = <<k>> \o RemoveAt(s, p)
    BY <1>9 DEF Updated
  <2>2. value' = w
    BY <1>9 DEF Updated, w
  <2> DEFINE q == RemoveAt(s, p)
  <2>3. Lists(q, nodes \ {s[p]}) /\ Len(q) = Len(s) - 1
    BY <1>1, Removed
  <2>4. Shown(q, w) = RemoveAt(e, p)
    BY <1>1, <1>4, <2>1, ShownRemoved DEF e
  <2> HIDE DEF q
  <2>5. q \in Seq(Keys)
    BY <2>3 DEF Lists
  <2>6. Shown(<<k>> \o q, w) = <<[key |-> k, value |-> w[k]]>> \o Shown(q, w)
    BY <1>4, <2>5, ShownPrepended
  <2>7. F = Shown(<<k>> \o q, w)
    BY <1>3, <1>4, <1>5, <2>1, <2>4, <2>6
  <2>8. Len(<<k>> \o q) = Len(s) /\ <<k>> \o q \in Seq(Keys)
    BY <1>2, <2>3, <2>5
  <2>9. Len(F) = Len(s)
    BY <1>4, <2>7, <2>8, ShownSeq
  <2> QED
    BY <1>1, <1>2, <1>9, <2>1, <2>2, <2>7, <2>9 DEF F, q
<1>10. CASE Added(s, t, k, v) /\ Evicted(k) = Nothing
  <2>1. k \notin nodes /\ value' = w /\ t = u /\ Len(s) < capacity
    BY <1>10 DEF Added, w, u
  <2>2. F = Shown(u, w) /\ Len(F) = Len(s) + 1
    BY <1>6, <1>7, <2>1 DEF u
  <2>3. Len(F) <= capacity
    BY <1>1, <1>2, <2>1, <2>2
  <2> QED
    BY <1>10, <2>1, <2>2, <2>3 DEF F
<1>11. CASE Replaced(s, t, k, v) /\ Evicted(k) = s[Len(s)]
  <2>1. /\ k \notin nodes /\ t = Front(u) /\ Len(s) = capacity /\ capacity # 0
        /\ value' = [value EXCEPT ![k] = v, ![s[Len(s)]] = Nothing]
    BY <1>11 DEF Replaced, u
  <2>2. F = Shown(u, w) /\ Len(F) = Len(u) /\ Len(u) = Len(s) + 1 /\ u \in Seq(Keys)
    BY <1>6, <1>7, <2>1 DEF u
  <2>3. u[Len(u)] = s[Len(s)] /\ s[Len(s)] \in Keys /\ Len(u) \in 1..Len(u)
    BY <1>2, <1>7, <2>1, <2>2
  <2>4. value' \in [Keys -> Values \cup {Nothing}] /\ \A x \in Keys : x # u[Len(u)] => value'[x] = w[x]
    BY <1>1, <2>1, <2>3 DEF w
  <2>5. PICK y \in [Keys -> Values \cup {Nothing}] : y = value'
    BY <2>4
  <2>6. Shown(RemoveAt(u, Len(u)), y) = RemoveAt(Shown(u, w), Len(u))
    <3>1. \A x \in Keys : x # u[Len(u)] => y[x] = w[x]
      BY <2>4, <2>5
    <3>2. Lists(u, nodes \cup {k})
      BY <1>7, <2>1
    <3> QED
      BY <1>4, <2>3, <3>1, <3>2, ShownRemoved
  <2>7. u # <<>>
    BY <1>2, <2>2
  <2>8. RemoveAt(u, Len(u)) = Front(u)
    BY <2>2, <2>7, RemovedLast
  <2>9. RemoveAt(F, Len(F)) = SubSeq(F, 1, Len(F) - 1)
    <3>1. F \in Seq(Shows) /\ Len(F) \in Nat
      BY <1>4, <2>2, ShownSeq
    <3>2. SubSeq(F, Len(F) + 1, Len(F)) = <<>> /\ SubSeq(F, 1, Len(F) - 1) \in Seq(Shows)
      BY <3>1
    <3> QED
      BY <3>2 DEF RemoveAt
  <2>10. Shown(t, value') = SubSeq(F, 1, Len(F) - 1)
    BY <2>1, <2>2, <2>5, <2>6, <2>8, <2>9
  <2>11. ~(Len(F) <= capacity) /\ F[Len(F)].key = s[Len(s)]
    BY <1>1, <1>2, <1>7, <2>1, <2>2, <2>3
  <2> QED
    BY <1>11, <2>10, <2>11 DEF F
<1> QED
  BY <1>8, <1>9, <1>10, <1>11

\* Every step of the cache is a step of Recency, or none.
LEMMA RecencyStep ==
    CacheInv /\ CacheInv' /\ [CacheNext]_cache_vars => [LastUse!Next]_(LastUse!vars)
<1> SUFFICES ASSUME CacheInv, CacheInv', [CacheNext]_cache_vars
             PROVE  [LastUse!Next]_(LastUse!vars)
  OBVIOUS
<1> DEFINE E == [i \in 1..Len(Recent) |-> [key |-> Recent[i], value |-> value[Recent[i]]]]
<1>s. PICK s : InOrderNow(s)
  BY DEF CacheInv
<1>0. /\ value \in [Keys -> Values \cup {Nothing}] /\ Lists(s, nodes) /\ capacity \in Nat
      /\ s \in Seq(Keys)
  BY <1>s DEF CacheInv, CacheTypeOK, InOrderNow, Lists
<1>e. E = Shown(s, value)
  BY <1>s, TheOrder DEF CacheInv, Shown
<1>n. ASSUME NEW t, InOrderNow(t)' PROVE E' = Shown(t, value')
  <2>1. Recent' = t
    BY <1>n, ChosenOrder DEF CacheInv, CacheTypeOK, InOrderNow, Orders, Recent
  <2> QED
    BY <2>1 DEF Shown
<1>v. E' = E /\ UNCHANGED <<capacity, returned>> => UNCHANGED LastUse!vars
  BY DEF LastUse!vars
<1>1. ASSUME NEW k \in Keys, get(k) PROVE LastUse!Next
  <2>1. /\ k \in nodes /\ links' = move_to_front(links, k) /\ UNCHANGED <<capacity, nodes, value>>
        /\ returned' = value[k]
    BY <1>1 DEF get, Touch
  <2>2. PICK p \in 1..Len(s) : s[p] = k /\ InOrderNow(<<k>> \o RemoveAt(s, p))'
    BY <1>s, <2>1, TouchStep
  <2> DEFINE q == RemoveAt(s, p)
  <2>3. E' = Shown(<<k>> \o q, value)
    BY <1>n, <2>1, <2>2
  <2>4. q \in Seq(Keys)
    BY <1>0, Removed DEF Lists
  <2>5. Shown(q, value) = RemoveAt(Shown(s, value), p)
    BY <1>0, ShownRemoved
  <2> HIDE DEF q
  <2>6. Shown(<<k>> \o q, value) = <<[key |-> k, value |-> value[k]]>> \o Shown(q, value)
    BY <1>0, <2>4, ShownPrepended
  <2>7. LastUse!Holds(k) /\ LastUse!Place(k) = p /\ LastUse!Without(k) = RemoveAt(Shown(s, value), p)
    BY <1>s, <2>1, <2>2, SeenByRecency
  <2>8. E[p].value = value[k]
    <3>1. E[p] = [key |-> s[p], value |-> value[s[p]]]
      BY <1>0, <1>e, ShownSeq
    <3> QED
      BY <2>2, <3>1
  <2> HIDE DEF E
  <2>9. LastUse!Hit(k)
    BY <2>1, <2>3, <2>5, <2>6, <2>7, <2>8, Zenon DEF LastUse!Hit, LastUse!Fronted, E
  <2> QED
    BY <2>1, <2>9 DEF LastUse!Next
<1>2. ASSUME NEW k \in Keys, get_default(k) \/ get_or_load(k) PROVE LastUse!Next
  <2>1. k \notin nodes /\ UNCHANGED <<capacity, nodes, value, links>> /\ returned' = Nothing
    BY <1>2 DEF get_default, get_or_load
  <2>2. E' = E
    BY <2>1 DEF Recent, Orders
  <2>3. ~LastUse!Holds(k)
    BY <1>s, <2>1, SeenByRecency
  <2>4. LastUse!Miss(k)
    BY <2>1, <2>2, <2>3, Zenon DEF LastUse!Miss
  <2> QED
    BY <2>1, <2>4 DEF LastUse!Next
<1>3. ASSUME NEW k \in Keys, invalidate(k) PROVE LastUse!Next
  <2>1. k \in nodes /\ value' = [value EXCEPT ![k] = Nothing] /\ returned' = k /\ capacity' = capacity
    BY <1>3 DEF invalidate
  <2>2. PICK p \in 1..Len(s) : s[p] = k /\ InOrderNow(RemoveAt(s, p))'
    BY <1>s, <1>3, InvalidateStep
  <2>3. E' = Shown(RemoveAt(s, p), value')
    BY <1>n, <2>2
  <2>4. PICK y \in [Keys -> Values \cup {Nothing}] : y = value' /\ \A x \in Keys : x # s[p] => y[x] = value[x]
    BY <1>0, <2>1, <2>2
  <2>5. Shown(RemoveAt(s, p), y) = RemoveAt(Shown(s, value), p)
    BY <1>0, <2>4, ShownRemoved
  <2>6. LastUse!Holds(k) /\ LastUse!Without(k) = RemoveAt(Shown(s, value), p)
    BY <1>s, <2>1, <2>2, SeenByRecency
  <2>7. LastUse!Drop(k)
    BY <2>1, <2>3, <2>4, <2>5, <2>6, Zenon DEF LastUse!Drop
  <2> QED
    BY <2>1, <2>7 DEF LastUse!Next
<1>4. ASSUME NEW k \in Keys, NEW v \in Values, Store(k, v)
      PROVE  LET F == LastUse!Fronted(k, v)
             IN  /\ E' = LastUse!Trimmed(F)
                 /\ Evicted(k) = IF LastUse!Fits(F) THEN Nothing ELSE LastUse!Last(F).key
  <2>1. PICK t : /\ InOrderNow(t)'
                 /\ \/ Kept(s, t) /\ Evicted(k) = k
                    \/ Updated(s, t, k, v) /\ Evicted(k) = Nothing
                    \/ Added(s, t, k, v) /\ Evicted(k) = Nothing
                    \/ Replaced(s, t, k, v) /\ Evicted(k) = s[Len(s)]
    BY <1>s, <1>4, StoreStep
  <2> DEFINE F == LastUse!Fronted(k, v)
  <2>2. /\ Shown(t, value') = IF Len(F) <= capacity THEN F ELSE SubSeq(F, 1, Len(F) - 1)
        /\ Evicted(k) = IF Len(F) <= capacity THEN Nothing ELSE F[Len(F)].key
    BY <1>s, <2>1, StoreShown
  <2>3. E' = Shown(t, value')
    BY <1>n, <2>1
  <2> HIDE DEF F, E
  <2> QED
    BY <2>2, <2>3, Zenon DEF LastUse!Trimmed, LastUse!Fits, LastUse!Front, LastUse!Last, F
<1>5. ASSUME NEW k \in Keys, NEW v \in Values, put(k, v) PROVE LastUse!Next
  <2>1. Store(k, v) /\ returned' = Evicted(k) /\ capacity' = capacity
    BY <1>5 DEF put
  <2>2. LastUse!Put(k, v)
    BY <1>4, <2>1, Zenon DEF LastUse!Put
  <2> QED
    BY <2>1, <2>2 DEF LastUse!Next
<1>6. ASSUME NEW v \in Values, loaded(v) PROVE LastUse!Next
  <2>1. PICK k \in Keys : k = loading[1]
    BY <1>6 DEF loaded, CacheInv, CacheTypeOK
  <2>2. Store(k, v) /\ returned' = v /\ capacity' = capacity
    BY <1>6, <2>1 DEF loaded
  <2>3. LastUse!Load(k, v)
    BY <1>4, <2>2, Zenon DEF LastUse!Load
  <2> QED
    BY <2>2, <2>3 DEF LastUse!Next
<1>7. CASE clear
  <2>1. /\ nodes' = {} /\ links' = NoEntries /\ returned' = Nothing /\ capacity' = capacity
    BY <1>7 DEF clear
  <2>2. E' = Shown(<<>>, value')
    BY <1>n, <2>1, EmptyOrder DEF InOrderNow
  <2>3. E' = <<>>
    BY <2>2 DEF Shown
  <2>4. LastUse!Clear
    BY <2>1, <2>3 DEF LastUse!Clear
  <2> QED
    BY <2>1, <2>4 DEF LastUse!Next
<1>8. CASE UNCHANGED cache_vars
  <2>1. E' = E /\ UNCHANGED <<capacity, returned>>
    BY <1>8 DEF cache_vars, Recent, Orders
  <2> QED
    BY <1>v, <2>1
<1> QED
  BY <1>1, <1>2, <1>3, <1>5, <1>6, <1>7, <1>8 DEF CacheNext

\* A new cache has no entries.
LEMMA RecencyInit ==
    CacheInit => LastUse!Init
<1> SUFFICES ASSUME CacheInit PROVE LastUse!Init
  OBVIOUS
<1>1. /\ capacity \in Nat /\ nodes = {} /\ links = NoEntries /\ returned = Nothing
  BY CacheAssumption DEF CacheInit, CacheStart
<1>2. Recent = <<>>
  BY <1>1, EmptyOrder, ChosenOrder DEF Recent, Orders
<1> QED
  BY <1>1, <1>2 DEF LastUse!Init

\* core/lru.py: LruCache implements Recency, for any keys, values and capacity and
\* with loaders that use the cache: the list is the order of last use, so what put
\* evicts is always the entry that was used least recently.
THEOREM CacheKeepsRecency ==
    CacheSpec => ImplementsRecency
<1>1. CacheSpec => []CacheInv
  BY CacheInvHolds
<1>2. CacheInit => LastUse!Init
  BY RecencyInit
<1>3. CacheInv /\ CacheInv' /\ [CacheNext]_cache_vars => [LastUse!Next]_(LastUse!vars)
  BY RecencyStep
<1> QED
  BY <1>1, <1>2, <1>3, PTL DEF CacheSpec, ImplementsRecency, LastUse!Spec

-----------------------------------------------------------------------------
(* Dag.                                                                    *)

\* s has the members of N, each once.
Enumerates(s, N) ==
    /\ s \in Seq(N)
    /\ Distinct(s)
    /\ \A k \in N : \E i \in 1..Len(s) : s[i] = k

\* SetToSeqs(N) are the enumerations of N.
LEMMA Enumerations ==
    ASSUME NEW N, IsFiniteSet(N), NEW s
    PROVE  s \in SetToSeqs(N) <=> Enumerates(s, N)
<1> DEFINE n == Cardinality(N)
<1>1. n \in Nat
  BY FS_CardinalityType
<1>2. ASSUME s \in SetToSeqs(N) PROVE Enumerates(s, N)
  <2>1. s \in [1..n -> N] /\ \A i, j \in 1..n : i # j => s[i] # s[j]
    BY <1>2 DEF SetToSeqs
  <2>2. s \in Seq(N) /\ Len(s) = n
    BY <1>1, <2>1
  <2>3. s \in Injection(1..n, N)
    BY <2>1, Zenon DEF Injection, IsInjective
  <2>4. IsFiniteSet(1..n) /\ Cardinality(1..n) = n
    BY <1>1, FS_Interval
  <2>5. s \in Surjection(1..n, N)
    BY <2>3, <2>4, FS_Injection
  <2>6. \A k \in N : \E i \in 1..n : s[i] = k
    BY <2>5 DEF Surjection
  <2> QED
    BY <2>1, <2>2, <2>6 DEF Enumerates, Distinct
<1>3. ASSUME Enumerates(s, N) PROVE s \in SetToSeqs(N)
  <2>1. s \in [1..Len(s) -> N] /\ Len(s) \in Nat
    BY <1>3 DEF Enumerates
  <2>2. s \in Bijection(1..Len(s), N)
    BY <1>3, <2>1 DEF Enumerates, Distinct, Bijection, Injection, Surjection, IsInjective
  <2>3. \A m \in Nat : Cardinality(1..m) = m /\ IsFiniteSet(1..m)
    BY FS_Interval
  <2>4. Cardinality(N) = Cardinality(1..Len(s))
    BY <2>1, <2>2, <2>3, FS_Bijection DEF ExistsBijection
  <2>5. Len(s) = n
    BY <2>1, <2>3, <2>4
  <2> QED
    BY <1>3, <2>1, <2>5 DEF Enumerates, Distinct, SetToSeqs
<1> QED
  BY <1>2, <1>3

\* A list is a list of its members, of which there are finitely many.
LEMMA ListMembers ==
    ASSUME NEW S, NEW s \in Seq(S)
    PROVE  /\ IsFiniteSet(ToSet(s)) /\ ToSet(s) \subseteq S /\ s \in Seq(ToSet(s))
           /\ \A x : x \in ToSet(s) <=> \E i \in 1..Len(s) : s[i] = x
           /\ \A x : Contains(s, x) <=> x \in ToSet(s)
           /\ Distinct(s) => Enumerates(s, ToSet(s)) /\ Cardinality(ToSet(s)) = Len(s)
<1>1. Len(s) \in Nat /\ DOMAIN s = 1..Len(s) /\ s \in [1..Len(s) -> S]
  OBVIOUS
<1>2. /\ ToSet(s) \subseteq S
      /\ \A x : x \in ToSet(s) <=> \E i \in 1..Len(s) : s[i] = x
      /\ \A x : Contains(s, x) <=> x \in ToSet(s)
  BY <1>1 DEF ToSet, Contains
<1>3. s \in [1..Len(s) -> ToSet(s)]
  BY <1>1, <1>2
<1>4. s \in Surjection(1..Len(s), ToSet(s))
  BY <1>2, <1>3 DEF Surjection
<1>5. \A m \in Nat : Cardinality(1..m) = m /\ IsFiniteSet(1..m)
  BY FS_Interval
<1>6. IsFiniteSet(ToSet(s))
  BY <1>1, <1>4, <1>5, FS_Surjection
<1>7. s \in Seq(ToSet(s))
  BY <1>1, <1>3
<1>8. ASSUME Distinct(s) PROVE Enumerates(s, ToSet(s)) /\ Cardinality(ToSet(s)) = Len(s)
  <2>1. Enumerates(s, ToSet(s))
    BY <1>2, <1>7, <1>8 DEF Enumerates
  <2>2. s \in Injection(1..Len(s), ToSet(s))
    BY <1>3, <1>8 DEF Injection, IsInjective, Distinct
  <2>3. Cardinality(ToSet(s)) = Cardinality(1..Len(s))
    BY <1>1, <1>4, <1>5, <2>2, FS_Surjection
  <2> QED
    BY <1>1, <1>5, <2>1, <2>3
<1> QED
  BY <1>2, <1>6, <1>7, <1>8

\* What an enumeration enumerates.
LEMMA EnumeratedSet ==
    ASSUME NEW N, NEW s, Enumerates(s, N)
    PROVE  ToSet(s) = N /\ s \in Seq(N) /\ Distinct(s) /\ IsFiniteSet(N) /\ Len(s) = Cardinality(N)
<1>1. s \in Seq(N) /\ Distinct(s)
  BY DEF Enumerates
<1>2. \A x : x \in ToSet(s) <=> \E i \in 1..Len(s) : s[i] = x
  BY <1>1, ListMembers
<1>3. ToSet(s) = N
  <2>1. \A i \in 1..Len(s) : s[i] \in N
    BY <1>1
  <2> QED
    BY <1>2, <2>1 DEF Enumerates
<1> QED
  BY <1>1, <1>3, ListMembers

-----------------------------------------------------------------------------
(* The invariants.                                                         *)

\* The keys the building loop has handled.
Handled(k) == {NodeOrder[i] : i \in 1..k}

Requires(n) == ToSet(dependencies[n])

GraphTypeOK ==
    /\ dependencies \in [Vertices -> ParentLists]
    /\ children \in [Vertices -> Seq(Vertices)]
    /\ parents \in [Vertices -> Seq(Vertices)]
    /\ line \in 0..Len(NodeOrder)
    /\ in_degree \in [Vertices -> Nat]
    /\ queue \in Seq(Vertices)
    /\ order \in Seq(Vertices)
    /\ colour \in [Vertices -> {"white", "grey", "black"}]
    /\ stack \in Seq([node : Vertices, index : Nat])
    /\ path \in Seq(Vertices)

\* The adjacency lists are those of the keys handled so far.
BuildInv ==
    /\ \A n \in Handled(line) :
         Requires(n) \subseteq Vertices /\ Enumerates(parents[n], Requires(n))
    /\ \A p, n \in Vertices :
         n \in ToSet(children[p]) <=> n \in Handled(line) /\ p \in Requires(n)
    /\ pc \notin {"building", "unknown_node", "cycle"} => line = Len(NodeOrder)

\* Kahn's algorithm: the counters count the parents that are not in the order yet,
\* and the nodes without any are those in the order and in the queue.
KahnInv ==
    pc \in {"ordering", "ordered"} =>
        /\ Distinct(order) /\ Distinct(queue) /\ ToSet(order) \cap ToSet(queue) = {}
        /\ \A n \in Vertices : in_degree[n] = Cardinality(Requires(n) \ ToSet(order))
        /\ \A n \in Vertices : in_degree[n] = 0 <=> n \in ToSet(order) \cup ToSet(queue)
        /\ \A j \in 1..Len(order) : \A p \in Requires(order[j]) :
             \E i \in 1..(j - 1) : order[i] = p

\* The order is empty before it is begun and complete when it is returned.
OrderedInv ==
    /\ pc = "building" => order = <<>>
    /\ pc = "ordered" => Len(order) = Len(NodeOrder)

\* The depth-first search: the grey nodes are those of the path, which follows edges
\* and is what the stack holds.
SearchInv ==
    /\ Distinct(path)
    /\ Len(stack) = Len(path)
    /\ \A i \in 1..Len(path) : stack[i].node = path[i]
    /\ \A n \in Vertices : colour[n] = "grey" <=> n \in ToSet(path)
    /\ \A i \in 1..(Len(path) - 1) : path[i] \in Requires(path[i + 1])

GraphInv == GraphTypeOK /\ BuildInv /\ KahnInv /\ OrderedInv /\ SearchInv /\ CycleIsReal

-----------------------------------------------------------------------------
(* Lists and the submission.                                               *)

\* list.append
LEMMA Appended ==
    ASSUME NEW S, NEW s \in Seq(S), NEW x \in S
    PROVE  /\ Append(s, x) \in Seq(S) /\ Len(Append(s, x)) = Len(s) + 1 /\ Len(s) \in Nat
           /\ Append(s, x)[Len(s) + 1] = x
           /\ \A i \in 1..Len(s) : Append(s, x)[i] = s[i]
           /\ ToSet(Append(s, x)) = ToSet(s) \cup {x}
           /\ Distinct(s) /\ x \notin ToSet(s) => Distinct(Append(s, x))
<1> DEFINE t == Append(s, x)
<1>1. /\ t \in Seq(S) /\ Len(t) = Len(s) + 1 /\ Len(s) \in Nat /\ t[Len(s) + 1] = x
      /\ \A i \in 1..Len(s) : t[i] = s[i]
  OBVIOUS
<1> HIDE DEF t
<1>2. /\ \A y : y \in ToSet(s) <=> \E i \in 1..Len(s) : s[i] = y
      /\ \A y : y \in ToSet(t) <=> \E i \in 1..Len(t) : t[i] = y
  BY <1>1, ListMembers
<1>3. \A i \in 1..Len(t) : i \in 1..Len(s) \/ i = Len(s) + 1
  BY <1>1
<1>4. 1..Len(s) \subseteq 1..Len(t) /\ Len(s) + 1 \in 1..Len(t)
  BY <1>1
<1>5. ToSet(t) = ToSet(s) \cup {x}
  BY <1>1, <1>2, <1>3, <1>4
<1>6. ASSUME Distinct(s), x \notin ToSet(s) PROVE Distinct(t)
  BY <1>1, <1>2, <1>3, <1>6 DEF Distinct
<1> QED
  BY <1>1, <1>5, <1>6 DEF t

\* list.extend with other members.
LEMMA Joined ==
    ASSUME NEW S, NEW s \in Seq(S), NEW t \in Seq(S)
    PROVE  /\ s \o t \in Seq(S)
           /\ ToSet(s \o t) = ToSet(s) \cup ToSet(t)
           /\ Distinct(s) /\ Distinct(t) /\ ToSet(s) \cap ToSet(t) = {} => Distinct(s \o t)
<1> DEFINE u == s \o t
<1>1. /\ u \in Seq(S) /\ Len(u) = Len(s) + Len(t) /\ Len(s) \in Nat /\ Len(t) \in Nat
      /\ \A i \in 1..(Len(s) + Len(t)) : u[i] = IF i <= Len(s) THEN s[i] ELSE t[i - Len(s)]
  BY ConcatProperties
<1> HIDE DEF u
<1>2. /\ \A y : y \in ToSet(s) <=> \E i \in 1..Len(s) : s[i] = y
      /\ \A y : y \in ToSet(t) <=> \E i \in 1..Len(t) : t[i] = y
      /\ \A y : y \in ToSet(u) <=> \E i \in 1..Len(u) : u[i] = y
  BY <1>1, ListMembers
<1>3. \A i \in 1..Len(u) : \/ i \in 1..Len(s) /\ u[i] = s[i]
                           \/ i - Len(s) \in 1..Len(t) /\ u[i] = t[i - Len(s)] /\ i > Len(s)
  BY <1>1
<1>4. \A i \in 1..Len(s) : i \in 1..Len(u) /\ u[i] = s[i]
  BY <1>1
<1>5. \A i \in 1..Len(t) : i + Len(s) \in 1..Len(u) /\ u[i + Len(s)] = t[i]
  BY <1>1
<1>6. ToSet(u) = ToSet(s) \cup ToSet(t)
  <2>1. ASSUME NEW y \in ToSet(u) PROVE y \in ToSet(s) \cup ToSet(t)
    BY <1>2, <1>3
  <2>2. ASSUME NEW y \in ToSet(s) PROVE y \in ToSet(u)
    BY <1>2, <1>4
  <2>3. ASSUME NEW y \in ToSet(t) PROVE y \in ToSet(u)
    BY <1>2, <1>5
  <2> QED
    BY <2>1, <2>2, <2>3
<1>7. ASSUME Distinct(s), Distinct(t), ToSet(s) \cap ToSet(t) = {} PROVE Distinct(u)
  <2> SUFFICES ASSUME NEW i \in 1..Len(u), NEW j \in 1..Len(u), u[i] = u[j] PROVE i = j
    BY DEF Distinct
  <2>1. i \in 1..Len(s) => u[i] \in ToSet(s) /\ u[i] = s[i]
    BY <1>2, <1>4
  <2>2. j \in 1..Len(s) => u[j] \in ToSet(s) /\ u[j] = s[j]
    BY <1>2, <1>4
  <2>3. i \notin 1..Len(s) => u[i] \in ToSet(t) /\ u[i] = t[i - Len(s)] /\ i - Len(s) \in 1..Len(t)
    BY <1>2, <1>3
  <2>4. j \notin 1..Len(s) => u[j] \in ToSet(t) /\ u[j] = t[j - Len(s)] /\ j - Len(s) \in 1..Len(t)
    BY <1>2, <1>3
  <2>5. i \in 1..Len(s) <=> j \in 1..Len(s)
    BY <1>7, <2>1, <2>2, <2>3, <2>4
  <2>6. CASE i \in 1..Len(s)
    BY <1>7, <2>1, <2>2, <2>5, <2>6 DEF Distinct
  <2>7. CASE i \notin 1..Len(s)
    <3>1. i - Len(s) = j - Len(s)
      BY <1>7, <2>3, <2>4, <2>5, <2>7 DEF Distinct
    <3> QED
      BY <1>1, <3>1
  <2> QED
    BY <2>6, <2>7
<1> QED
  BY <1>1, <1>6, <1>7 DEF u

\* A dependency list and the set of its members.
LEMMA Submitted ==
    ASSUME dependencies \in [Vertices -> ParentLists], NEW n \in Vertices
    PROVE  /\ dependencies[n] \in Seq(Requires(n)) /\ IsFiniteSet(Requires(n))
           /\ \A p : Edge(p, n) <=> p \in Requires(n)
           /\ \A p : Contains(dependencies[n], p) <=> p \in Requires(n)
           /\ \A p : p \in Requires(n) <=> \E i \in 1..Len(dependencies[n]) : dependencies[n][i] = p
<1>1. dependencies[n] \in Seq(Requires(n))
  BY SubmissionAssumption DEF Requires
<1> DEFINE l == dependencies[n]
<1>2. /\ IsFiniteSet(ToSet(l))
      /\ \A p : p \in ToSet(l) <=> \E i \in 1..Len(l) : l[i] = p
      /\ \A p : Contains(l, p) <=> p \in ToSet(l)
  BY <1>1, ListMembers
<1> QED
  BY <1>1, <1>2 DEF Requires, Edge

\* add_edge takes every parent, or refuses one for what it is.
LEMMA FirstBadIs ==
    ASSUME dependencies \in [Vertices -> ParentLists], NEW n \in Vertices
    PROVE  /\ FirstBad(n) = 0 => Requires(n) \subseteq Vertices /\ n \notin Requires(n)
           /\ FirstBad(n) # 0 => /\ FirstBad(n) \in 1..Len(dependencies[n])
                                 /\ \/ dependencies[n][FirstBad(n)] \notin Vertices
                                    \/ dependencies[n][FirstBad(n)] = n
<1> DEFINE l == dependencies[n]
           bad == {i \in 1..Len(l) : l[i] \notin Vertices \/ l[i] = n}
<1>1. \A p : p \in Requires(n) <=> \E i \in 1..Len(l) : l[i] = p
  BY Submitted
<1>2. Len(l) \in Nat
  BY Submitted
<1>3. FirstBad(n) = IF bad = {} THEN 0 ELSE CHOOSE i \in bad : \A j \in bad : i <= j
  BY DEF FirstBad
<1>4. CASE bad = {}
  BY <1>1, <1>3, <1>4
<1>5. CASE bad # {}
  <2>1. bad \subseteq Nat
    BY <1>2
  <2>2. \E i \in bad : \A j \in bad : i <= j
    BY <1>5, <2>1, Least
  <2>3. FirstBad(n) \in bad
    BY <1>3, <1>5, <2>2
  <2> QED
    BY <1>2, <2>3
<1> QED
  BY <1>4, <1>5

\* The keys of the mapping, each at one place.
LEMMA KeysOf ==
    /\ Len(NodeOrder) \in Nat /\ IsFiniteSet(Vertices) /\ Cardinality(Vertices) = Len(NodeOrder)
    /\ Handled(Len(NodeOrder)) = Vertices /\ Handled(0) = {}
    /\ \A k \in 0..Len(NodeOrder) : Handled(k) \subseteq Vertices
    /\ \A k \in 0..(Len(NodeOrder) - 1) :
         /\ NodeOrder[k + 1] \in Vertices /\ NodeOrder[k + 1] \notin Handled(k)
         /\ Handled(k + 1) = Handled(k) \cup {NodeOrder[k + 1]}
<1>1. NodeOrder \in Seq(Vertices) /\ Distinct(NodeOrder)
  BY SubmissionAssumption DEF Distinct
<1>2. Len(NodeOrder) \in Nat /\ \A i \in 1..Len(NodeOrder) : NodeOrder[i] \in Vertices
  BY <1>1
<1>3. /\ IsFiniteSet(Vertices) /\ Cardinality(Vertices) = Len(NodeOrder)
      /\ \A x : x \in Vertices <=> \E i \in 1..Len(NodeOrder) : NodeOrder[i] = x
  BY <1>1, ListMembers DEF Vertices
<1>4. Handled(Len(NodeOrder)) = Vertices /\ Handled(0) = {}
  BY <1>2, <1>3 DEF Handled
<1>5. \A k \in 0..Len(NodeOrder) : Handled(k) \subseteq Vertices
  BY <1>2 DEF Handled
<1>6. ASSUME NEW k \in 0..(Len(NodeOrder) - 1)
      PROVE  /\ NodeOrder[k + 1] \in Vertices /\ NodeOrder[k + 1] \notin Handled(k)
             /\ Handled(k + 1) = Handled(k) \cup {NodeOrder[k + 1]}
  <2>1. k + 1 \in 1..Len(NodeOrder) /\ \A i \in 1..k : i \in 1..Len(NodeOrder) /\ i # k + 1
        /\ i \in 1..(k + 1)
    BY <1>2
  <2>2. \A i \in 1..(k + 1) : i \in 1..k \/ i = k + 1
    BY <1>2
  <2>3. k + 1 \in 1..(k + 1)
    BY <1>2
  <2> QED
    BY <1>1, <1>2, <2>1, <2>2, <2>3 DEF Handled, Distinct
<1> QED
  BY <1>2, <1>3, <1>4, <1>5, <1>6

-----------------------------------------------------------------------------
(* from_dependencies.                                                      *)

\* Before the call nothing is built.
LEMMA GraphInitInv ==
    GraphInit => GraphInv
<1> SUFFICES ASSUME GraphInit PROVE GraphInv
  OBVIOUS
<1> USE DEF GraphInit, GraphStart
<1>1. GraphTypeOK
  BY KeysOf DEF GraphTypeOK
<1>2. ToSet(<<>>) = {} /\ Distinct(<<>>)
  BY DEF ToSet, Distinct
<1>3. BuildInv
  BY <1>2, KeysOf DEF BuildInv
<1>4. SearchInv
  BY <1>2 DEF SearchInv
<1> QED
  BY <1>1, <1>3, <1>4 DEF GraphInv, KahnInv, OrderedInv, CycleIsReal

\* An iteration of from_dependencies records a task's edges in both directions.
LEMMA AddEdges ==
    ASSUME GraphInv, add_edges
    PROVE  GraphInv'
<1>0. GraphTypeOK /\ BuildInv /\ SearchInv /\ OrderedInv
  BY DEF GraphInv
<1>1. /\ pc = "building" /\ pc' = pc /\ line < Len(NodeOrder) /\ line' = line + 1
      /\ FirstBad(Node) = 0 /\ UNCHANGED <<dependencies, in_degree, queue, order, colour, stack, path, cycle>>
      /\ children' = [n \in Vertices |-> IF Contains(dependencies[Node], n)
                                        THEN Append(children[n], Node) ELSE children[n]]
  BY DEF add_edges, kahn, dfs
<1>2. PICK ps \in DistinctParents(Node) : parents' = [parents EXCEPT ![Node] = ps]
  BY DEF add_edges
<1>3. /\ line \in 0..(Len(NodeOrder) - 1) /\ Len(NodeOrder) \in Nat /\ line + 1 \in 0..Len(NodeOrder)
      /\ dependencies \in [Vertices -> ParentLists]
  BY <1>0, <1>1, KeysOf DEF GraphTypeOK
<1>4. /\ Node \in Vertices /\ Node \notin Handled(line)
      /\ Handled(line') = Handled(line) \cup {Node}
  BY <1>1, <1>3, KeysOf DEF Node
<1>5. /\ Requires(Node) \subseteq Vertices /\ IsFiniteSet(Requires(Node))
      /\ \A p : Contains(dependencies[Node], p) <=> p \in Requires(Node)
  BY <1>1, <1>3, <1>4, FirstBadIs, Submitted
<1>6. Enumerates(ps, Requires(Node))
  <2>1. ps \in SetToSeqs(Requires(Node))
    BY <1>2 DEF DistinctParents, InOrder, Requires
  <2> QED
    BY <1>5, <2>1, Enumerations
<1>7. ps \in Seq(Vertices)
  <2>1. ps \in Seq(Requires(Node))
    BY <1>6 DEF Enumerates
  <2> QED
    BY <1>5, <2>1
<1> HIDE DEF Node
<1>8. ASSUME NEW p \in Vertices
      PROVE  /\ children'[p] \in Seq(Vertices)
             /\ ToSet(children'[p]) = IF p \in Requires(Node) THEN ToSet(children[p]) \cup {Node}
                                     ELSE ToSet(children[p])
  <2>1. children[p] \in Seq(Vertices)
    BY <1>0 DEF GraphTypeOK
  <2>2. CASE p \in Requires(Node)
    <3>1. children'[p] = Append(children[p], Node)
      BY <1>1, <1>5, <2>2
    <3> QED
      BY <1>4, <2>1, <2>2, <3>1, Appended
  <2>3. CASE p \notin Requires(Node)
    BY <1>1, <1>5, <2>1, <2>3
  <2> QED
    BY <2>2, <2>3
<1>9. GraphTypeOK'
  <2>1. children' \in [Vertices -> Seq(Vertices)]
    BY <1>1, <1>8
  <2>2. parents' \in [Vertices -> Seq(Vertices)]
    BY <1>0, <1>2, <1>4, <1>7 DEF GraphTypeOK
  <2> QED
    BY <1>0, <1>1, <1>3, <2>1, <2>2 DEF GraphTypeOK
<1>10. \A n : Requires(n)' = Requires(n)
  BY <1>1 DEF Requires
<1>11. BuildInv'
  <2>1. ASSUME NEW n \in Handled(line')
        PROVE  Requires(n) \subseteq Vertices /\ Enumerates(parents'[n], Requires(n))
    <3>1. CASE n = Node
      BY <1>0, <1>2, <1>4, <1>5, <1>6, <3>1 DEF GraphTypeOK
    <3>2. CASE n # Node
      <4>1. n \in Handled(line) /\ parents'[n] = parents[n]
        <5>1. n \in Handled(line)
          BY <1>4, <3>2
        <5>2. n \in Vertices
          BY <1>0, <5>1, KeysOf DEF GraphTypeOK
        <5> QED
          BY <1>0, <1>2, <3>2, <5>1, <5>2 DEF GraphTypeOK
      <4> QED
        BY <1>0, <4>1 DEF BuildInv
    <3> QED
      BY <3>1, <3>2
  <2>2. ASSUME NEW p \in Vertices, NEW n \in Vertices
        PROVE  n \in ToSet(children'[p]) <=> n \in Handled(line') /\ p \in Requires(n)
    <3>1. n \in ToSet(children[p]) <=> n \in Handled(line) /\ p \in Requires(n)
      BY <1>0 DEF BuildInv
    <3> QED
      BY <1>4, <1>8, <3>1
  <2> QED
    BY <1>1, <1>10, <2>1, <2>2 DEF BuildInv
<1>12. SearchInv'
  BY <1>0, <1>1, <1>10 DEF SearchInv
<1> QED
  BY <1>0, <1>1, <1>9, <1>11, <1>12 DEF GraphInv, KahnInv, OrderedInv, CycleIsReal

\* The CycleError of add_edge names a task that depends on itself.
LEMMA AddEdgeRejected ==
    ASSUME GraphInv, add_edge_rejected
    PROVE  GraphInv'
<1>0. GraphTypeOK /\ BuildInv /\ SearchInv /\ OrderedInv
  BY DEF GraphInv
<1>1. /\ pc = "building" /\ line < Len(NodeOrder) /\ FirstBad(Node) # 0
      /\ UNCHANGED <<dependencies, children, parents, line, in_degree, queue, order, colour, stack, path>>
      /\ \/ pc' = "unknown_node"
         \/ /\ dependencies[Node][FirstBad(Node)] \in Vertices
            /\ pc' = "cycle" /\ cycle' = <<Node, Node>>
  BY DEF add_edge_rejected, graph, kahn, dfs
<1>2. GraphTypeOK' /\ SearchInv' /\ BuildInv'
  BY <1>0, <1>1 DEF GraphTypeOK, SearchInv, BuildInv, Requires
<1>3. CycleIsReal'
  <2> SUFFICES ASSUME pc' = "cycle" PROVE CycleIsReal'
    BY DEF CycleIsReal
  <2>1. dependencies[Node][FirstBad(Node)] \in Vertices /\ cycle' = <<Node, Node>>
    BY <1>1
  <2>2. line \in 0..(Len(NodeOrder) - 1) /\ dependencies \in [Vertices -> ParentLists]
    BY <1>0, <1>1, KeysOf DEF GraphTypeOK
  <2>3. Node \in Vertices
    BY <2>2, KeysOf DEF Node
  <2>4. FirstBad(Node) \in 1..Len(dependencies[Node]) /\ dependencies[Node][FirstBad(Node)] = Node
    BY <1>1, <2>1, <2>2, <2>3, FirstBadIs
  <2>5. Edge(Node, Node)
    BY <2>4 DEF Edge, Contains
  <2> HIDE DEF Node
  <2> QED
    BY <1>1, <2>1, <2>5 DEF CycleIsReal, Edge
<1> QED
  BY <1>1, <1>2, <1>3 DEF GraphInv, KahnInv, OrderedInv

-----------------------------------------------------------------------------
(* topological_order.                                                      *)

\* The part of the invariant that the later loops leave alone.
LEMMA GraphStays ==
    ASSUME GraphInv, UNCHANGED <<dependencies, children, parents, line>>,
           pc' \in {"building", "unknown_node", "cycle"} \/ line = Len(NodeOrder)
    PROVE  BuildInv'
  BY DEF GraphInv, BuildInv, Requires

\* When the loop has handled every key, the graph is the submission's.
LEMMA BuiltGraph ==
    ASSUME GraphTypeOK, BuildInv, line = Len(NodeOrder)
    PROVE  /\ \A n \in Vertices : /\ Requires(n) \subseteq Vertices /\ IsFiniteSet(Requires(n))
                                  /\ Len(parents[n]) = Cardinality(Requires(n))
           /\ \A p, n \in Vertices : n \in ToSet(children[p]) <=> p \in Requires(n)
<1>1. Handled(line) = Vertices
  BY KeysOf
<1>2. \A n \in Vertices : Requires(n) \subseteq Vertices /\ Enumerates(parents[n], Requires(n))
  BY <1>1 DEF BuildInv
<1>3. \A n \in Vertices : IsFiniteSet(Requires(n)) /\ Len(parents[n]) = Cardinality(Requires(n))
  BY <1>2, EnumeratedSet
<1> QED
  BY <1>1, <1>2, <1>3 DEF BuildInv

\* The queue of topological_order starts with the tasks that depend on none.
LEMMA StartOrder ==
    ASSUME GraphInv, start_order
    PROVE  GraphInv'
<1>0. GraphTypeOK /\ BuildInv /\ SearchInv /\ OrderedInv
  BY DEF GraphInv
<1> DEFINE Free == {n \in Vertices : in_degrees[n] = 0}
<1>1. /\ pc = "building" /\ line = Len(NodeOrder) /\ in_degree' = in_degrees
      /\ queue' \in InOrder(NodeOrder, Free) /\ pc' = "ordering"
      /\ UNCHANGED <<dependencies, children, parents, line, order, colour, stack, path, cycle>>
  BY DEF start_order, graph, dfs
<1>2. order = <<>> /\ ToSet(order) = {} /\ Distinct(order)
  BY <1>0, <1>1 DEF OrderedInv, ToSet, Distinct
<1>3. \A n \in Vertices : /\ Requires(n) \subseteq Vertices /\ IsFiniteSet(Requires(n))
                          /\ Len(parents[n]) = Cardinality(Requires(n))
                          /\ Len(parents[n]) \in Nat
  BY <1>0, <1>1, BuiltGraph DEF GraphTypeOK
<1>4. in_degrees \in [Vertices -> Nat] /\ \A n \in Vertices : in_degrees[n] = Cardinality(Requires(n))
  BY <1>3 DEF in_degrees
<1>5. Free \subseteq Vertices /\ IsFiniteSet(Free)
  BY KeysOf, FS_Subset
<1>6. queue' \in SetToSeqs(Free)
  BY <1>1 DEF InOrder
<1>7. Enumerates(queue', Free)
  BY <1>5, <1>6, Enumerations
<1> HIDE DEF Free
<1>8. ToSet(queue') = Free /\ Distinct(queue') /\ queue' \in Seq(Free)
  BY <1>7, EnumeratedSet
<1>9. queue' \in Seq(Vertices)
  BY <1>5, <1>8
<1>10. GraphTypeOK'
  BY <1>0, <1>1, <1>4, <1>9 DEF GraphTypeOK
<1>11. BuildInv' /\ SearchInv'
  BY <1>0, <1>1, GraphStays DEF SearchInv, Requires
<1>12. KahnInv'
  <2>1. /\ Distinct(order') /\ Distinct(queue') /\ ToSet(order') \cap ToSet(queue') = {}
        /\ \A j \in 1..Len(order') : FALSE
    BY <1>1, <1>2, <1>8
  <2>2. \A n \in Vertices : in_degree'[n] = Cardinality(Requires(n) \ ToSet(order'))
    <3>1. \A n \in Vertices : Requires(n) \ ToSet(order') = Requires(n)
      BY <1>1, <1>2
    <3> QED
      BY <1>1, <1>4, <3>1
  <2>3. \A n \in Vertices : in_degree'[n] = 0 <=> n \in ToSet(order') \cup ToSet(queue')
    BY <1>1, <1>2, <1>8 DEF Free
  <2>4. \A n : Requires(n)' = Requires(n)
    BY <1>1 DEF Requires
  <2> QED
    BY <2>1, <2>2, <2>3, <2>4 DEF KahnInv
<1> QED
  BY <1>1, <1>10, <1>11, <1>12 DEF GraphInv, OrderedInv, CycleIsReal

\* One node leaves the queue for the order, and the children that waited for it alone
\* enter the queue.
LEMMA OrderNext ==
    ASSUME GraphInv, order_next
    PROVE  GraphInv'
<1> DEFINE node == Head(queue)
           done == ToSet(order)
           rest == Tail(queue)
<1>0. GraphTypeOK /\ BuildInv /\ SearchInv /\ OrderedInv
  BY DEF GraphInv
<1>1. /\ pc = "ordering" /\ queue # <<>> /\ order' = Append(order, node) /\ pc' = pc
      /\ in_degree' = [n \in Vertices |-> IF Contains(children[node], n) THEN in_degree[n] - 1
                                         ELSE in_degree[n]]
      /\ UNCHANGED <<dependencies, children, parents, line, colour, stack, path, cycle>>
  BY DEF order_next, graph, dfs
<1>2. PICK free \in NewlyFree(node) : queue' = rest \o free
  BY DEF order_next
<1>3. /\ queue \in Seq(Vertices) /\ order \in Seq(Vertices) /\ in_degree \in [Vertices -> Nat]
      /\ children \in [Vertices -> Seq(Vertices)]
      /\ Distinct(order) /\ Distinct(queue) /\ done \cap ToSet(queue) = {}
      /\ \A n \in Vertices : in_degree[n] = Cardinality(Requires(n) \ done)
      /\ \A n \in Vertices : in_degree[n] = 0 <=> n \in done \cup ToSet(queue)
      /\ \A j \in 1..Len(order) : \A p \in Requires(order[j]) : \E i \in 1..(j - 1) : order[i] = p
  BY <1>0, <1>1 DEF GraphInv, GraphTypeOK, KahnInv
<1>4. /\ \A n \in Vertices : Requires(n) \subseteq Vertices /\ IsFiniteSet(Requires(n))
      /\ \A p, n \in Vertices : n \in ToSet(children[p]) <=> p \in Requires(n)
      /\ line = Len(NodeOrder)
  <2>1. line = Len(NodeOrder)
    BY <1>0, <1>1 DEF BuildInv
  <2> QED
    BY <1>0, <2>1, BuiltGraph
<1>5. /\ node \in Vertices /\ rest \in Seq(Vertices) /\ Distinct(rest)
      /\ node \notin ToSet(rest) /\ ToSet(queue) = ToSet(rest) \cup {node}
  <2>1. /\ Len(queue) \in Nat /\ Len(queue) >= 1 /\ node = queue[1] /\ rest \in Seq(Vertices)
        /\ Len(rest) = Len(queue) - 1 /\ \A i \in 1..Len(rest) : rest[i] = queue[i + 1]
    BY <1>1, <1>3
  <2> HIDE DEF rest, node
  <2>2. /\ \A x : x \in ToSet(queue) <=> \E i \in 1..Len(queue) : queue[i] = x
        /\ \A x : x \in ToSet(rest) <=> \E i \in 1..Len(rest) : rest[i] = x
    <3>1. queue \in Seq(Vertices) /\ rest \in Seq(Vertices)
      BY <1>3, <2>1
    <3> QED
      BY <3>1, ListMembers
  <2>d. \A i, j \in 1..Len(queue) : queue[i] = queue[j] => i = j
    BY <1>3 DEF Distinct
  <2>3. \A i \in 1..Len(rest) : i + 1 \in 1..Len(queue) /\ i + 1 # 1
    BY <2>1
  <2>4. \A i \in 1..Len(queue) : i # 1 => i - 1 \in 1..Len(rest) /\ (i - 1) + 1 = i
    BY <2>1
  <2>5. 1 \in 1..Len(queue)
    BY <2>1
  <2>6. Distinct(rest)
    <3> SUFFICES ASSUME NEW i \in 1..Len(rest), NEW j \in 1..Len(rest), rest[i] = rest[j]
                 PROVE  i = j
      BY DEF Distinct
    <3>1. i + 1 = j + 1
      BY <2>1, <2>3, <2>d
    <3> QED
      BY <2>1, <3>1
  <2>7. node \notin ToSet(rest)
    BY <2>1, <2>2, <2>3, <2>5, <2>d
  <2>8. \A x : x \in ToSet(queue) <=> x \in ToSet(rest) \/ x = node
    <3>1. ASSUME NEW i \in 1..Len(queue), i # 1 PROVE queue[i] \in ToSet(rest)
      BY <2>1, <2>2, <2>4, <3>1
    <3>2. ASSUME NEW i \in 1..Len(rest) PROVE rest[i] \in ToSet(queue)
      BY <2>1, <2>2, <2>3
    <3>3. node \in ToSet(queue)
      BY <2>1, <2>2, <2>5
    <3> QED
      BY <2>1, <2>2, <3>1, <3>2, <3>3
  <2>9. node \in Vertices
    BY <1>3, <2>1
  <2> QED
    BY <2>1, <2>6, <2>7, <2>8, <2>9
<1> HIDE DEF node, rest
<1>6. \A n \in Vertices : Contains(children[node], n) <=> node \in Requires(n)
  <2>1. children[node] \in Seq(Vertices)
    BY <1>3, <1>5
  <2> QED
    BY <1>4, <1>5, <2>1, ListMembers
<1> DEFINE Freed == {c \in ToSet(children[node]) : in_degree[c] = 1}
<1>7. Enumerates(free, Freed) /\ Freed \subseteq Vertices
  <2>1. children[node] \in Seq(Vertices)
    BY <1>3, <1>5
  <2>2. IsFiniteSet(ToSet(children[node])) /\ ToSet(children[node]) \subseteq Vertices
    BY <2>1, ListMembers
  <2>3. IsFiniteSet(Freed)
    BY <2>2, FS_Subset
  <2>4. free \in SetToSeqs(Freed)
    BY <1>2 DEF NewlyFree, InOrder
  <2> QED
    BY <2>2, <2>3, <2>4, Enumerations
<1>8. \A n \in Vertices : n \in Freed <=> node \in Requires(n) /\ in_degree[n] = 1
  BY <1>4, <1>5, <1>7
<1> HIDE DEF Freed
<1>9. ToSet(free) = Freed /\ Distinct(free) /\ free \in Seq(Freed)
  BY <1>7, EnumeratedSet
<1>10. free \in Seq(Vertices)
  BY <1>7, <1>9
<1>11. Freed \cap ToSet(queue) = {} /\ Freed \cap done = {}
  BY <1>3, <1>7, <1>8
<1>12. \A n : Requires(n)' = Requires(n)
  BY <1>1 DEF Requires
<1>13. /\ order' \in Seq(Vertices) /\ Len(order') = Len(order) + 1 /\ Len(order) \in Nat
       /\ order'[Len(order) + 1] = node /\ \A i \in 1..Len(order) : order'[i] = order[i]
       /\ ToSet(order') = done \cup {node} /\ Distinct(order')
  <2>1. node \notin done /\ order \in Seq(Vertices) /\ Distinct(order)
    BY <1>3, <1>5
  <2> QED
    BY <1>1, <1>5, <2>1, Appended
<1>14. /\ queue' \in Seq(Vertices) /\ ToSet(queue') = ToSet(rest) \cup Freed
       /\ Distinct(queue')
  <2>1. ToSet(rest) \cap ToSet(free) = {}
    BY <1>5, <1>9, <1>11
  <2> QED
    BY <1>2, <1>5, <1>9, <1>10, <2>1, Joined
<1>15. \A n \in Vertices : in_degree'[n] = Cardinality(Requires(n) \ ToSet(order'))
  <2> SUFFICES ASSUME NEW n \in Vertices
               PROVE  in_degree'[n] = Cardinality(Requires(n) \ ToSet(order'))
    OBVIOUS
  <2>1. Requires(n) \ ToSet(order') = (Requires(n) \ done) \ {node}
    BY <1>13
  <2>2. IsFiniteSet(Requires(n) \ done)
    BY <1>4, FS_Difference
  <2>3. node \in Requires(n) \ done <=> node \in Requires(n)
    BY <1>3, <1>5
  <2>4. Cardinality((Requires(n) \ done) \ {node})
          = IF node \in Requires(n) THEN in_degree[n] - 1 ELSE in_degree[n]
    <3> DEFINE left == Requires(n) \ done
    <3>1. in_degree[n] = Cardinality(left)
      BY <1>3
    <3> HIDE DEF left
    <3>2. Cardinality(left \ {node}) = IF node \in left THEN Cardinality(left) - 1
                                      ELSE Cardinality(left)
      BY <2>2, FS_RemoveElement DEF left
    <3> QED
      BY <2>3, <3>1, <3>2 DEF left
  <2> QED
    BY <1>1, <1>6, <2>1, <2>4
<1>16. in_degree' \in [Vertices -> Nat]
  <2>1. \A n \in Vertices : in_degree'[n] \in Nat
    <3> SUFFICES ASSUME NEW n \in Vertices PROVE in_degree'[n] \in Nat
      OBVIOUS
    <3>1. IsFiniteSet(Requires(n) \ ToSet(order'))
      BY <1>4, FS_Difference
    <3> QED
      BY <1>15, <3>1, FS_CardinalityType
  <2> QED
    BY <1>1, <2>1
<1>17. \A n \in Vertices : in_degree'[n] = 0 <=> n \in ToSet(order') \cup ToSet(queue')
  <2> SUFFICES ASSUME NEW n \in Vertices
               PROVE  in_degree'[n] = 0 <=> n \in ToSet(order') \cup ToSet(queue')
    OBVIOUS
  <2>1. n \in ToSet(order') \cup ToSet(queue') <=> in_degree[n] = 0 \/ n \in Freed
    BY <1>3, <1>5, <1>13, <1>14
  <2>2. in_degree'[n] = IF node \in Requires(n) THEN in_degree[n] - 1 ELSE in_degree[n]
    BY <1>1, <1>6
  <2>3. in_degree[n] = 0 => node \notin Requires(n)
    <3>1. ASSUME in_degree[n] = 0 PROVE Requires(n) \ done = {}
      <4>1. IsFiniteSet(Requires(n) \ done) /\ Cardinality(Requires(n) \ done) = 0
        BY <1>3, <1>4, <3>1, FS_Difference
      <4> QED
        BY <4>1, FS_EmptySet
    <3> QED
      BY <1>3, <1>5, <3>1
  <2>4. in_degree[n] \in Nat
    BY <1>3
  <2> QED
    BY <1>8, <2>1, <2>2, <2>3, <2>4
<1>18. ASSUME NEW j \in 1..Len(order'), NEW p \in Requires(order'[j])
       PROVE  \E i \in 1..(j - 1) : order'[i] = p
  <2>1. CASE j \in 1..Len(order)
    <3>1. order'[j] = order[j]
      BY <1>13, <2>1
    <3>2. PICK i \in 1..(j - 1) : order[i] = p
      BY <1>3, <2>1, <3>1
    <3>3. i \in 1..Len(order)
      BY <1>13, <2>1
    <3> QED
      BY <1>13, <3>2, <3>3
  <2>2. CASE j = Len(order) + 1
    <3>1. p \in Requires(node) /\ node \in Vertices
      BY <1>5, <1>13, <2>2
    <3>2. in_degree[node] = 0
      BY <1>3, <1>5
    <3>3. IsFiniteSet(Requires(node) \ done) /\ Cardinality(Requires(node) \ done) = 0
      BY <1>3, <1>4, <1>5, <3>2, FS_Difference
    <3>4. Requires(node) \ done = {}
      BY <3>3, FS_EmptySet
    <3>5. p \in done
      BY <3>1, <3>4
    <3>6. PICK i \in 1..Len(order) : order[i] = p
      BY <1>3, <3>5, ListMembers
    <3>7. i \in 1..(j - 1)
      BY <1>13, <2>2
    <3> QED
      BY <1>13, <3>6, <3>7
  <2> QED
    BY <1>13, <2>1, <2>2
<1>19. ToSet(order') \cap ToSet(queue') = {}
  BY <1>3, <1>5, <1>11, <1>13, <1>14
<1>20. KahnInv'
  BY <1>12, <1>13, <1>14, <1>15, <1>17, <1>18, <1>19 DEF KahnInv
<1>21. GraphTypeOK'
  BY <1>0, <1>1, <1>13, <1>14, <1>16 DEF GraphTypeOK
<1>22. BuildInv' /\ SearchInv'
  BY <1>0, <1>1, <1>4, <1>12, GraphStays DEF SearchInv
<1> QED
  BY <1>1, <1>20, <1>21, <1>22 DEF GraphInv, OrderedInv, CycleIsReal

\* The loop ends with all tasks ordered, or goes on to the search.
LEMMA EndOrder ==
    ASSUME GraphInv, end_order
    PROVE  GraphInv'
<1>1. /\ pc = "ordering" /\ pc' = IF AllOrdered THEN "ordered" ELSE "searching"
      /\ UNCHANGED <<dependencies, children, parents, line, in_degree, queue, order, colour, stack,
                     path, cycle>>
  BY DEF end_order, graph, kahn, dfs
<1>2. GraphTypeOK' /\ KahnInv' /\ SearchInv' /\ BuildInv'
  BY <1>1 DEF GraphInv, GraphTypeOK, KahnInv, SearchInv, BuildInv, Requires
<1>3. OrderedInv'
  BY <1>1 DEF OrderedInv, AllOrdered
<1> QED
  BY <1>1, <1>2, <1>3 DEF GraphInv, CycleIsReal

-----------------------------------------------------------------------------
(* _find_cycle.                                                            *)

\* list.index, of a member.
LEMMA FirstOf ==
    ASSUME NEW S, NEW s \in Seq(S), NEW x, NEW i \in 1..Len(s), s[i] = x
    PROVE  First(s, x) \in 1..Len(s) /\ s[First(s, x)] = x
<1> DEFINE at == {j \in 1..Len(s) : s[j] = x}
<1>1. at \subseteq Nat /\ at # {}
  OBVIOUS
<1>2. PICK j \in at : \A k \in at : j <= k
  BY <1>1, Least
<1>3. \A k \in 1..(j - 1) : k \in 1..Len(s) /\ ~(j <= k)
  BY <1>2
<1>4. j \in 1..Len(s) /\ s[j] = x /\ \A k \in 1..(j - 1) : s[k] # x
  BY <1>2, <1>3
<1> QED
  BY <1>4 DEF First

\* list.pop
LEMMA Popped ==
    ASSUME NEW S, NEW s \in Seq(S), s # <<>>
    PROVE  /\ Front(s) \in Seq(S) /\ Len(Front(s)) = Len(s) - 1 /\ Len(s) \in Nat /\ Len(s) >= 1
           /\ \A i \in 1..(Len(s) - 1) : Front(s)[i] = s[i]
           /\ Last(s) \in S
<1>1. Len(s) \in Nat /\ Len(s) >= 1 /\ \A i \in 1..Len(s) : s[i] \in S
  OBVIOUS
<1>2. Last(s) \in S
  BY <1>1 DEF Last
<1>3. \A i \in 1..(Len(s) - 1) : s[i] \in S
  BY <1>1
<1>4. /\ SubSeq(s, 1, Len(s) - 1) \in Seq(S) /\ Len(SubSeq(s, 1, Len(s) - 1)) = Len(s) - 1
      /\ \A i \in 1..(Len(s) - 1) : SubSeq(s, 1, Len(s) - 1)[i] = s[i]
  <2> DEFINE k == Len(s) - 1
             t == SubSeq(s, 1, k)
  <2>1. k \in Nat
    BY <1>1
  <2> HIDE DEF k
  <2>2. /\ t \in Seq(S) /\ Len(t) = IF 1 <= k THEN k - 1 + 1 ELSE 0
        /\ \A i \in 1..(k - 1 + 1) : t[i] = s[1 + i - 1]
    BY <1>3, <2>1, SubSeqProperties DEF k
  <2>3. Len(t) = k /\ k - 1 + 1 = k /\ \A i \in 1..k : 1 + i - 1 = i
    BY <2>1, <2>2
  <2> QED
    BY <2>2, <2>3 DEF k
<1> QED
  BY <1>1, <1>2, <1>4 DEF Front

\* What the search leaves alone.
LEMMA SearchStays ==
    ASSUME GraphInv, pc = "searching", UNCHANGED <<graph, kahn>>
    PROVE  /\ line = Len(NodeOrder)
           /\ \A n : Requires(n)' = Requires(n)
           /\ BuildInv'
           /\ pc' \in {"searching", "assertion", "cycle"} => KahnInv' /\ OrderedInv'
<1>1. line = Len(NodeOrder)
  BY DEF GraphInv, BuildInv
<1> QED
  BY <1>1, GraphStays DEF KahnInv, OrderedInv, Requires, graph

\* The search starts a path at the next white node.
LEMMA StartSearch ==
    ASSUME GraphInv, start_search
    PROVE  GraphInv'
<1>0. GraphTypeOK /\ SearchInv
  BY DEF GraphInv
<1>1. pc = "searching" /\ stack = <<>> /\ UNCHANGED <<graph, kahn, cycle>>
  BY DEF start_search
<1>2. path = <<>> /\ ToSet(path) = {}
  <2>1. Len(path) = 0
    BY <1>0, <1>1 DEF SearchInv
  <2>2. path = <<>>
    BY <1>0, <2>1 DEF GraphTypeOK
  <2> QED
    BY <2>2 DEF ToSet
<1>3. CASE \A n \in Vertices : colour[n] # "white"
  <2>1. pc' = "assertion" /\ UNCHANGED dfs
    BY <1>3 DEF start_search
  <2>2. GraphTypeOK' /\ SearchInv'
    BY <1>0, <1>1, <2>1 DEF GraphTypeOK, SearchInv, Requires, graph, kahn, dfs
  <2> QED
    BY <1>1, <2>1, <2>2, SearchStays DEF GraphInv, CycleIsReal
<1>4. CASE ~ \A n \in Vertices : colour[n] # "white"
  <2> DEFINE n == NextWhite
  <2>1. /\ stack' = <<[node |-> n, index |-> 0]>> /\ path' = <<n>>
        /\ colour' = [colour EXCEPT ![n] = "grey"] /\ pc' = pc
    BY <1>4 DEF start_search
  <2>2. n \in Vertices
    <3> DEFINE white == {i \in 1..Len(NodeOrder) : colour[NodeOrder[i]] = "white"}
    <3>1. NodeOrder \in Seq(Vertices) /\ Len(NodeOrder) \in Nat
      BY SubmissionAssumption
    <3>2. \A x : x \in Vertices <=> \E i \in 1..Len(NodeOrder) : NodeOrder[i] = x
      BY <3>1, ListMembers DEF Vertices
    <3>3. white # {} /\ white \subseteq Nat
      BY <1>4, <3>2
    <3>4. PICK i \in white : \A j \in white : i <= j
      BY <3>3, Least
    <3>5. \A j \in 1..(i - 1) : j \in 1..Len(NodeOrder) /\ ~(i <= j)
      BY <3>1, <3>4
    <3>6. \E k \in 1..Len(NodeOrder) :
            /\ colour[NodeOrder[k]] = "white"
            /\ \A j \in 1..(k - 1) : colour[NodeOrder[j]] # "white"
      BY <3>4, <3>5
    <3> DEFINE c == CHOOSE k \in 1..Len(NodeOrder) :
                      /\ colour[NodeOrder[k]] = "white"
                      /\ \A j \in 1..(k - 1) : colour[NodeOrder[j]] # "white"
    <3>7. c \in 1..Len(NodeOrder)
      BY <3>6
    <3>8. n = NodeOrder[c]
      BY DEF NextWhite
    <3> HIDE DEF c
    <3> QED
      BY <3>2, <3>7, <3>8
  <2> HIDE DEF n
  <2>3. path' \in Seq(Vertices) /\ Len(path') = 1 /\ path'[1] = n
        /\ stack' \in Seq([node : Vertices, index : Nat]) /\ Len(stack') = 1 /\ stack'[1].node = n
    BY <2>1, <2>2
  <2>4. ToSet(path') = {n}
    BY <2>1 DEF ToSet
  <2>5. /\ colour' \in [Vertices -> {"white", "grey", "black"}]
        /\ \A x \in Vertices : colour'[x] = "grey" <=> x \in ToSet(path')
    BY <1>0, <1>2, <2>1, <2>2, <2>4 DEF GraphTypeOK, SearchInv
  <2>6. GraphTypeOK'
    BY <1>0, <1>1, <2>3, <2>5 DEF GraphTypeOK, graph, kahn
  <2>7. SearchInv'
    BY <2>3, <2>5 DEF SearchInv, Distinct
  <2> QED
    BY <1>1, <2>1, <2>6, <2>7, SearchStays DEF GraphInv, CycleIsReal
<1> QED
  BY <1>3, <1>4

\* A finished node leaves the path, which was its last place.
LEMMA FinishNode ==
    ASSUME GraphInv, finish_node
    PROVE  GraphInv'
<1>0. GraphTypeOK /\ SearchInv
  BY DEF GraphInv
<1>1. /\ pc = "searching" /\ stack # <<>> /\ UNCHANGED <<graph, kahn, pc, cycle>>
      /\ colour' = [colour EXCEPT ![Here.node] = "black"]
      /\ stack' = Front(stack) /\ path' = Front(path)
  BY DEF finish_node, Shortened
<1>2. /\ path \in Seq(Vertices) /\ stack \in Seq([node : Vertices, index : Nat])
      /\ Len(stack) = Len(path) /\ Distinct(path) /\ path # <<>>
      /\ colour \in [Vertices -> {"white", "grey", "black"}]
  BY <1>0, <1>1 DEF GraphTypeOK, SearchInv
<1>3. /\ path' \in Seq(Vertices) /\ Len(path') = Len(path) - 1 /\ Len(path) \in Nat /\ Len(path) >= 1
      /\ \A i \in 1..(Len(path) - 1) : path'[i] = path[i]
  BY <1>1, <1>2, Popped
<1>4. /\ stack' \in Seq([node : Vertices, index : Nat]) /\ Len(stack') = Len(stack) - 1
      /\ \A i \in 1..(Len(stack) - 1) : stack'[i] = stack[i]
  BY <1>1, <1>2, Popped
<1> DEFINE last == path[Len(path)]
<1>5. Here.node = last /\ last \in Vertices
  BY <1>0, <1>2, <1>3 DEF Here, Last, SearchInv
<1>6. /\ \A x : x \in ToSet(path) <=> \E i \in 1..Len(path) : path[i] = x
      /\ \A x : x \in ToSet(path') <=> \E i \in 1..Len(path') : path'[i] = x
  BY <1>2, <1>3, ListMembers
<1> HIDE DEF last
<1>7. \A x : x \in ToSet(path') <=> x \in ToSet(path) /\ x # last
  <2>1. \A i \in 1..Len(path') : i \in 1..Len(path) /\ i # Len(path) /\ path'[i] = path[i]
    BY <1>3
  <2>2. \A i \in 1..Len(path) : i \in 1..Len(path') \/ i = Len(path)
    BY <1>3
  <2>3. \A i \in 1..Len(path') : path'[i] # last /\ path'[i] \in ToSet(path)
    <3>1. Len(path) \in 1..Len(path)
      BY <1>3
    <3> QED
      BY <1>2, <1>6, <2>1, <3>1 DEF Distinct, last
  <2>4. ASSUME NEW i \in 1..Len(path), path[i] # last PROVE path[i] \in ToSet(path')
    <3>1. i \in 1..Len(path')
      BY <2>2, <2>4 DEF last
    <3> QED
      BY <1>6, <2>1, <3>1
  <2> QED
    BY <1>6, <2>3, <2>4
<1>8. GraphTypeOK'
  BY <1>0, <1>1, <1>2, <1>3, <1>4, <1>5 DEF GraphTypeOK, graph, kahn
<1>9. SearchInv'
  <2>1. \A x \in Vertices : colour'[x] = "grey" <=> x \in ToSet(path')
    <3>1. \A x \in Vertices : colour'[x] = IF x = last THEN "black" ELSE colour[x]
      BY <1>1, <1>2, <1>5
    <3>2. \A x \in Vertices : colour[x] = "grey" <=> x \in ToSet(path)
      BY <1>0 DEF SearchInv
    <3> QED
      BY <1>7, <3>1, <3>2
  <2>2. Distinct(path')
    BY <1>2, <1>3 DEF Distinct
  <2>3. ASSUME NEW i \in 1..Len(path') PROVE stack'[i].node = path'[i]
    <3>1. i \in 1..Len(path) /\ i \in 1..(Len(path) - 1) /\ i \in 1..(Len(stack) - 1)
      BY <1>2, <1>3
    <3>2. stack[i].node = path[i]
      BY <1>0, <3>1 DEF SearchInv
    <3> QED
      BY <1>3, <1>4, <3>1, <3>2
  <2>4. ASSUME NEW i \in 1..(Len(path') - 1) PROVE (path[i] \in Requires(path[i + 1]))'
    <3>1. i \in 1..(Len(path) - 1) /\ i + 1 \in 1..(Len(path) - 1)
      BY <1>3
    <3>2. path[i] \in Requires(path[i + 1])
      BY <1>0, <3>1 DEF SearchInv
    <3>3. path'[i] = path[i] /\ path'[i + 1] = path[i + 1]
      BY <1>3, <3>1
    <3> QED
      BY <1>1, <3>2, <3>3 DEF Requires, graph
  <2> QED
    BY <1>2, <1>3, <1>4, <2>1, <2>2, <2>3, <2>4 DEF SearchInv
<1> QED
  BY <1>1, <1>8, <1>9, SearchStays DEF GraphInv, CycleIsReal

\* A back edge closes a cycle of the submission; another edge leads the path on.
LEMMA VisitChild ==
    ASSUME GraphInv, visit_child
    PROVE  GraphInv'
<1> DEFINE child == children[Here.node][Here.index + 1]
           advanced == [stack EXCEPT ![Len(stack)].index = @ + 1]
           n == Len(path)
<1>0. GraphTypeOK /\ SearchInv /\ BuildInv
  BY DEF GraphInv
<1>1. /\ pc = "searching" /\ stack # <<>> /\ Here.index < Len(children[Here.node])
      /\ UNCHANGED <<graph, kahn>>
  BY DEF visit_child
<1>2. /\ path \in Seq(Vertices) /\ stack \in Seq([node : Vertices, index : Nat])
      /\ Len(stack) = n /\ Distinct(path) /\ n \in Nat /\ n >= 1
      /\ colour \in [Vertices -> {"white", "grey", "black"}]
      /\ \A i \in 1..n : stack[i].node = path[i]
      /\ \A x \in Vertices : colour[x] = "grey" <=> x \in ToSet(path)
      /\ \A i \in 1..(n - 1) : path[i] \in Requires(path[i + 1])
  <2>1. path \in Seq(Vertices) /\ stack \in Seq([node : Vertices, index : Nat]) /\ Len(stack) = n
        /\ colour \in [Vertices -> {"white", "grey", "black"}]
    BY <1>0 DEF GraphTypeOK, SearchInv
  <2>2. n \in Nat /\ n >= 1
    BY <1>1, <2>1
  <2> QED
    BY <1>0, <2>1, <2>2 DEF SearchInv
<1>n. n = Len(path)
  OBVIOUS
<1> HIDE DEF n
<1>3. /\ line = Len(NodeOrder) /\ \A x : Requires(x)' = Requires(x)
      /\ BuildInv'
      /\ pc' \in {"searching", "assertion", "cycle"} => KahnInv' /\ OrderedInv'
  BY <1>1, SearchStays
<1>4. /\ Here = stack[n] /\ Here \in [node : Vertices, index : Nat]
      /\ Here.node = path[n] /\ path[n] \in Vertices
  <2>1. n \in 1..Len(stack) /\ n \in 1..n /\ n \in 1..Len(path)
    BY <1>2 DEF n
  <2>2. Here = stack[n]
    BY <1>2 DEF Here, Last
  <2>3. stack[n] \in [node : Vertices, index : Nat] /\ stack[n].node = path[n] /\ path[n] \in Vertices
    BY <1>2, <2>1, ElementOfSeq
  <2> QED
    BY <2>2, <2>3
<1>5. child \in Vertices /\ path[n] \in Requires(child)
  <2>1. children[path[n]] \in Seq(Vertices)
    BY <1>0, <1>4 DEF GraphTypeOK
  <2>2. Here.index + 1 \in 1..Len(children[path[n]])
    BY <1>1, <1>4, <2>1
  <2>3. child \in ToSet(children[path[n]]) /\ child \in Vertices
    <3>1. child = children[path[n]][Here.index + 1]
      BY <1>4
    <3> QED
      BY <2>1, <2>2, <3>1, ListMembers
  <2>4. \A p, x \in Vertices : x \in ToSet(children[p]) <=> p \in Requires(x)
    BY <1>0, <1>3, BuiltGraph
  <2> QED
    BY <1>4, <2>3, <2>4
<1>6. /\ advanced \in Seq([node : Vertices, index : Nat]) /\ Len(advanced) = n
      /\ \A i \in 1..n : advanced[i].node = path[i]
  <2> DEFINE top == [Here EXCEPT !.index = @ + 1]
  <2>1. top \in [node : Vertices, index : Nat] /\ top.node = path[n]
    BY <1>4
  <2>2. advanced = [stack EXCEPT ![n] = top]
    BY <1>2, <1>4
  <2> HIDE DEF advanced, top
  <2>3. n \in 1..Len(stack)
    BY <1>2
  <2>4. /\ advanced \in Seq([node : Vertices, index : Nat]) /\ Len(advanced) = n
        /\ \A i \in 1..n : advanced[i] = IF i = n THEN top ELSE stack[i]
    BY <1>2, <2>1, <2>2, <2>3
  <2> QED
    BY <1>2, <2>1, <2>4
<1> HIDE DEF child, advanced
<1>7. CASE ClosesCycle(child)
  <2> DEFINE m == First(path, child)
             back == SubSeq(path, m, n)
  <2>1. /\ cycle' = Append(back, child) /\ pc' = "cycle" /\ stack' = advanced
        /\ UNCHANGED <<path, colour>>
    BY <1>7 DEF visit_child, child, advanced, n
  <2>2. child \in ToSet(path)
    BY <1>2, <1>5, <1>7 DEF ClosesCycle
  <2>3. PICK k \in 1..n : path[k] = child
    BY <1>2, <1>n, <2>2, ListMembers
  <2>4. m \in 1..n /\ path[m] = child
    BY <1>2, <1>n, <2>3, FirstOf
  <2> HIDE DEF m
  <2>5. /\ back \in Seq(Vertices) /\ Len(back) = n - m + 1
        /\ \A i \in 1..(n - m + 1) : back[i] = path[m + i - 1]
    <3>1. m \in Int /\ n \in Int /\ m <= n /\ \A i \in m..n : path[i] \in Vertices
      BY <1>2, <2>4 DEF n
    <3> QED
      BY <3>1, SubSeqProperties
  <2> HIDE DEF back
  <2>6. /\ Len(cycle') = n - m + 2 /\ cycle'[n - m + 2] = child
        /\ \A i \in 1..(n - m + 1) : cycle'[i] = path[m + i - 1]
    BY <1>2, <1>5, <2>1, <2>4, <2>5
  <2>7. Len(cycle') >= 2 /\ cycle'[1] = cycle'[Len(cycle')]
    <3>1. 1 \in 1..(n - m + 1) /\ m + 1 - 1 = m /\ n - m + 2 >= 2
      BY <1>2, <2>4
    <3> QED
      BY <2>4, <2>6, <3>1
  <2>8. ASSUME NEW i \in 1..(Len(cycle') - 1)
        PROVE  /\ cycle'[i] \in Requires(cycle'[i + 1]) /\ cycle'[i + 1] \in Vertices
               /\ \A j \in 1..(Len(cycle') - 1) : cycle'[i] = cycle'[j] => i = j
    <3>1. i \in 1..(n - m + 1) /\ m + i - 1 \in 1..n /\ cycle'[i] = path[m + i - 1]
      BY <1>2, <2>4, <2>6
    <3>2. ASSUME NEW j \in 1..(Len(cycle') - 1), cycle'[i] = cycle'[j] PROVE i = j
      <4>1. m + j - 1 \in 1..n /\ cycle'[j] = path[m + j - 1]
        BY <1>2, <2>4, <2>6
      <4>2. m + i - 1 = m + j - 1
        <5>1. path[m + i - 1] = path[m + j - 1]
          BY <3>1, <3>2, <4>1
        <5> QED
          BY <1>2, <1>n, <3>1, <4>1, <5>1 DEF Distinct
      <4> QED
        BY <1>2, <2>4, <2>6, <4>2
    <3>3. CASE i = n - m + 1
      <4>1. cycle'[i] = path[n] /\ cycle'[i + 1] = child
        BY <1>2, <2>4, <2>6, <3>1, <3>3
      <4> QED
        BY <1>5, <3>2, <4>1
    <3>4. CASE i # n - m + 1
      <4>1. m + i - 1 \in 1..(n - 1) /\ i + 1 \in 1..(n - m + 1) /\ m + (i + 1) - 1 = (m + i - 1) + 1
        BY <1>2, <2>4, <3>1, <3>4
      <4>2. cycle'[i + 1] = path[(m + i - 1) + 1]
        BY <2>6, <4>1
      <4>3. path[m + i - 1] \in Requires(path[(m + i - 1) + 1])
        BY <1>2, <4>1
      <4>4. path[(m + i - 1) + 1] \in Vertices
        <5>1. (m + i - 1) + 1 \in 1..Len(path)
          BY <1>2, <1>n, <4>1
        <5> QED
          BY <1>2, <5>1, ElementOfSeq
      <4> QED
        BY <3>1, <3>2, <4>2, <4>3, <4>4
    <3> QED
      BY <3>3, <3>4
  <2>9. CycleIsReal'
    <3>1. \A x \in Vertices : \A p : Edge(p, x)' <=> p \in Requires(x)
      <4>1. dependencies' = dependencies /\ dependencies \in [Vertices -> ParentLists]
        BY <1>0, <1>1 DEF graph, GraphTypeOK
      <4>2. \A x \in Vertices : \A p : Edge(p, x) <=> p \in Requires(x)
        BY <4>1, Submitted
      <4> QED
        BY <4>1, <4>2 DEF Edge
    <3>2. \A i \in 1..(Len(cycle') - 1) : Edge(cycle[i], cycle[i + 1])'
      BY <2>8, <3>1 DEF Edge
    <3> QED
      BY <2>7, <2>8, <3>2 DEF CycleIsReal
  <2>10. GraphTypeOK'
    BY <1>0, <1>1, <1>6, <2>1 DEF GraphTypeOK, graph, kahn
  <2>11. SearchInv'
    BY <1>2, <1>3, <1>n, <1>6, <2>1 DEF SearchInv
  <2>12. KahnInv' /\ OrderedInv' /\ BuildInv'
    BY <1>3, <2>1
  <2> QED
    BY <2>9, <2>10, <2>11, <2>12, Zenon DEF GraphInv
<1>8. CASE ~ClosesCycle(child) /\ colour[child] = "white"
  <2>1. /\ colour' = [colour EXCEPT ![child] = "grey"]
        /\ stack' = Append(advanced, [node |-> child, index |-> 0])
        /\ path' = Append(path, child) /\ UNCHANGED <<pc, cycle>>
    BY <1>8 DEF visit_child, child, advanced
  <2>2. child \notin ToSet(path)
    BY <1>2, <1>5, <1>8
  <2>3. /\ path' \in Seq(Vertices) /\ Len(path') = n + 1 /\ path'[n + 1] = child
        /\ \A i \in 1..n : path'[i] = path[i]
        /\ ToSet(path') = ToSet(path) \cup {child} /\ Distinct(path')
    BY <1>2, <1>5, <1>n, <2>1, <2>2, Appended
  <2>4. /\ stack' \in Seq([node : Vertices, index : Nat]) /\ Len(stack') = n + 1
        /\ stack'[n + 1] = [node |-> child, index |-> 0]
        /\ \A i \in 1..n : stack'[i] = advanced[i]
    <3>1. [node |-> child, index |-> 0] \in [node : Vertices, index : Nat]
      BY <1>5
    <3> QED
      BY <1>6, <2>1, <3>1, Appended
  <2>5. \A i \in 1..(n + 1) : stack'[i].node = path'[i]
    <3>1. \A i \in 1..(n + 1) : i \in 1..n \/ i = n + 1
      BY <1>2
    <3>2. stack'[n + 1].node = child
      BY <2>4
    <3> QED
      BY <1>6, <2>3, <2>4, <3>1, <3>2
  <2>6. /\ colour' \in [Vertices -> {"white", "grey", "black"}]
        /\ \A x \in Vertices : colour'[x] = "grey" <=> x \in ToSet(path')
    BY <1>2, <1>5, <2>1, <2>3
  <2>7. ASSUME NEW i \in 1..(Len(path') - 1) PROVE (path[i] \in Requires(path[i + 1]))'
    <3>1. path'[i] \in Requires(path'[i + 1])
      <4>1. CASE i = n
        BY <1>2, <1>5, <2>3, <4>1
      <4>2. CASE i # n
        <5>1. i \in 1..(n - 1) /\ i \in 1..n /\ i + 1 \in 1..n
          BY <1>2, <2>3, <4>2
        <5> QED
          BY <1>2, <2>3, <5>1
      <4> QED
        BY <4>1, <4>2
    <3> QED
      BY <1>1, <3>1 DEF Requires, graph
  <2>8. SearchInv'
    BY <2>3, <2>4, <2>5, <2>6, <2>7 DEF SearchInv
  <2>9. GraphTypeOK'
    BY <1>0, <1>1, <2>3, <2>4, <2>6 DEF GraphTypeOK, graph, kahn
  <2> QED
    BY <1>1, <1>3, <2>1, <2>8, <2>9 DEF GraphInv, CycleIsReal
<1>9. CASE ~ClosesCycle(child) /\ colour[child] # "white"
  <2>1. stack' = advanced /\ UNCHANGED <<path, colour, pc, cycle>>
    BY <1>9 DEF visit_child, child, advanced
  <2>2. GraphTypeOK'
    BY <1>0, <1>1, <1>6, <2>1 DEF GraphTypeOK, graph, kahn
  <2>3. SearchInv'
    BY <1>2, <1>3, <1>n, <1>6, <2>1 DEF SearchInv
  <2> QED
    BY <1>1, <1>3, <2>1, <2>2, <2>3 DEF GraphInv, CycleIsReal
<1> QED
  BY <1>7, <1>8, <1>9

-----------------------------------------------------------------------------
(* The theorems.                                                           *)

\* Every step keeps GraphInv.
LEMMA GraphStep ==
    GraphInv /\ [GraphNext]_graph_vars => GraphInv'
<1> SUFFICES ASSUME GraphInv, [GraphNext]_graph_vars PROVE GraphInv'
  OBVIOUS
<1>1. CASE UNCHANGED graph_vars
  <2>1. UNCHANGED <<dependencies, children, parents, line, pc, in_degree, queue, order, colour, stack,
                    path, cycle>>
    BY <1>1 DEF graph_vars, graph, kahn, dfs
  <2>2. GraphTypeOK' /\ BuildInv'
    BY <2>1 DEF GraphInv, GraphTypeOK, BuildInv, Requires
  <2>3. KahnInv'
    BY <2>1 DEF GraphInv, KahnInv, Requires
  <2>5. OrderedInv'
    BY <2>1 DEF GraphInv, OrderedInv
  <2>4. SearchInv' /\ CycleIsReal'
    BY <2>1 DEF GraphInv, SearchInv, CycleIsReal, Requires, Edge
  <2> QED
    BY <2>2, <2>3, <2>4, <2>5 DEF GraphInv
<1> QED
  BY <1>1, AddEdges, AddEdgeRejected, StartOrder, OrderNext, EndOrder, StartSearch, VisitChild,
     FinishNode DEF GraphNext

\* GraphInv is an invariant of the call.
LEMMA GraphInvHolds ==
    GraphSpec => []GraphInv
  BY GraphInitInv, GraphStep, PTL DEF GraphSpec

\* An order of all tasks, each behind its parents, leaves room for no cycle: of any set
\* of tasks, the one that comes first in it waits for none of the others.
LEMMA OrderIsRight ==
    GraphInv => OrderIsTopological
<1> SUFFICES ASSUME GraphInv, pc = "ordered" PROVE OrderIsTopological
  BY DEF OrderIsTopological
<1>1. /\ order \in Seq(Vertices) /\ Distinct(order) /\ Len(order) = Len(NodeOrder)
      /\ dependencies \in [Vertices -> ParentLists]
      /\ \A j \in 1..Len(order) : \A p \in Requires(order[j]) : \E i \in 1..(j - 1) : order[i] = p
  BY DEF GraphInv, GraphTypeOK, KahnInv, OrderedInv
<1>2. Len(order) \in Nat /\ \A i \in 1..Len(order) : order[i] \in Vertices
  BY <1>1
<1>3. ToSet(order) = Vertices
  <2>1. ToSet(order) \subseteq Vertices /\ Cardinality(ToSet(order)) = Len(order)
    BY <1>1, ListMembers
  <2>2. IsFiniteSet(Vertices) /\ Cardinality(Vertices) = Len(order)
    BY <1>1, KeysOf
  <2> QED
    BY <2>1, <2>2, FS_Subset
<1>4. \A x \in Vertices : \A p : Edge(p, x) <=> p \in Requires(x)
  BY <1>1, Submitted
<1>5. ASSUME NEW i \in 1..Len(order), NEW j \in 1..Len(order), Edge(order[i], order[j])
      PROVE  i < j
  <2>1. order[i] \in Requires(order[j])
    BY <1>2, <1>4, <1>5
  <2>2. PICK k \in 1..(j - 1) : order[k] = order[i]
    BY <1>1, <2>1
  <2>3. k \in 1..Len(order) /\ k < j
    BY <1>2
  <2>4. k = i
    BY <1>1, <2>2, <2>3 DEF Distinct
  <2> QED
    BY <2>3, <2>4
<1>6. Acyclic
  <2> SUFFICES ASSUME NEW S \in (SUBSET Vertices) \ {{}}
               PROVE  \E n \in S : \A p \in S : ~Edge(p, n)
    BY DEF Acyclic
  <2> DEFINE at == {i \in 1..Len(order) : order[i] \in S}
  <2>1. at \subseteq Nat /\ at # {}
    <3>a. S \subseteq Vertices /\ S # {}
      OBVIOUS
    <3>b. \E x : x \in S
      BY <3>a
    <3>1. PICK x \in S : x \in ToSet(order)
      BY <1>3, <3>a, <3>b
    <3>2. PICK i \in 1..Len(order) : order[i] = x
      BY <1>1, <3>1, ListMembers
    <3> QED
      BY <1>2, <3>2
  <2>2. PICK j \in at : \A k \in at : j <= k
    BY <2>1, Least
  <2>3. ASSUME NEW p \in S, Edge(p, order[j]) PROVE FALSE
    <3>1. PICK i \in 1..Len(order) : order[i] = p
      BY <1>1, <1>3, ListMembers
    <3>2. i < j
      BY <1>5, <2>2, <2>3, <3>1
    <3>3. i \in at
      BY <3>1
    <3> QED
      BY <1>2, <2>2, <3>2, <3>3
  <2> QED
    BY <2>2, <2>3
<1> QED
  BY <1>1, <1>3, <1>5, <1>6 DEF OrderIsTopological, Distinct

\* core/dag.py: topological_order returns an order only for a submission without a
\* cycle, and it has every task once and after all the tasks it depends on; the cycle
\* of a CycleError is a cycle of the submission, without a node twice, whether
\* add_edge or _find_cycle raised it.
THEOREM DagAnswerIsRight ==
    GraphSpec => []AnswerIsRight
<1>1. GraphInv => AnswerIsRight
  BY OrderIsRight DEF GraphInv, AnswerIsRight
<1> QED
  BY <1>1, GraphInvHolds, PTL

-----------------------------------------------------------------------------
(* No submission is refused without a reason.                              *)

Black == {n \in Vertices : colour[n] = "black"}

\* The finished nodes: so are their children, and no cycle is among them.
BlackInv ==
    /\ \A b \in Black, n \in Vertices : b \in Requires(n) => n \in Black
    /\ \A S \in (SUBSET Black) \ {{}} : \E n \in S : \A p \in S : p \notin Requires(n)

\* The children a node on the path is past are finished, or the next on the path.
VisitedInv ==
    \A i \in 1..Len(stack) : \A j \in 1..stack[i].index :
        j <= Len(children[path[i]]) =>
            \/ children[path[i]][j] \in Black
            \/ i < Len(path) /\ children[path[i]][j] = path[i + 1]

\* _find_cycle runs on a graph that has a cycle.
ReasonInv ==
    /\ pc # "assertion"
    /\ pc = "unknown_node" => \E n \in Vertices : ~(ToSet(dependencies[n]) \subseteq Vertices)
    /\ pc \in {"searching", "cycle"} => ~Acyclic
    /\ pc = "building" => stack = <<>>
    /\ pc \in {"building", "unknown_node", "ordering", "ordered", "searching", "assertion", "cycle"}

JudgeInv == BlackInv /\ (pc # "cycle" => VisitedInv) /\ ReasonInv

\* Before the call no node has been visited.
LEMMA JudgeInitInv ==
    GraphInit => JudgeInv
<1> SUFFICES ASSUME GraphInit PROVE JudgeInv
  OBVIOUS
<1>1. Black = {}
  BY DEF GraphInit, GraphStart, Black
<1>2. BlackInv
  BY <1>1 DEF BlackInv
<1>3. VisitedInv
  BY DEF GraphInit, GraphStart, VisitedInv
<1> QED
  BY <1>2, <1>3 DEF GraphInit, GraphStart, ReasonInv, JudgeInv

\* A step that leaves the search alone.
LEMMA SearchUntouched ==
    ASSUME JudgeInv, pc # "cycle", UNCHANGED <<dependencies, colour, stack, path>>,
           children' = children \/ stack = <<>>
    PROVE  BlackInv' /\ VisitedInv'
<1>1. BlackInv'
  BY DEF JudgeInv, BlackInv, Black, Requires
<1>2. ASSUME children' = children PROVE VisitedInv'
  <2>1. Black' = Black
    BY DEF Black
  <2>2. VisitedInv /\ stack' = stack /\ path' = path
    BY DEF JudgeInv
  <2> QED
    BY <1>2, <2>1, <2>2 DEF VisitedInv
<1>3. ASSUME stack = <<>> PROVE VisitedInv'
  <2>1. stack' = <<>> /\ Len(<<>>) = 0
    BY <1>3
  <2>2. 1..Len(stack') = {}
    BY <2>1
  <2> QED
    BY <2>2, Zenon DEF VisitedInv
<1> QED
  BY <1>1, <1>2, <1>3

\* A set in which every node has a parent is no part of an acyclic graph.
LEMMA NotAcyclic ==
    ASSUME dependencies \in [Vertices -> ParentLists], NEW S \in SUBSET Vertices, S # {},
           \A n \in S : \E p \in S : p \in Requires(n)
    PROVE  ~Acyclic
<1>1. \A n \in S : \E p \in S : Edge(p, n)
  BY Submitted
<1>2. S \in (SUBSET Vertices) \ {{}}
  OBVIOUS
<1> QED
  BY <1>1, <1>2 DEF Acyclic

\* The tasks that a stuck order leaves out wait for each other.
LEMMA StuckOrder ==
    ASSUME GraphInv, pc = "ordering", queue = <<>>, ~AllOrdered
    PROVE  ~Acyclic
<1> DEFINE S == Vertices \ ToSet(order)
<1>1. /\ order \in Seq(Vertices) /\ Distinct(order) /\ Len(order) # Len(NodeOrder)
      /\ dependencies \in [Vertices -> ParentLists]
      /\ \A n \in Vertices : in_degree[n] = Cardinality(Requires(n) \ ToSet(order))
      /\ \A n \in Vertices : in_degree[n] = 0 <=> n \in ToSet(order) \cup ToSet(queue)
  BY DEF GraphInv, GraphTypeOK, KahnInv, AllOrdered
<1>2. ToSet(queue) = {}
  BY DEF ToSet
<1>3. S # {}
  <2>1. ToSet(order) \subseteq Vertices /\ Cardinality(ToSet(order)) = Len(order)
    BY <1>1, ListMembers
  <2>2. Cardinality(Vertices) = Len(NodeOrder)
    BY KeysOf
  <2>3. ToSet(order) # Vertices
    BY <1>1, <2>1, <2>2
  <2> QED
    BY <2>1, <2>3
<1>4. ASSUME NEW n \in S PROVE \E p \in S : p \in Requires(n)
  <2>1. line = Len(NodeOrder)
    BY DEF GraphInv, BuildInv
  <2>2. Requires(n) \subseteq Vertices
    BY <2>1, BuiltGraph DEF GraphInv
  <2>3. Cardinality(Requires(n) \ ToSet(order)) # 0
    BY <1>1, <1>2
  <2>4. Requires(n) \ ToSet(order) # {}
    BY <2>3, FS_EmptySet
  <2> QED
    BY <2>2, <2>4
<1> QED
  BY <1>1, <1>3, <1>4, NotAcyclic

\* The loops before the search.
LEMMA JudgeBeforeSearch ==
    ASSUME GraphInv, JudgeInv, add_edges \/ add_edge_rejected \/ start_order \/ order_next \/ end_order
    PROVE  JudgeInv'
<1>0. GraphTypeOK
  BY DEF GraphInv
<1>1. CASE add_edges
  <2>1. pc = "building" /\ UNCHANGED <<dependencies, colour, stack, path, pc>>
    BY <1>1 DEF add_edges, dfs
  <2>2. stack = <<>>
    BY <2>1 DEF JudgeInv, ReasonInv
  <2> QED
    BY <2>1, <2>2, SearchUntouched DEF JudgeInv, ReasonInv
<1>2. CASE add_edge_rejected
  <2>1. /\ pc = "building" /\ line < Len(NodeOrder) /\ FirstBad(Node) # 0
        /\ UNCHANGED <<dependencies, children, colour, stack, path, line>>
        /\ \/ dependencies[Node][FirstBad(Node)] \notin Vertices /\ pc' = "unknown_node"
           \/ dependencies[Node][FirstBad(Node)] \in Vertices /\ pc' = "cycle"
    BY <1>2 DEF add_edge_rejected, graph, dfs
  <2>2. line \in 0..(Len(NodeOrder) - 1) /\ dependencies \in [Vertices -> ParentLists]
    BY <1>0, <2>1, KeysOf DEF GraphTypeOK
  <2>3. Node \in Vertices
    BY <2>2, KeysOf DEF Node
  <2>4. /\ FirstBad(Node) \in 1..Len(dependencies[Node])
        /\ \/ dependencies[Node][FirstBad(Node)] \notin Vertices
           \/ dependencies[Node][FirstBad(Node)] = Node
    BY <2>1, <2>2, <2>3, FirstBadIs
  <2>5. dependencies[Node][FirstBad(Node)] \in Requires(Node)
    BY <2>2, <2>3, <2>4, Submitted
  <2> HIDE DEF Node
  <2>6. pc' = "unknown_node" => \E n \in Vertices : ~(ToSet(dependencies'[n]) \subseteq Vertices)
    BY <2>1, <2>3, <2>5 DEF Requires
  <2>7. pc' = "cycle" => ~Acyclic
    <3> SUFFICES ASSUME pc' = "cycle" PROVE ~Acyclic
      OBVIOUS
    <3>1. Node \in Requires(Node)
      BY <2>1, <2>4, <2>5
    <3>2. PICK n \in Vertices : n = Node
      BY <2>3
    <3>3. {n} \in SUBSET Vertices /\ {n} # {} /\ \A x \in {n} : \E p \in {n} : p \in Requires(x)
      BY <3>1, <3>2
    <3> QED
      BY <2>2, <3>3, NotAcyclic
  <2>8. Acyclic' <=> Acyclic
    BY <2>1 DEF Acyclic, Edge
  <2> QED
    BY <2>1, <2>6, <2>7, <2>8, SearchUntouched DEF JudgeInv, ReasonInv
<1>3. CASE start_order \/ order_next
  <2>1. UNCHANGED <<dependencies, children, colour, stack, path>> /\ pc' = "ordering" /\ pc # "cycle"
    BY <1>3 DEF start_order, order_next, graph, dfs
  <2> QED
    BY <2>1, SearchUntouched DEF JudgeInv, ReasonInv
<1>4. CASE end_order
  <2>1. /\ pc = "ordering" /\ queue = <<>> /\ UNCHANGED <<dependencies, children, colour, stack, path>>
        /\ pc' = IF AllOrdered THEN "ordered" ELSE "searching"
    BY <1>4 DEF end_order, graph, dfs
  <2>2. pc' = "searching" => ~Acyclic
    BY <2>1, StuckOrder
  <2>3. Acyclic' <=> Acyclic
    BY <2>1 DEF Acyclic, Edge
  <2> QED
    BY <2>1, <2>2, <2>3, SearchUntouched DEF JudgeInv, ReasonInv
<1> QED
  BY <1>1, <1>2, <1>3, <1>4

\* A white node is left to start from: the search of a graph that has a cycle never ends
\* with every node finished.
LEMMA JudgeStartSearch ==
    ASSUME GraphInv, JudgeInv, start_search
    PROVE  JudgeInv'
<1>1. /\ pc = "searching" /\ stack = <<>> /\ UNCHANGED <<dependencies, children>>
  BY DEF start_search, graph
<1>2. \A n \in Vertices : colour[n] # "grey"
  <2>1. SearchInv /\ GraphTypeOK
    BY DEF GraphInv
  <2>2. Len(path) = 0
    BY <1>1, <2>1 DEF SearchInv
  <2>3. path = <<>>
    BY <2>1, <2>2 DEF GraphTypeOK
  <2>4. ToSet(path) = {}
    BY <2>3 DEF ToSet
  <2> QED
    BY <2>1, <2>4 DEF SearchInv
<1>3. ~Acyclic /\ BlackInv /\ dependencies \in [Vertices -> ParentLists]
  BY <1>1 DEF GraphInv, GraphTypeOK, JudgeInv, ReasonInv
<1>4. ~ \A n \in Vertices : colour[n] # "white"
  <2> SUFFICES ASSUME \A n \in Vertices : colour[n] # "white" PROVE FALSE
    OBVIOUS
  <2>1. \A n \in Vertices : colour[n] = "black"
    BY <1>2 DEF GraphInv, GraphTypeOK
  <2>2. Black = Vertices
    BY <2>1 DEF Black
  <2>3. \A n \in Vertices : \A p : Edge(p, n) <=> p \in Requires(n)
    BY <1>3, Submitted
  <2>4. PICK S \in (SUBSET Vertices) \ {{}} : \A n \in S : \E p \in S : Edge(p, n)
    BY <1>3 DEF Acyclic
  <2>5. PICK n \in S : \A p \in S : p \notin Requires(n)
    BY <1>3, <2>2, <2>4 DEF BlackInv
  <2> QED
    BY <2>3, <2>4, <2>5
<1>5. /\ stack' = <<[node |-> NextWhite, index |-> 0]>> /\ pc' = pc
      /\ colour' = [colour EXCEPT ![NextWhite] = "grey"]
  BY <1>4 DEF start_search
<1>6. colour[NextWhite] = "white"
  <2> DEFINE white == {i \in 1..Len(NodeOrder) : colour[NodeOrder[i]] = "white"}
  <2>1. NodeOrder \in Seq(Vertices) /\ Len(NodeOrder) \in Nat
    BY SubmissionAssumption
  <2>2. \A x : x \in Vertices <=> \E i \in 1..Len(NodeOrder) : NodeOrder[i] = x
    BY <2>1, ListMembers DEF Vertices
  <2>3. white # {} /\ white \subseteq Nat
    BY <1>4, <2>2
  <2>4. PICK i \in white : \A j \in white : i <= j
    BY <2>3, Least
  <2>5. \A j \in 1..(i - 1) : j \in 1..Len(NodeOrder) /\ ~(i <= j)
    BY <2>1, <2>4
  <2>6. \E k \in 1..Len(NodeOrder) :
          /\ colour[NodeOrder[k]] = "white"
          /\ \A j \in 1..(k - 1) : colour[NodeOrder[j]] # "white"
    BY <2>4, <2>5
  <2> QED
    BY <2>6 DEF NextWhite
<1>7. Black' = Black
  <2>1. colour \in [Vertices -> {"white", "grey", "black"}]
    BY DEF GraphInv, GraphTypeOK
  <2> QED
    BY <1>5, <1>6, <2>1 DEF Black
<1>8. BlackInv'
  BY <1>1, <1>3, <1>7 DEF BlackInv, Requires
<1>9. VisitedInv'
  <2>1. Len(stack') = 1 /\ stack'[1].index = 0
    BY <1>5
  <2> QED
    BY <2>1 DEF VisitedInv
<1>10. Acyclic' <=> Acyclic
  BY <1>1 DEF Acyclic, Edge
<1> QED
  BY <1>1, <1>3, <1>5, <1>8, <1>9, <1>10 DEF JudgeInv, ReasonInv

\* A node whose children are all finished closes no cycle of finished nodes.
LEMMA JudgeFinishNode ==
    ASSUME GraphInv, JudgeInv, finish_node
    PROVE  JudgeInv'
<1> DEFINE n == Len(path)
           last == path[n]
<1>0. GraphTypeOK /\ SearchInv /\ BuildInv
  BY DEF GraphInv
<1>1. /\ pc = "searching" /\ stack # <<>> /\ UNCHANGED <<dependencies, children, pc, line>>
      /\ Here.index >= Len(children[Here.node])
      /\ colour' = [colour EXCEPT ![Here.node] = "black"]
      /\ stack' = Front(stack) /\ path' = Front(path)
  BY DEF finish_node, Shortened, graph
<1>2. /\ path \in Seq(Vertices) /\ stack \in Seq([node : Vertices, index : Nat])
      /\ Len(stack) = n /\ path # <<>> /\ n \in Nat /\ n >= 1
      /\ colour \in [Vertices -> {"white", "grey", "black"}]
      /\ \A i \in 1..n : stack[i].node = path[i]
      /\ \A x \in Vertices : colour[x] = "grey" <=> x \in ToSet(path)
  <2>1. /\ path \in Seq(Vertices) /\ stack \in Seq([node : Vertices, index : Nat]) /\ Len(stack) = n
        /\ colour \in [Vertices -> {"white", "grey", "black"}]
    BY <1>0 DEF GraphTypeOK, SearchInv
  <2>2. n \in Nat /\ n >= 1 /\ path # <<>>
    BY <1>1, <2>1
  <2> QED
    BY <1>0, <2>1, <2>2 DEF SearchInv
<1>3. /\ Len(path') = n - 1 /\ \A i \in 1..(n - 1) : path'[i] = path[i]
      /\ Len(stack') = n - 1 /\ \A i \in 1..(n - 1) : stack'[i] = stack[i]
  BY <1>1, <1>2, Popped
<1>4. /\ n \in 1..n /\ last \in Vertices /\ Here = stack[n] /\ Here.node = last
      /\ Here.index \in Nat /\ colour[last] = "grey"
  <2>1. n \in 1..n /\ n \in 1..Len(stack) /\ n \in 1..Len(path)
    BY <1>2
  <2>2. Here = stack[n]
    BY <1>2 DEF Here, Last
  <2>3. stack[n] \in [node : Vertices, index : Nat] /\ last \in Vertices
    BY <1>2, <2>1, ElementOfSeq
  <2>4. last \in ToSet(path)
    BY <1>2, <2>1, ListMembers
  <2> QED
    BY <1>2, <2>1, <2>2, <2>3, <2>4
<1>n. n = Len(path)
  OBVIOUS
<1> HIDE DEF n, last
<1>5. BlackInv /\ VisitedInv /\ ReasonInv
  BY <1>1 DEF JudgeInv
<1>6. \A x \in Vertices : last \in Requires(x) => x \in Black
  <2>1. line = Len(NodeOrder)
    BY <1>0, <1>1 DEF BuildInv
  <2>2. \A p, x \in Vertices : x \in ToSet(children[p]) <=> p \in Requires(x)
    BY <1>0, <2>1, BuiltGraph
  <2>3. children[last] \in Seq(Vertices)
    BY <1>0, <1>4 DEF GraphTypeOK
  <2>4. ASSUME NEW j \in 1..Len(children[last]) PROVE children[last][j] \in Black
    <3>1. j \in 1..stack[n].index
      BY <1>1, <1>4, <2>3
    <3>2. n \in 1..Len(stack) /\ path[n] = last /\ ~(n < Len(path))
      BY <1>2, <1>4, <1>n DEF last
    <3> QED
      BY <1>5, <2>3, <3>1, <3>2 DEF VisitedInv
  <2>5. \A x : x \in ToSet(children[last]) <=> \E j \in 1..Len(children[last]) : children[last][j] = x
    BY <2>3, ListMembers
  <2> QED
    BY <1>4, <2>2, <2>4, <2>5
<1>7. Black' = Black \cup {last} /\ last \notin Black
  BY <1>1, <1>2, <1>4 DEF Black
<1>8. \A x : Requires(x)' = Requires(x)
  BY <1>1 DEF Requires
<1>9. Black \subseteq Vertices
  BY DEF Black
<1>10. BlackInv'
  <2>1. ASSUME NEW b \in Black', NEW x \in Vertices, b \in Requires(x) PROVE x \in Black'
    BY <1>5, <1>6, <1>7, <2>1 DEF BlackInv
  <2>2. ASSUME NEW S \in (SUBSET Black') \ {{}} PROVE \E x \in S : \A p \in S : p \notin Requires(x)
    <3>1. CASE last \in S
      <4>1. ASSUME NEW p \in S, p \in Requires(last) PROVE FALSE
        <5>1. p \in Black \/ p = last
          BY <1>7, <2>2
        <5> QED
          BY <1>4, <1>5, <1>6, <1>7, <4>1, <5>1 DEF BlackInv
      <4> QED
        BY <3>1, <4>1
    <3>2. CASE last \notin S
      <4>1. S \in (SUBSET Black) \ {{}}
        BY <1>7, <2>2, <3>2
      <4> QED
        BY <1>5, <4>1 DEF BlackInv
    <3> QED
      BY <3>1, <3>2
  <2> QED
    BY <1>8, <2>1, <2>2 DEF BlackInv
<1>11. VisitedInv'
  <2> SUFFICES ASSUME NEW i \in 1..Len(stack'), NEW j \in 1..stack'[i].index,
                      j <= Len(children'[path'[i]])
               PROVE  \/ children'[path'[i]][j] \in Black'
                      \/ i < Len(path') /\ children'[path'[i]][j] = path'[i + 1]
    BY DEF VisitedInv
  <2>1. i \in 1..(n - 1) /\ i \in 1..Len(stack) /\ path'[i] = path[i] /\ stack'[i] = stack[i]
    <3>1. i \in 1..(n - 1)
      BY <1>3
    <3>2. i \in 1..Len(stack)
      BY <1>2, <3>1
    <3> QED
      BY <1>3, <3>1, <3>2
  <2>2. CASE children[path[i]][j] \in Black
    BY <1>1, <1>7, <2>1, <2>2
  <2>3. CASE i < Len(path) /\ children[path[i]][j] = path[i + 1]
    <3>1. CASE i = n - 1
      <4>1. i + 1 = n
        BY <1>2, <3>1
      <4> QED
        BY <1>1, <1>7, <2>1, <2>3, <4>1 DEF last
    <3>2. CASE i # n - 1
      <4>1. i + 1 \in 1..(n - 1) /\ i < n - 1
        BY <1>2, <2>1, <3>2
      <4> QED
        BY <1>1, <1>3, <2>1, <2>3, <4>1
    <3> QED
      BY <3>1, <3>2
  <2> QED
    BY <1>1, <1>5, <2>1, <2>2, <2>3 DEF VisitedInv
<1>12. Acyclic' <=> Acyclic
  BY <1>1 DEF Acyclic, Edge
<1> QED
  BY <1>1, <1>5, <1>10, <1>11, <1>12 DEF JudgeInv, ReasonInv

\* The step of the inner loop: a white child goes on the path, a black one is
\* finished, and a grey one ends the search.
LEMMA JudgeVisitChild ==
    ASSUME GraphInv, JudgeInv, visit_child
    PROVE  JudgeInv'
<1> DEFINE child == children[Here.node][Here.index + 1]
           advanced == [stack EXCEPT ![Len(stack)].index = @ + 1]
           n == Len(path)
<1>0. GraphTypeOK /\ SearchInv
  BY DEF GraphInv
<1>1. /\ pc = "searching" /\ stack # <<>> /\ Here.index < Len(children[Here.node])
      /\ UNCHANGED <<dependencies, children>>
  BY DEF visit_child, graph
<1>2. /\ path \in Seq(Vertices) /\ stack \in Seq([node : Vertices, index : Nat])
      /\ Len(stack) = n /\ n \in Nat /\ n >= 1
      /\ colour \in [Vertices -> {"white", "grey", "black"}]
      /\ \A i \in 1..n : stack[i].node = path[i]
  <2>1. path \in Seq(Vertices) /\ stack \in Seq([node : Vertices, index : Nat]) /\ Len(stack) = n
        /\ colour \in [Vertices -> {"white", "grey", "black"}]
    BY <1>0 DEF GraphTypeOK, SearchInv
  <2>2. n \in Nat /\ n >= 1
    BY <1>1, <2>1
  <2> QED
    BY <1>0, <2>1, <2>2 DEF SearchInv
<1>n. n = Len(path)
  OBVIOUS
<1> HIDE DEF n
<1>3. /\ Here = stack[n] /\ Here \in [node : Vertices, index : Nat]
      /\ Here.node = path[n] /\ path[n] \in Vertices
  <2>1. n \in 1..Len(stack) /\ n \in 1..n /\ n \in 1..Len(path)
    BY <1>2 DEF n
  <2>2. Here = stack[n]
    BY <1>2 DEF Here, Last
  <2>3. stack[n] \in [node : Vertices, index : Nat] /\ stack[n].node = path[n] /\ path[n] \in Vertices
    BY <1>2, <2>1, ElementOfSeq
  <2> QED
    BY <2>2, <2>3
<1>4. child \in Vertices /\ child = children[path[n]][stack[n].index + 1]
  <2>1. children[path[n]] \in Seq(Vertices)
    BY <1>0, <1>3 DEF GraphTypeOK
  <2>2. Here.index + 1 \in 1..Len(children[path[n]])
    BY <1>1, <1>3, <2>1
  <2> QED
    BY <1>3, <2>1, <2>2, ElementOfSeq
<1>5. /\ Len(advanced) = n
      /\ \A i \in 1..n : advanced[i].index = IF i = n THEN stack[n].index + 1 ELSE stack[i].index
      /\ advanced \in Seq([node : Vertices, index : Nat])
  <2> DEFINE top == [Here EXCEPT !.index = @ + 1]
  <2>1. top \in [node : Vertices, index : Nat] /\ top.index = stack[n].index + 1
    BY <1>3
  <2>2. advanced = [stack EXCEPT ![n] = top]
    BY <1>2, <1>3
  <2> HIDE DEF advanced, top
  <2>3. n \in 1..Len(stack)
    BY <1>2
  <2>4. /\ advanced \in Seq([node : Vertices, index : Nat]) /\ Len(advanced) = n
        /\ \A i \in 1..n : advanced[i] = IF i = n THEN top ELSE stack[i]
    BY <1>2, <2>1, <2>2, <2>3
  <2> QED
    BY <2>1, <2>4
<1> HIDE DEF child, advanced
<1>6. BlackInv /\ VisitedInv /\ ReasonInv
  BY <1>1 DEF JudgeInv
<1>7. Acyclic' <=> Acyclic
  BY <1>1 DEF Acyclic, Edge
<1>8. Black' = Black => BlackInv'
  BY <1>1, <1>6 DEF BlackInv, Requires
\* What the nodes on the path are past, with this child for the last one.
<1>9. ASSUME NEW i \in 1..n, NEW j \in 1..advanced[i].index, j <= Len(children[path[i]])
      PROVE  \/ children[path[i]][j] \in Black
             \/ i < n /\ children[path[i]][j] = path[i + 1]
             \/ i = n /\ children[path[i]][j] = child
  <2>1. stack[i].index \in Nat /\ i \in 1..Len(stack) /\ stack[n].index \in Nat
    <3>1. i \in 1..Len(stack)
      BY <1>2
    <3>2. stack[i] \in [node : Vertices, index : Nat]
      BY <1>2, <3>1, ElementOfSeq
    <3> QED
      BY <1>3, <3>1, <3>2
  <2>2. j \in 1..stack[i].index \/ (i = n /\ j = stack[n].index + 1)
    BY <1>5, <2>1
  <2> QED
    BY <1>4, <1>6, <1>n, <1>9, <2>1, <2>2 DEF VisitedInv
<1>10. CASE ClosesCycle(child)
  <2>1. pc' = "cycle" /\ colour' = colour
    BY <1>10 DEF visit_child, child
  <2>2. Black' = Black
    BY <2>1 DEF Black
  <2> QED
    BY <1>1, <1>6, <1>7, <1>8, <2>1, <2>2 DEF JudgeInv, ReasonInv
<1>11. CASE ~ClosesCycle(child) /\ colour[child] = "white"
  <2>1. /\ colour' = [colour EXCEPT ![child] = "grey"]
        /\ stack' = Append(advanced, [node |-> child, index |-> 0])
        /\ path' = Append(path, child) /\ pc' = pc
    BY <1>11 DEF visit_child, child, advanced
  <2>2. Black' = Black
    BY <1>2, <1>4, <1>11, <2>1 DEF Black
  <2>3. Len(path') = n + 1 /\ path'[n + 1] = child /\ \A i \in 1..n : path'[i] = path[i]
    BY <1>2, <1>4, <1>n, <2>1, Appended
  <2>4. /\ Len(stack') = n + 1 /\ stack'[n + 1] = [node |-> child, index |-> 0]
        /\ \A i \in 1..n : stack'[i] = advanced[i]
    <3>1. [node |-> child, index |-> 0] \in [node : Vertices, index : Nat]
      BY <1>4
    <3> QED
      BY <1>5, <2>1, <3>1, Appended
  <2>5. VisitedInv'
    <3> SUFFICES ASSUME NEW i \in 1..Len(stack'), NEW j \in 1..stack'[i].index,
                        j <= Len(children'[path'[i]])
                 PROVE  \/ children'[path'[i]][j] \in Black'
                        \/ i < Len(path') /\ children'[path'[i]][j] = path'[i + 1]
      BY DEF VisitedInv
    <3>1. i # n + 1
      <4>1. stack'[n + 1].index = 0
        BY <2>4
      <4> QED
        BY <4>1
    <3>2. i \in 1..n /\ path'[i] = path[i] /\ stack'[i] = advanced[i]
      BY <1>2, <2>3, <2>4, <3>1
    <3>3. i < n => path'[i + 1] = path[i + 1]
      <4>1. i < n => i + 1 \in 1..n
        BY <1>2, <3>2
      <4> QED
        BY <2>3, <4>1
    <3>4. \/ children[path[i]][j] \in Black
          \/ i < n /\ children[path[i]][j] = path[i + 1]
          \/ i = n /\ children[path[i]][j] = child
      BY <1>1, <1>9, <3>2
    <3> QED
      BY <1>1, <1>2, <2>2, <2>3, <3>2, <3>3, <3>4
  <2> QED
    BY <1>1, <1>6, <1>7, <1>8, <2>1, <2>2, <2>5 DEF JudgeInv, ReasonInv
<1>12. CASE ~ClosesCycle(child) /\ colour[child] # "white"
  <2>1. stack' = advanced /\ UNCHANGED <<path, colour, pc>>
    BY <1>12 DEF visit_child, child, advanced
  <2>2. child \in Black
    BY <1>2, <1>4, <1>12 DEF Black, ClosesCycle
  <2>3. Black' = Black
    BY <2>1 DEF Black
  <2>4. VisitedInv'
    BY <1>1, <1>5, <1>9, <1>n, <2>1, <2>2, <2>3 DEF VisitedInv
  <2> QED
    BY <1>1, <1>6, <1>7, <1>8, <2>1, <2>3, <2>4 DEF JudgeInv, ReasonInv
<1> QED
  BY <1>10, <1>11, <1>12

\* Every step keeps what the verdicts rest on.
LEMMA JudgeStep ==
    ASSUME GraphInv, JudgeInv, [GraphNext]_graph_vars
    PROVE  JudgeInv'
<1>1. CASE UNCHANGED graph_vars
  <2>1. UNCHANGED <<dependencies, children, colour, stack, path, pc>>
    BY <1>1 DEF graph_vars, graph, dfs
  <2>2. BlackInv' <=> BlackInv
    BY <2>1 DEF BlackInv, Black, Requires
  <2>3. VisitedInv' <=> VisitedInv
    BY <2>1 DEF VisitedInv, Black
  <2>4. Acyclic' <=> Acyclic
    BY <2>1 DEF Acyclic, Edge
  <2> QED
    BY <2>1, <2>2, <2>3, <2>4 DEF JudgeInv, ReasonInv
<1>2. CASE GraphNext
  BY <1>2, JudgeBeforeSearch, JudgeStartSearch, JudgeVisitChild, JudgeFinishNode DEF GraphNext
<1> QED
  BY <1>1, <1>2

\* core/dag.py: a call that has ended returned an order, or raised for what the
\* submission is: UnknownNodeError only when a dependency is no task, CycleError
\* only when there is a cycle, and the AssertionError never.
THEOREM DagVerdictHasReason ==
    GraphSpec => [](pc \notin {"building", "ordering", "searching"} => Judged)
<1>1. GraphInv /\ JudgeInv /\ [GraphNext]_graph_vars => JudgeInv'
  BY JudgeStep
<1>2. JudgeInv => (pc \notin {"building", "ordering", "searching"} => Judged)
  BY DEF JudgeInv, ReasonInv, Judged
<1> QED
  BY <1>1, <1>2, JudgeInitInv, GraphInvHolds, PTL DEF GraphSpec

-----------------------------------------------------------------------------
(* RetryPolicy.                                                            *)

\* f lists the powers of b up to the n-th.
PowersTo(f, b, n) ==
    /\ f \in [0..n -> Int]
    /\ \A e \in 0..n : f[e] = IF e = 0 THEN 1 ELSE b * f[e - 1]

\* There is a list of powers, however long: otherwise take the shortest that is missing
\* and multiply the last power of the one before it.
LEMMA PowersExist ==
    ASSUME NEW b \in Int
    PROVE  \A n \in Nat : \E f : PowersTo(f, b, n)
<1> DEFINE Bad == {n \in Nat : ~ \E f : PowersTo(f, b, n)}
<1> SUFFICES ASSUME Bad # {} PROVE FALSE
  OBVIOUS
<1>1. PICK n \in Bad : \A m \in Bad : n <= m
  BY Least
<1>2. n # 0
  <2>1. PowersTo([e \in 0..0 |-> 1], b, 0)
    BY DEF PowersTo
  <2> QED
    BY <1>1, <2>1
<1>3. n - 1 \in Nat /\ n - 1 \notin Bad
  BY <1>1, <1>2
<1>4. PICK f : PowersTo(f, b, n - 1)
  BY <1>3
<1> DEFINE g == [e \in 0..n |-> IF e = n THEN b * f[n - 1] ELSE f[e]]
<1>5. f \in [0..(n - 1) -> Int] /\ \A e \in 0..(n - 1) : f[e] = IF e = 0 THEN 1 ELSE b * f[e - 1]
  BY <1>4 DEF PowersTo
<1>6. f[n - 1] \in Int /\ b * f[n - 1] \in Int
  BY <1>3, <1>5
<1>7. \A e \in 0..n : e # n => e \in 0..(n - 1) /\ (e # 0 => e - 1 \in 0..n /\ e - 1 # n)
  BY <1>1
<1>8. g \in [0..n -> Int]
  BY <1>5, <1>6, <1>7
<1>9. \A e \in 0..n : g[e] = IF e = 0 THEN 1 ELSE b * g[e - 1]
  <2> SUFFICES ASSUME NEW e \in 0..n PROVE g[e] = IF e = 0 THEN 1 ELSE b * g[e - 1]
    OBVIOUS
  <2>1. CASE e = n
    <3>1. n - 1 \in 0..n /\ n - 1 # n
      BY <1>1, <1>3
    <3>2. g[n] = b * f[n - 1] /\ g[n - 1] = f[n - 1]
      BY <1>1, <3>1
    <3> QED
      BY <1>2, <2>1, <3>2
  <2>2. CASE e # n
    <3>1. g[e] = f[e] /\ (e # 0 => g[e - 1] = f[e - 1])
      BY <1>7, <2>2
    <3> QED
      BY <1>5, <1>7, <2>2, <3>1
  <2> QED
    BY <2>1, <2>2
<1>10. PowersTo(g, b, n)
  BY <1>8, <1>9 DEF PowersTo
<1> QED
  BY <1>1, <1>10

\* The powers next_delay takes.
LEMMA PowersAre ==
    ASSUME NEW b \in Int
    PROVE  PowersTo(Powers(b), b, ExponentCap)
<1>0. ExponentCap \in Nat
  BY AmountsAssumption
<1> DEFINE Rec(f) == f = [e \in 0..ExponentCap |-> IF e = 0 THEN 1 ELSE b * f[e - 1]]
<1>1. PICK f : PowersTo(f, b, ExponentCap)
  BY <1>0, PowersExist
<1>2. Rec(f)
  BY <1>1 DEF PowersTo
<1>3. Powers(b) = CHOOSE g : Rec(g)
  BY Zenon DEF Powers
<1>4. Rec(Powers(b))
  BY <1>2, <1>3, Zenon
<1> DEFINE P == Powers(b)
<1> HIDE DEF P
<1>5. P = [e \in 0..ExponentCap |-> IF e = 0 THEN 1 ELSE b * P[e - 1]]
  BY <1>4 DEF P
<1>6. \A e \in 0..ExponentCap : P[e] = IF e = 0 THEN 1 ELSE b * P[e - 1]
  BY <1>5
<1> DEFINE Bad == {e \in 0..ExponentCap : P[e] \notin Int}
<1>7. ASSUME Bad # {} PROVE FALSE
  <2>1. Bad \subseteq Nat
    BY <1>0
  <2>2. PICK e \in Bad : \A d \in Bad : e <= d
    BY <1>7, <2>1, Least
  <2>3. e # 0
    BY <1>6, <2>2
  <2>4. e - 1 \in 0..ExponentCap /\ e - 1 \notin Bad
    BY <1>0, <2>2, <2>3
  <2>5. P[e - 1] \in Int
    BY <2>4
  <2> QED
    BY <1>6, <2>2, <2>3, <2>5
<1>8. P \in [0..ExponentCap -> Int]
  <2>1. \A e \in 0..ExponentCap : P[e] \in Int
    BY <1>7
  <2> QED
    BY <1>5, <2>1
<1> QED
  BY <1>6, <1>8 DEF PowersTo, P

\* A product does not shrink when a factor of at least 1 joins it.
LEMMA Multiplied ==
    ASSUME NEW b \in Int, b >= 1, NEW x \in Int, x >= 0
    PROVE  b * x >= x /\ b * x \in Int
<1>1. (b - 1) * x >= 0
  OBVIOUS
<1>2. b * x = (b - 1) * x + x
  OBVIOUS
<1> QED
  BY <1>1, <1>2

\* Powers of a factor that is at least 1 do not shrink.
LEMMA PowersGrow ==
    ASSUME NEW b \in Int, b >= 1
    PROVE  /\ \A e \in 0..ExponentCap : Powers(b)[e] \in Int /\ Powers(b)[e] >= 1
           /\ \A e \in 1..ExponentCap : Powers(b)[e - 1] <= Powers(b)[e]
<1> DEFINE P == Powers(b)
<1>0. ExponentCap \in Nat
  BY AmountsAssumption
<1>1. /\ \A e \in 0..ExponentCap : P[e] \in Int
      /\ \A e \in 0..ExponentCap : P[e] = IF e = 0 THEN 1 ELSE b * P[e - 1]
  BY PowersAre DEF PowersTo
<1> HIDE DEF P
<1> DEFINE Bad == {e \in 0..ExponentCap : ~(P[e] >= 1)}
<1>2. ASSUME Bad # {} PROVE FALSE
  <2>1. Bad \subseteq Nat
    BY <1>0
  <2>2. PICK e \in Bad : \A d \in Bad : e <= d
    BY <1>2, <2>1, Least
  <2>3. e # 0
    BY <1>1, <2>2
  <2>4. e - 1 \in 0..ExponentCap /\ e - 1 \notin Bad
    BY <1>0, <2>2, <2>3
  <2>5. P[e - 1] \in Int /\ P[e - 1] >= 1
    BY <1>1, <2>4
  <2>6. b * P[e - 1] >= P[e - 1] /\ b * P[e - 1] \in Int
    BY <2>5, Multiplied
  <2>7. P[e] = b * P[e - 1]
    BY <1>1, <2>2, <2>3
  <2> QED
    BY <2>2, <2>5, <2>6, <2>7
<1>3. \A e \in 0..ExponentCap : P[e] \in Int /\ P[e] >= 1
  BY <1>1, <1>2
<1>4. ASSUME NEW e \in 1..ExponentCap PROVE P[e - 1] <= P[e]
  <2>1. e \in 0..ExponentCap /\ e # 0 /\ e - 1 \in 0..ExponentCap
    BY <1>0
  <2>2. P[e] = b * P[e - 1] /\ P[e - 1] \in Int /\ P[e - 1] >= 1
    BY <1>1, <1>3, <2>1
  <2>3. b * P[e - 1] >= P[e - 1] /\ b * P[e - 1] \in Int
    BY <2>2, Multiplied
  <2> QED
    BY <2>2, <2>3
<1> QED
  BY <1>3, <1>4 DEF P

-----------------------------------------------------------------------------
(* The invariant.                                                          *)

\* What is true of a policy that build_policy accepted.
Accepted(p) ==
    /\ p.type \in {"none", "fixed", "exponential"}
    /\ p.type = "fixed" => p.attempts \in Int /\ p.delay \in Int
    /\ p.type = "exponential" =>
         /\ {p.attempts, p.base, p.factor, p.max_delay} \subseteq Int /\ p.jitter \in BOOLEAN
         /\ p.base >= 0 /\ p.factor >= 1

\* The budget of a policy is the one its request names.
AsAsked(q, p) == q.max_attempts # Unset => p.type # "none" /\ p.attempts = q.max_attempts

RetryInv ==
    /\ request \in Request
    /\ policy \notin {Unbuilt, Rejected} => Accepted(policy) /\ AsAsked(request, policy)
    /\ attempt \in Nat
    /\ attempt # 0 => policy \notin {Unbuilt, Rejected} /\ delay \in next_delay(policy, attempt)
    /\ attempt = 0 => delay = NoDelay

\* The backoff before jitter does not shrink from one attempt to the next.
LEMMA RawGrows ==
    ASSUME NEW p, Accepted(p), p.type = "exponential", NEW n \in Nat, n >= 1
    PROVE  Raw(p, n) \in Int /\ Raw(p, n + 1) \in Int /\ Raw(p, n) <= Raw(p, n + 1)
<1> DEFINE P == Powers(p.factor)
           e1 == AtMost(n - 1, ExponentCap)
           e2 == AtMost(n, ExponentCap)
<1>0. ExponentCap \in Nat
  BY AmountsAssumption
<1>1. p.factor \in Int /\ p.factor >= 1 /\ p.base \in Int /\ p.base >= 0 /\ p.max_delay \in Int
  BY DEF Accepted
<1>2. /\ \A e \in 0..ExponentCap : P[e] \in Int /\ P[e] >= 1
      /\ \A e \in 1..ExponentCap : P[e - 1] <= P[e]
  BY <1>1, PowersGrow
<1>3. e1 \in 0..ExponentCap /\ e2 \in 0..ExponentCap /\ (e1 = e2 \/ (e1 = e2 - 1 /\ e2 \in 1..ExponentCap))
  BY <1>0 DEF AtMost
<1> HIDE DEF P, e1, e2
<1>4. P[e1] <= P[e2] /\ P[e1] \in Int /\ P[e2] \in Int
  BY <1>2, <1>3
<1>5. p.base * P[e1] <= p.base * P[e2] /\ p.base * P[e1] \in Int /\ p.base * P[e2] \in Int
  <2>1. \A a, x, y \in Int : a >= 0 /\ x <= y => a * x <= a * y
    <3> SUFFICES ASSUME NEW a \in Int, NEW x \in Int, NEW y \in Int, a >= 0, x <= y
                 PROVE  a * x <= a * y
      OBVIOUS
    <3>1. a * (y - x) >= 0
      OBVIOUS
    <3>2. a * (y - x) = a * y - a * x
      OBVIOUS
    <3> QED
      BY <3>1, <3>2
  <2> QED
    BY <1>1, <1>4, <2>1
<1>6. Raw(p, n) = AtMost(p.base * P[e1], p.max_delay)
  BY DEF Raw, P, e1
<1>7. Raw(p, n + 1) = AtMost(p.base * P[e2], p.max_delay)
  <2>1. (n + 1) - 1 = n
    OBVIOUS
  <2> QED
    BY <2>1 DEF Raw, P, e2
<1> QED
  BY <1>1, <1>5, <1>6, <1>7 DEF AtMost

\* An argument has the value its option was given.
LEMMA ArgumentValues ==
    ASSUME NEW q \in Request
    PROVE  LET k == Kwargs(to_spec(q))
           IN  /\ "attempts" \in DOMAIN k => k["attempts"] \in Int
               /\ \A a \in {"delay", "base", "factor", "max_delay"} : a \in DOMAIN k => k[a] \in Int
               /\ "jitter" \in DOMAIN k => k["jitter"] \in BOOLEAN
               /\ q.max_attempts # Unset =>
                    "attempts" \in DOMAIN k /\ k["attempts"] = q.max_attempts
<1> DEFINE spec == to_spec(q)
           k == Kwargs(spec)
           given == DOMAIN spec \ {"type"}
           names == {"type", "max_attempts", "delay", "base", "factor", "max_delay", "jitter"}
<1>1. DOMAIN q = names
  BY DEF Request
<1>2. DOMAIN spec = {f \in names : q[f] # Unset} /\ \A f \in DOMAIN spec : spec[f] = q[f]
  BY <1>1 DEF to_spec, Restrict
<1>3. /\ given \subseteq names \ {"type"}
      /\ \A f \in given : spec[f] = q[f] /\ q[f] # Unset
  BY <1>2
<1>4. /\ DOMAIN k = {Argument(f) : f \in given}
      /\ \A a \in DOMAIN k : k[a] = spec[CHOOSE f \in given : Argument(f) = a]
  BY DEF Kwargs
<1> HIDE DEF spec, k, given
<1>5. ASSUME NEW a \in DOMAIN k
      PROVE  \E f \in given : Argument(f) = a /\ k[a] = q[f]
  <2> DEFINE c == CHOOSE f \in given : Argument(f) = a
  <2>1. \E f \in given : Argument(f) = a
    BY <1>4
  <2>2. c \in given /\ Argument(c) = a
    BY <2>1
  <2>3. k[a] = spec[c]
    BY <1>4
  <2> HIDE DEF c
  <2> QED
    BY <1>3, <2>2, <2>3
<1>6. /\ q["max_attempts"] \in Int \cup {Unset}
      /\ q["delay"] \in Int \cup {Unset} /\ q["base"] \in Int \cup {Unset}
      /\ q["factor"] \in Int \cup {Unset} /\ q["max_delay"] \in Int \cup {Unset}
      /\ q["jitter"] \in BOOLEAN \cup {Unset}
  BY AmountsAssumption DEF Request
<1>7. ASSUME "attempts" \in DOMAIN k
      PROVE  k["attempts"] = q["max_attempts"] /\ q["max_attempts"] # Unset
  <2>1. PICK f \in given : Argument(f) = "attempts" /\ k["attempts"] = q[f]
    BY <1>5, <1>7
  <2>2. f = "max_attempts"
    BY <1>3, <2>1 DEF Argument
  <2> QED
    BY <1>3, <2>1, <2>2
<1>8. ASSUME NEW a \in {"delay", "base", "factor", "max_delay", "jitter"}, a \in DOMAIN k
      PROVE  k[a] = q[a] /\ q[a] # Unset
  <2>1. PICK f \in given : Argument(f) = a /\ k[a] = q[f]
    BY <1>5, <1>8
  <2>2. f = a
    BY <1>3, <2>1 DEF Argument
  <2> QED
    BY <1>3, <2>1, <2>2
<1>9. ASSUME q.max_attempts # Unset PROVE "attempts" \in DOMAIN k
  <2>1. "max_attempts" \in given
    BY <1>2, <1>9 DEF given
  <2> QED
    BY <1>4, <2>1 DEF Argument
<1> QED
  BY <1>6, <1>7, <1>8, <1>9 DEF k, spec

\* What build_policy accepts has whole numbers for its fields, passed __post_init__
\* and has the budget that was asked for.
LEMMA AcceptedPolicy ==
    ASSUME NEW q \in Request, build_policy(to_spec(q)) # Rejected
    PROVE  /\ Accepted(build_policy(to_spec(q)))
           /\ AsAsked(q, build_policy(to_spec(q)))
<1> DEFINE spec == to_spec(q)
           kind == IF "type" \in DOMAIN spec THEN lower(spec.type) ELSE "exponential"
           k == Kwargs(spec)
           c == Constructed(kind, k)
<1>1. kind \in DOMAIN Fields /\ Valid(kind, c) /\ build_policy(spec) = c /\ ~HasUnknown(kind, k)
  BY DEF build_policy
<1>2. /\ "attempts" \in DOMAIN k => k["attempts"] \in Int
      /\ \A a \in {"delay", "base", "factor", "max_delay"} : a \in DOMAIN k => k[a] \in Int
      /\ "jitter" \in DOMAIN k => k["jitter"] \in BOOLEAN
      /\ q.max_attempts # Unset => "attempts" \in DOMAIN k /\ k["attempts"] = q.max_attempts
  BY ArgumentValues
<1> HIDE DEF kind, k, spec
<1>3. kind \in {"none", "fixed", "exponential"} /\ c.type = kind
  BY <1>1 DEF Fields, Constructed
<1>4. ASSUME kind = "none" PROVE Accepted(c)
  <2> HIDE DEF c
  <2> QED
    BY <1>3, <1>4 DEF Accepted
<1>5. ASSUME kind = "fixed" PROVE Accepted(c)
  <2>1. c.attempts = IF "attempts" \in DOMAIN k THEN k["attempts"] ELSE 3
    BY <1>5 DEF Constructed, Fields
  <2>2. c.delay = IF "delay" \in DOMAIN k THEN k["delay"] ELSE 5
    BY <1>5 DEF Constructed, Fields
  <2> HIDE DEF c
  <2>3. c.attempts \in Int /\ c.delay \in Int
    BY <1>2, <2>1, <2>2
  <2> QED
    BY <1>3, <1>5, <2>3 DEF Accepted
<1>6. ASSUME kind = "exponential" PROVE Accepted(c)
  <2>1. /\ c.attempts = IF "attempts" \in DOMAIN k THEN k["attempts"] ELSE 5
        /\ c.base = IF "base" \in DOMAIN k THEN k["base"] ELSE 1
    BY <1>6 DEF Constructed, Fields
  <2>2. /\ c.factor = IF "factor" \in DOMAIN k THEN k["factor"] ELSE 2
        /\ c.max_delay = IF "max_delay" \in DOMAIN k THEN k["max_delay"] ELSE 300
    BY <1>6 DEF Constructed, Fields
  <2>3. c.jitter = IF "jitter" \in DOMAIN k THEN k["jitter"] ELSE TRUE
    BY <1>6 DEF Constructed, Fields
  <2> HIDE DEF c
  <2>4. c.attempts \in Int /\ c.base \in Int /\ c.factor \in Int /\ c.max_delay \in Int
    BY <1>2, <2>1, <2>2
  <2>5. c.jitter \in BOOLEAN
    BY <1>2, <2>3
  <2>6. c.base >= 0 /\ c.factor >= 1
    BY <1>1, <1>6 DEF Valid, ValidExponential
  <2> QED
    BY <1>3, <1>6, <2>4, <2>5, <2>6 DEF Accepted
<1>7. AsAsked(q, c)
  <2> SUFFICES ASSUME q.max_attempts # Unset PROVE c.type # "none" /\ c.attempts = q.max_attempts
    BY DEF AsAsked
  <2>1. "attempts" \in DOMAIN k /\ k["attempts"] = q.max_attempts
    BY <1>2
  <2>2. "attempts" \in DOMAIN Fields[kind]
    BY <1>1, <2>1 DEF HasUnknown
  <2>3. kind # "none"
    BY <2>2 DEF Fields
  <2>4. c.attempts = k["attempts"]
    BY <2>1, <2>2 DEF Constructed
  <2> QED
    BY <1>3, <2>1, <2>3, <2>4
<1> QED
  BY <1>1, <1>3, <1>4, <1>5, <1>6, <1>7 DEF spec

\* No policy is built yet.
LEMMA RetryInitInv ==
    RetryInit => RetryInv
  BY DEF RetryInit, RetryStart, RetryInv

\* A policy that build_policy accepts stays as it was built.
LEMMA RetryStep ==
    RetryInv /\ [RetryNext]_retry_vars => RetryInv'
<1> SUFFICES ASSUME RetryInv, [RetryNext]_retry_vars PROVE RetryInv'
  OBVIOUS
<1>1. CASE publish
  <2>1. attempt = 0 /\ delay = NoDelay
    BY <1>1 DEF publish, RetryInv
  <2>2. policy' # Rejected => Accepted(policy') /\ AsAsked(request, policy')
    BY <1>1, AcceptedPolicy DEF publish, RetryInv
  <2> QED
    BY <1>1, <2>1, <2>2 DEF publish, RetryInv
<1>2. CASE fail
  <2>1. /\ policy \notin {Unbuilt, Rejected} /\ UNCHANGED <<request, policy>> /\ attempt' = attempt + 1
        /\ delay' \in next_delay(policy', attempt')
    BY <1>2 DEF fail
  <2>2. attempt' \in Nat /\ attempt' # 0
    BY <2>1 DEF RetryInv
  <2> QED
    BY <2>1, <2>2 DEF RetryInv
<1>3. CASE UNCHANGED retry_vars
  BY <1>3 DEF retry_vars, RetryInv
<1> QED
  BY <1>1, <1>2, <1>3 DEF RetryNext

\* RetryInv is an invariant of the policy.
LEMMA RetryInvHolds ==
    RetrySpec => []RetryInv
  BY RetryInitInv, RetryStep, PTL DEF RetrySpec

\* A failure after a retried one does not get a shorter delay without jitter.
LEMMA FailBacksOff ==
    ASSUME RetryInv, fail, delay # NoDelay, delay' # NoDelay
    PROVE  delay' >= delay \/ (policy.type = "exponential" /\ policy.jitter)
<1> DEFINE n == attempt
           Clip(d) == AtMost(IF d < 0 THEN 0 ELSE d, MAX_DELAY_SECONDS)
<1>0. \A x, y \in Int : x <= y => Clip(x) <= Clip(y)
  <2>1. MAX_DELAY_SECONDS \in Nat
    BY AmountsAssumption
  <2> SUFFICES ASSUME NEW x \in Int, NEW y \in Int, x <= y PROVE Clip(x) <= Clip(y)
    OBVIOUS
  <2> QED
    BY <2>1 DEF AtMost
<1>1. /\ n \in Nat /\ n >= 1 /\ Accepted(policy)
      /\ delay \in next_delay(policy, n) /\ delay' \in next_delay(policy, n + 1)
  BY DEF RetryInv, fail
<1>2. PICK d1 \in compute_delay(policy, n) : delay = Clip(d1) /\ should_retry(policy, n)
  BY <1>1 DEF next_delay
<1>3. PICK d2 \in compute_delay(policy, n + 1) : delay' = Clip(d2)
  BY <1>1 DEF next_delay
<1> HIDE DEF Clip
<1>4. CASE policy.type = "none"
  BY <1>1, <1>2, <1>4 DEF should_retry, MaxAttempts
<1>5. CASE policy.type = "fixed"
  <2>1. d1 = policy.delay /\ d2 = policy.delay /\ policy.delay \in Int
    BY <1>1, <1>2, <1>3, <1>5 DEF compute_delay, Accepted
  <2> QED
    BY <1>0, <1>2, <1>3, <2>1
<1>6. CASE policy.type = "exponential" /\ ~policy.jitter
  <2>1. d1 = Raw(policy, n) /\ d2 = Raw(policy, n + 1)
    BY <1>2, <1>3, <1>6 DEF compute_delay
  <2>2. Raw(policy, n) \in Int /\ Raw(policy, n + 1) \in Int /\ Raw(policy, n) <= Raw(policy, n + 1)
    BY <1>1, <1>6, RawGrows
  <2> QED
    BY <1>0, <1>2, <1>3, <2>1, <2>2
<1> QED
  BY <1>1, <1>4, <1>5, <1>6 DEF Accepted

\* core/retry.py: of any policy build_policy accepts, each delay without jitter is at
\* least the one before it, past the caps on the exponent and on the delay too.
THEOREM RetryBacksOff ==
    RetrySpec => BackoffNeverShrinks
<1>1. RetryInv /\ [RetryNext]_retry_vars =>
        [fail /\ delay # NoDelay /\ delay' # NoDelay =>
           delay' >= delay \/ (policy.type = "exponential" /\ policy.jitter)]_retry_vars
  BY FailBacksOff
<1> QED
  BY <1>1, RetryInvHolds, PTL DEF RetrySpec, BackoffNeverShrinks

\* core/retry.py: a policy that build_policy accepts gives a task as many attempts as
\* its request names, whatever the type and the other options are.
THEOREM RetryBudget ==
    RetrySpec => []BudgetIsAsked
<1>1. ASSUME RetryInv, attempt # 0, request.max_attempts # Unset
      PROVE  delay = NoDelay <=> attempt >= request.max_attempts
  <2>1. /\ Accepted(policy) /\ AsAsked(request, policy) /\ attempt \in Nat \ {0}
        /\ delay \in next_delay(policy, attempt)
    BY <1>1 DEF RetryInv
  <2>2. MaxAttempts(policy) = request.max_attempts /\ request.max_attempts \in Int
    BY <1>1, <2>1 DEF MaxAttempts, AsAsked, Accepted
  <2>3. CASE attempt >= request.max_attempts
    BY <2>1, <2>2, <2>3 DEF next_delay, should_retry
  <2>4. CASE ~(attempt >= request.max_attempts)
    <3>1. PICK d \in compute_delay(policy, attempt) :
            delay = AtMost(IF d < 0 THEN 0 ELSE d, MAX_DELAY_SECONDS)
      BY <2>1, <2>2, <2>4 DEF next_delay, should_retry
    <3>2. d \in Int
      <4>1. CASE policy.type = "fixed"
        BY <2>1, <3>1, <4>1 DEF compute_delay, Accepted
      <4>2. CASE policy.type = "exponential"
        <5>1. Raw(policy, attempt) \in Int /\ policy.jitter \in BOOLEAN
          BY <2>1, <4>2, RawGrows DEF Accepted
        <5> QED
          BY <3>1, <4>2, <5>1 DEF compute_delay
      <4> QED
        BY <1>1, <2>1, <4>1, <4>2 DEF Accepted, AsAsked
    <3>3. delay >= 0
      BY <3>1, <3>2, AmountsAssumption DEF AtMost
    <3> QED
      BY <2>4, <3>3 DEF NoDelay
  <2> QED
    BY <2>3, <2>4
<1>2. RetryInv => BudgetIsAsked
  BY <1>1 DEF BudgetIsAsked
<1> QED
  BY <1>2, RetryInvHolds, PTL
=============================================================================
