-------------------------- MODULE DelayQueueProofs --------------------------
(***************************************************************************)
(* The delay queue is a heap, its index is exact, and it implements Timers,*)
(* for any set of keys and any times.                                      *)
(***************************************************************************)
EXTENDS DelayQueue, FiniteSetTheorems, SequenceTheorems, WellFoundedInduction, TLAPS

TypeOK ==
    /\ heap \in Seq(Entry)
    /\ index \in [Keys -> Nat]
    /\ pc \in {"idle", "up", "down", "draining"}
    /\ position \in Nat
    /\ settling \in Nat
    /\ returned \in Seq(Entry)
    /\ asked \in [now : Times \cup {0}, limit : 0..Cardinality(Keys)]

\* The entry at p is not due before its parent.
Settled(p) == heap[parent(p)].due_at <= heap[p].due_at

\* The children of p are not due before p's parent.
GrandparentFirst(p) ==
    p > 1 => \A q \in 2..Len(heap) : parent(q) = p => heap[parent(p)].due_at <= heap[q].due_at

\* While an entry moves up, only it may be due before its parent, and its children
\* before it, as long as it is where _sift_down will start.
UpInv ==
    pc = "up" =>
        /\ position \in 1..Len(heap)
        /\ settling \in 0..Len(heap)
        /\ settling # 0 => position <= settling
        /\ \A q \in 2..Len(heap) :
             q # position /\ (parent(q) # position \/ position # settling) => Settled(q)
        /\ GrandparentFirst(position)

\* While an entry moves down, only its children may be due before it.
DownInv ==
    pc = "down" =>
        /\ position \in 1..Len(heap)
        /\ \A q \in 2..Len(heap) : parent(q) # position => Settled(q)
        /\ GrandparentFirst(position)

\* What a drain has popped so far.
DrainInv ==
    /\ pc = "draining" => asked # NotAsked
    /\ asked # NotAsked =>
         /\ asked.now \in Times /\ asked.limit \in 1..Cardinality(Keys)
         /\ \A i \in 1..Len(returned) : returned[i].due_at <= asked.now
         /\ \A i, j \in 1..Len(returned) : i < j => returned[i].due_at <= returned[j].due_at
         /\ Len(returned) <= asked.limit
         /\ \A p \in 1..Len(heap), i \in 1..Len(returned) :
              returned[i].due_at <= heap[p].due_at
         /\ pc = "idle" =>
              \A p \in 1..Len(heap) : heap[p].due_at <= asked.now => Len(returned) = asked.limit
         /\ pc # "idle" =>
              /\ \A i \in 1..Len(returned) : index[returned[i].key] = 0
              /\ \A i, j \in 1..Len(returned) : returned[i].key = returned[j].key => i = j

QueueInv == TypeOK /\ IndexExact /\ UpInv /\ DownInv /\ HeapOrdered /\ DrainInv

-----------------------------------------------------------------------------
(* Positions and swaps.                                                    *)

\* The parent of a position other than the root is before it, and every position has
\* two children.
LEMMA Parents ==
    ASSUME NEW q \in Nat, q > 1
    PROVE  /\ parent(q) \in 1..(q - 1)
           /\ q = 2 * parent(q) \/ q = 2 * parent(q) + 1
BY DEF parent

\* The two children of a position, and no other, have it for their parent.
LEMMA Children ==
    ASSUME NEW p \in Nat, p > 0
    PROVE  /\ parent(2 * p) = p /\ parent(2 * p + 1) = p
           /\ \A q \in Nat : parent(q) = p => q = 2 * p \/ q = 2 * p + 1
BY DEF parent

\* A set of numbers that is not empty has a least one.
LEMMA Least ==
    ASSUME NEW T, T \subseteq Nat, T # {}
    PROVE  \E x \in T : \A y \in T : x <= y
<1> DEFINE R == {ss \in Nat \X Nat : ss[1] < ss[2]}
<1>1. IsWellFoundedOn(R, Nat)
  BY NatLessThanWellFounded, Zenon DEF OpToRel
<1>2. PICK x \in T : \A y \in T : ~ (<<y, x>> \in R)
  BY <1>1, WFMin, Zenon
<1>3. ASSUME NEW y \in T PROVE x <= y
  <2>1. x \in Nat /\ y \in Nat
    OBVIOUS
  <2>2. ASSUME y < x PROVE <<y, x>> \in R
    BY <2>1, <2>2
  <2> QED
    BY <1>2, <2>1, <2>2
<1> QED
  BY <1>3

\* What is in the heap, or has been drained from it, is an entry of a key.
LEMMA EntryType ==
    ASSUME TypeOK
    PROVE  /\ Len(heap) \in Nat /\ Len(returned) \in Nat
           /\ \A p \in 1..Len(heap) : heap[p] \in Entry /\ heap[p].key \in Keys
                                      /\ heap[p].due_at \in Int /\ heap[p].due_at \in Times
           /\ \A i \in 1..Len(returned) : returned[i] \in Entry /\ returned[i].key \in Keys
                                          /\ returned[i].due_at \in Int
<1>1. \A e \in Entry : e.key \in Keys /\ e.due_at \in Int /\ e.due_at \in Times
  BY TimesAssumption DEF Entry
<1>2. heap \in Seq(Entry) /\ returned \in Seq(Entry)
  BY DEF TypeOK
<1>3. \A p \in 1..Len(heap) : heap[p] \in Entry
  BY <1>2
<1>4. \A p \in 1..Len(returned) : returned[p] \in Entry
  BY <1>2
<1> QED
  BY <1>1, <1>2, <1>3, <1>4

\* The root of a heap is due first: of the entries due before it, the one at the least
\* position would be due before its parent.
LEMMA RootIsFirst ==
    ASSUME TypeOK, \A p \in 2..Len(heap) : Settled(p), NEW p \in 1..Len(heap)
    PROVE  heap[1].due_at <= heap[p].due_at
<1> DEFINE T == {q \in 1..Len(heap) : ~ (heap[1].due_at <= heap[q].due_at)}
<1>1. SUFFICES ASSUME T # {} PROVE FALSE
  OBVIOUS
<1>2. T \subseteq Nat
  BY EntryType
<1>3. PICK q \in T : \A r \in T : q <= r
  BY <1>1, <1>2, Least
<1>4. q \in 1..Len(heap) /\ q # 1
  BY <1>3, EntryType
<1>5. parent(q) \in 1..(q - 1) /\ parent(q) \in 1..Len(heap)
  BY <1>4, EntryType, Parents
<1>6. heap[1].due_at <= heap[parent(q)].due_at
  BY <1>2, <1>3, <1>4, <1>5, EntryType
<1>7. heap[parent(q)].due_at <= heap[q].due_at
  BY <1>4, EntryType DEF Settled
<1> QED
  BY <1>3, <1>4, <1>5, <1>6, <1>7, EntryType

\* What _swap does: two entries change places, and the index follows.
LEMMA Swapped ==
    ASSUME TypeOK, IndexExact, NEW i \in 1..Len(heap), NEW j \in 1..Len(heap), i # j, swap(i, j)
    PROVE  /\ heap' \in Seq(Entry) /\ Len(heap') = Len(heap)
           /\ heap'[i] = heap[j] /\ heap'[j] = heap[i]
           /\ \A p \in 1..Len(heap) : p # i /\ p # j => heap'[p] = heap[p]
           /\ index' \in [Keys -> Nat]
           /\ IndexExact'
           /\ \A k \in Keys : index'[k] = 0 <=> index[k] = 0
           /\ \A k \in Keys : index[k] # 0 => heap'[index'[k]] = heap[index[k]]
<1>1. heap \in Seq(Entry) /\ index \in [Keys -> Nat] /\ Len(heap) \in Nat
  BY DEF TypeOK
<1>2. heap[i] \in Entry /\ heap[j] \in Entry /\ heap[i].key \in Keys /\ heap[j].key \in Keys
  BY EntryType
<1>3. heap[i].key # heap[j].key
  BY DEF IndexExact
<1>4. /\ heap' \in Seq(Entry) /\ Len(heap') = Len(heap)
      /\ heap'[i] = heap[j] /\ heap'[j] = heap[i]
      /\ \A p \in 1..Len(heap) : p # i /\ p # j => heap'[p] = heap[p]
  BY <1>1, <1>2 DEF swap
<1>5. /\ index' \in [Keys -> Nat]
      /\ index'[heap[j].key] = i /\ index'[heap[i].key] = j
      /\ \A k \in Keys : k # heap[i].key /\ k # heap[j].key => index'[k] = index[k]
  BY <1>1, <1>2, <1>3 DEF swap
<1>6. \A p \in 1..Len(heap) : index'[heap'[p].key] = p
  <2>1. ASSUME NEW p \in 1..Len(heap), p # i, p # j PROVE index'[heap'[p].key] = p
    <3>1. heap[p].key # heap[i].key /\ heap[p].key # heap[j].key
      BY <2>1 DEF IndexExact
    <3> QED
      BY <2>1, <3>1, <1>4, <1>5, EntryType DEF IndexExact
  <2> QED
    BY <2>1, <1>4, <1>5
<1>7. ASSUME NEW k \in Keys, index'[k] # 0
      PROVE  index'[k] <= Len(heap) /\ heap'[index'[k]].key = k
  <2>1. CASE k = heap[i].key \/ k = heap[j].key
    BY <2>1, <1>1, <1>4, <1>5
  <2>2. CASE k # heap[i].key /\ k # heap[j].key
    <3>1. index'[k] = index[k]
      BY <2>2, <1>5
    <3>2. index[k] \in 1..Len(heap) /\ heap[index[k]].key = k
      BY <3>1, <1>1, <1>7 DEF IndexExact
    <3> QED
      BY <2>2, <3>1, <3>2, <1>1, <1>4
  <2> QED
    BY <2>1, <2>2
<1>8. IndexExact'
  BY <1>4, <1>6, <1>7 DEF IndexExact
<1>9. index[heap[i].key] = i /\ index[heap[j].key] = j
  BY DEF IndexExact
<1>10. \A k \in Keys : index'[k] = 0 <=> index[k] = 0
  BY <1>1, <1>5, <1>9
<1>11. ASSUME NEW k \in Keys, index[k] # 0 PROVE heap'[index'[k]] = heap[index[k]]
  <2>1. CASE k = heap[i].key \/ k = heap[j].key
    BY <2>1, <1>4, <1>5, <1>9
  <2>2. CASE k # heap[i].key /\ k # heap[j].key
    <3>1. index'[k] = index[k]
      BY <2>2, <1>5
    <3>2. index[k] \in 1..Len(heap) /\ heap[index[k]].key = k
      BY <1>1, <1>11 DEF IndexExact
    <3> QED
      BY <2>2, <3>1, <3>2, <1>1, <1>4
  <2> QED
    BY <2>1, <2>2
<1> QED
  BY <1>4, <1>5, <1>8, <1>10, <1>11

-----------------------------------------------------------------------------
(* The sifts.                                                              *)

\* A sift moves entries about, so what a drain has popped stays due no later than they.
LEMMA SwapKeeps ==
    ASSUME QueueInv, NEW i \in 1..Len(heap), NEW j \in 1..Len(heap), i # j, swap(i, j),
           pc \in {"up", "down"}, position' = j, UNCHANGED <<pc, settling, returned, asked>>
    PROVE  TypeOK' /\ IndexExact' /\ HeapOrdered' /\ DrainInv'
<1> USE DEF QueueInv
<1>1. /\ heap' \in Seq(Entry) /\ Len(heap') = Len(heap)
      /\ heap'[i] = heap[j] /\ heap'[j] = heap[i]
      /\ \A p \in 1..Len(heap) : p # i /\ p # j => heap'[p] = heap[p]
      /\ index' \in [Keys -> Nat]
      /\ IndexExact'
      /\ \A k \in Keys : index'[k] = 0 <=> index[k] = 0
  BY Swapped
<1>2. TypeOK'
  BY <1>1, EntryType DEF TypeOK
<1>3. \A p \in 1..Len(heap) : \E q \in 1..Len(heap) : heap'[p] = heap[q]
  BY <1>1
<1>4. DrainInv'
  <2>1. \A k \in 1..Len(returned) : returned[k].key \in Keys
    BY EntryType
  <2> QED
    BY <1>1, <1>3, <2>1 DEF DrainInv
<1> QED
  BY <1>1, <1>2, <1>4 DEF HeapOrdered

\* A swap of _sift_up moves the one entry that may come before its parent.
LEMMA UpStep == QueueInv /\ sift_up => QueueInv'
<1> SUFFICES ASSUME QueueInv, sift_up PROVE QueueInv'
  OBVIOUS
<1> DEFINE p == position
           g == parent(position)
           n == Len(heap)
<1>0. TypeOK /\ IndexExact /\ UpInv /\ pc = "up"
  BY DEF QueueInv, sift_up
<1>1. /\ n \in Nat /\ p \in 1..n /\ p > 1 /\ heap[p].due_at < heap[g].due_at
      /\ settling \in 0..n /\ (settling # 0 => p <= settling)
  BY <1>0, EntryType DEF UpInv, sift_up, EarlierThanParent
<1>2. g \in 1..n /\ g < p /\ g # p /\ g # settling
  BY <1>1, Parents
<1>3. swap(p, g) /\ position' = g /\ UNCHANGED <<pc, settling, returned, asked>>
  BY DEF sift_up
<1>4. TypeOK' /\ IndexExact' /\ HeapOrdered' /\ DrainInv'
  BY <1>0, <1>1, <1>2, <1>3, SwapKeeps
<1>5. /\ Len(heap') = n
      /\ heap'[p] = heap[g] /\ heap'[g] = heap[p]
      /\ \A q \in 1..n : q # p /\ q # g => heap'[q] = heap[q]
  BY <1>0, <1>1, <1>2, <1>3, Swapped
<1> HIDE DEF p, g, n
<1>6. \A q \in 1..n : heap[q].due_at \in Int
  BY <1>0, EntryType DEF n
<1>7. /\ \A q \in 2..n : q # p /\ parent(q) # p => heap[parent(q)].due_at <= heap[q].due_at
      /\ \A q \in 2..n : parent(q) = p => heap[g].due_at <= heap[q].due_at
  BY <1>0, <1>1 DEF UpInv, Settled, GrandparentFirst, p, g, n
<1>8. \A q \in 2..n : parent(q) \in 1..n /\ parent(q) < q
  BY <1>1, Parents
<1>9. ASSUME NEW q \in 2..n, q # g PROVE heap'[parent(q)].due_at <= heap'[q].due_at
  <2>0. q \in 1..n
    BY <1>1
  <2>1. CASE q = p
    BY <2>1, <1>1, <1>2, <1>5, <1>6 DEF g, p
  <2>2. CASE parent(q) = p
    BY <2>0, <2>2, <1>2, <1>5, <1>7, <1>8, <1>9
  <2>3. CASE q # p /\ parent(q) = g
    <3>1. heap[g].due_at <= heap[q].due_at
      BY <2>3, <1>2, <1>7
    <3>2. heap'[q] = heap[q] /\ heap'[g] = heap[p]
      BY <2>0, <2>3, <1>5, <1>9
    <3> QED
      BY <2>0, <2>3, <3>1, <3>2, <1>1, <1>2, <1>6
  <2>4. CASE q # p /\ parent(q) # p /\ parent(q) # g
    BY <2>0, <2>4, <1>5, <1>7, <1>8, <1>9
  <2> QED
    BY <2>1, <2>2, <2>3, <2>4
<1>10. ASSUME g > 1, NEW q \in 2..n, parent(q) = g
       PROVE  heap'[parent(g)].due_at <= heap'[q].due_at
  <2>1. g \in 2..n /\ parent(g) \in 1..n /\ parent(g) < g
    BY <1>2, <1>8, <1>10
  <2>2. heap[parent(g)].due_at <= heap[g].due_at /\ heap'[parent(g)] = heap[parent(g)]
    BY <1>2, <1>5, <1>7, <2>1
  <2>3. heap[g].due_at <= heap'[q].due_at
    BY <1>2, <1>5, <1>6, <1>7, <1>8, <1>10
  <2>4. q \in 1..n /\ heap'[q].due_at \in Int
    BY <1>1, <1>2, <1>5, <1>6, <1>8, <1>10
  <2> QED
    BY <2>1, <2>2, <2>3, <2>4, <1>2, <1>6
<1>11. UpInv'
  <2>1. position' = g /\ Len(heap') = n /\ settling' = settling
    BY <1>3, <1>5 DEF g
  <2>2. \A q \in 2..n : q # g => Settled(q)'
    BY <1>9 DEF Settled, parent
  <2>3. GrandparentFirst(position)'
    BY <1>10, <2>1 DEF GrandparentFirst, parent
  <2> QED
    BY <1>1, <1>2, <2>1, <2>2, <2>3 DEF UpInv
<1>12. DownInv'
  BY <1>0, <1>3 DEF DownInv
<1> QED
  BY <1>4, <1>11, <1>12 DEF QueueInv

\* _sift_up stops where the entry is in order with its parent, and has never left it out of
\* order with its children.
LEMMA UpEnds == QueueInv /\ sift_up_ends => QueueInv'
<1> SUFFICES ASSUME QueueInv, sift_up_ends PROVE QueueInv'
  OBVIOUS
<1>0. TypeOK /\ IndexExact /\ UpInv /\ DrainInv /\ pc = "up"
  BY DEF QueueInv, sift_up_ends
<1>1. UNCHANGED <<heap, index, settling, returned, asked>> /\ position' = settling
      /\ pc' = IF settling = 0 THEN Resume(asked) ELSE "down"
  BY DEF sift_up_ends
<1>2. /\ position \in 1..Len(heap) /\ Len(heap) \in Nat
      /\ settling \in 0..Len(heap)
      /\ \A q \in 2..Len(heap) :
           q # position /\ (parent(q) # position \/ position # settling) => Settled(q)
      /\ GrandparentFirst(position)
  BY <1>0, EntryType DEF UpInv
<1>3. position > 1 => Settled(position)
  <2>1. ASSUME position > 1 PROVE parent(position) \in 1..Len(heap)
    BY <1>2, <2>1, Parents
  <2> QED
    BY <1>0, <1>2, <2>1, EntryType DEF sift_up_ends, EarlierThanParent, Settled
<1>4. \A q \in 2..Len(heap) : parent(q) # position \/ position # settling => Settled(q)
  BY <1>2, <1>3
<1>5. TypeOK' /\ IndexExact'
  BY <1>0, <1>1 DEF TypeOK, IndexExact, Resume
<1>6. DrainInv'
  BY <1>0, <1>1 DEF DrainInv, Resume
<1>7. UpInv'
  BY <1>1 DEF UpInv, Resume
<1>8. CASE settling = 0
  <2>1. \A q \in 2..Len(heap) : Settled(q)
    BY <1>2, <1>4, <1>8
  <2> QED
    BY <1>1, <1>5, <1>6, <1>7, <1>8, <2>1 DEF QueueInv, DownInv, HeapOrdered, Settled, parent, Resume
<1>9. CASE settling # 0
  <2>1. pc' = "down" /\ position' = settling /\ settling \in 1..Len(heap)
    BY <1>1, <1>2, <1>9
  <2>2. \A q \in 2..Len(heap) : parent(q) # settling => Settled(q)
    BY <1>4
  <2>3. GrandparentFirst(settling)
    <3>1. CASE position = settling
      BY <1>2, <3>1
    <3>2. CASE position # settling
      <4>1. SUFFICES ASSUME settling > 1, NEW q \in 2..Len(heap), parent(q) = settling
                     PROVE  heap[parent(settling)].due_at <= heap[q].due_at
        BY DEF GrandparentFirst
      <4>2. Settled(q) /\ Settled(settling)
        BY <1>2, <1>4, <3>2, <4>1
      <4>3. parent(settling) \in 1..Len(heap)
        BY <1>2, <4>1, Parents
      <4> QED
        BY <1>0, <1>2, <4>1, <4>2, <4>3, EntryType DEF Settled
    <3> QED
      BY <3>1, <3>2
  <2>4. DownInv'
    BY <1>1, <2>1, <2>2, <2>3 DEF DownInv, GrandparentFirst, Settled, parent
  <2>5. HeapOrdered'
    BY <2>1 DEF HeapOrdered
  <2> QED
    BY <1>5, <1>6, <1>7, <2>4, <2>5 DEF QueueInv
<1> QED
  BY <1>8, <1>9

\* Smallest looks at a position and its two children.
LEMMA SmallestIsLeast ==
    ASSUME TypeOK, NEW p \in 1..Len(heap)
    PROVE  /\ Smallest(p) \in 1..Len(heap)
           /\ Smallest(p) # p => Smallest(p) > 1 /\ parent(Smallest(p)) = p
                                 /\ heap[Smallest(p)].due_at < heap[p].due_at
           /\ \A q \in 2..Len(heap) :
                parent(q) = p => heap[Smallest(p)].due_at <= heap[q].due_at
<1> DEFINE n == Len(heap)
<1>1. n \in Nat /\ \A q \in 1..n : heap[q].due_at \in Int
  BY EntryType
<1>2. parent(2 * p) = p /\ parent(2 * p + 1) = p
      /\ \A q \in Nat : parent(q) = p => q = 2 * p \/ q = 2 * p + 1
  BY <1>1, Children
<1> HIDE DEF n
<1>3. /\ Smallest(p) \in 1..n
      /\ Smallest(p) # p => Smallest(p) \in {2 * p, 2 * p + 1}
                            /\ heap[Smallest(p)].due_at < heap[p].due_at
      /\ heap[Smallest(p)].due_at <= heap[p].due_at
      /\ 2 * p <= n => heap[Smallest(p)].due_at <= heap[2 * p].due_at
      /\ 2 * p + 1 <= n => heap[Smallest(p)].due_at <= heap[2 * p + 1].due_at
  <2>1. CASE 2 * p + 1 <= n
    <3>1. p \in 1..n /\ 2 * p \in 1..n /\ 2 * p + 1 \in 1..n /\ 2 * p <= n
      BY <1>1, <2>1 DEF n
    <3> QED
      BY <1>1, <2>1, <3>1 DEF Smallest, n
  <2>2. CASE 2 * p = n
    <3>1. p \in 1..n /\ 2 * p \in 1..n /\ 2 * p <= n /\ ~ (2 * p + 1 <= n)
      BY <1>1, <2>2 DEF n
    <3> QED
      BY <1>1, <2>2, <3>1 DEF Smallest, n
  <2>3. CASE 2 * p > n
    <3>1. p \in 1..n /\ ~ (2 * p <= n) /\ ~ (2 * p + 1 <= n)
      BY <1>1, <2>3 DEF n
    <3> QED
      BY <1>1, <3>1 DEF Smallest, n
  <2> QED
    BY <1>1, <2>1, <2>2, <2>3 DEF n
<1>4. ASSUME NEW q \in 2..n, parent(q) = p PROVE heap[Smallest(p)].due_at <= heap[q].due_at
  <2>1. q \in Nat /\ q <= n
    BY <1>1
  <2>2. q = 2 * p \/ q = 2 * p + 1
    BY <1>2, <1>4, <2>1
  <2> QED
    BY <1>3, <2>1, <2>2
<1>5. p \in Nat /\ p > 0
  BY <1>1 DEF n
<1> QED
  BY <1>2, <1>3, <1>4, <1>5 DEF n

\* A swap of _sift_down moves the one entry that may come after its children.
LEMMA DownStep == QueueInv /\ sift_down => QueueInv'
<1> SUFFICES ASSUME QueueInv, sift_down PROVE QueueInv'
  OBVIOUS
<1> DEFINE p == position
           c == Smallest(position)
           n == Len(heap)
<1>0. TypeOK /\ IndexExact /\ DownInv /\ pc = "down"
  BY DEF QueueInv, sift_down
<1>1. n \in Nat /\ p \in 1..n /\ c # p
  BY <1>0, EntryType DEF DownInv, sift_down
<1>2. /\ c \in 1..n /\ c > 1 /\ parent(c) = p /\ heap[c].due_at < heap[p].due_at
      /\ \A q \in 2..n : parent(q) = p => heap[c].due_at <= heap[q].due_at
  BY <1>0, <1>1, SmallestIsLeast
<1>3. swap(p, c) /\ position' = c /\ UNCHANGED <<pc, settling, returned, asked>>
  BY DEF sift_down
<1>4. TypeOK' /\ IndexExact' /\ HeapOrdered' /\ DrainInv'
  BY <1>0, <1>1, <1>2, <1>3, SwapKeeps
<1>5. /\ Len(heap') = n
      /\ heap'[p] = heap[c] /\ heap'[c] = heap[p]
      /\ \A q \in 1..n : q # p /\ q # c => heap'[q] = heap[q]
  BY <1>0, <1>1, <1>2, <1>3, Swapped
<1> HIDE DEF p, c, n
<1>6. \A q \in 1..n : heap[q].due_at \in Int
  BY <1>0, EntryType DEF n
<1>7. /\ \A q \in 2..n : parent(q) # p => heap[parent(q)].due_at <= heap[q].due_at
      /\ p > 1 => \A q \in 2..n : parent(q) = p => heap[parent(p)].due_at <= heap[q].due_at
  BY <1>0, <1>1 DEF DownInv, Settled, GrandparentFirst, p, n
<1>8. \A q \in 2..n : parent(q) \in 1..n /\ parent(q) < q /\ q \in 1..n
  BY <1>1, Parents
<1>9. ASSUME NEW q \in 2..n, parent(q) # c PROVE heap'[parent(q)].due_at <= heap'[q].due_at
  <2>1. CASE q = c
    BY <2>1, <1>1, <1>2, <1>5, <1>6
  <2>2. CASE q # c /\ parent(q) = p
    <3>1. q # p
      BY <1>1, <1>8, <2>2
    <3> QED
      BY <2>2, <3>1, <1>2, <1>5, <1>8
  <2>3. CASE q = p
    <3>1. c \in 2..n /\ parent(p) \in 1..n /\ parent(p) < p /\ p > 1 /\ p < c
      BY <1>1, <1>2, <1>8, <2>3
    <3>2. heap'[parent(p)] = heap[parent(p)]
      BY <1>5, <3>1, <1>1, <1>2
    <3> QED
      BY <2>3, <3>1, <3>2, <1>2, <1>5, <1>7
  <2>4. CASE q # c /\ q # p /\ parent(q) # p
    BY <2>4, <1>5, <1>7, <1>8, <1>9
  <2> QED
    BY <2>1, <2>2, <2>3, <2>4
<1>10. ASSUME NEW q \in 2..n, parent(q) = c
       PROVE  heap'[parent(c)].due_at <= heap'[q].due_at
  <2>1. heap[c].due_at <= heap[q].due_at
    BY <1>1, <1>7, <1>10
  <2>2. q # c /\ q # p
    BY <1>1, <1>2, <1>8, <1>10
  <2> QED
    BY <2>1, <2>2, <1>2, <1>5, <1>8
<1>11. DownInv'
  <2>1. position' = c /\ Len(heap') = n
    BY <1>3, <1>5 DEF c
  <2>2. \A q \in 2..n : parent(q) # c => Settled(q)'
    BY <1>9 DEF Settled, parent
  <2>3. GrandparentFirst(position)'
    BY <1>10, <2>1 DEF GrandparentFirst, parent
  <2> QED
    BY <1>2, <2>1, <2>2, <2>3 DEF DownInv
<1>12. UpInv'
  BY <1>0, <1>3 DEF UpInv
<1> QED
  BY <1>4, <1>11, <1>12 DEF QueueInv

\* _sift_down stops where the entry is in order with its children.
LEMMA DownEnds == QueueInv /\ sift_down_ends => QueueInv'
<1> SUFFICES ASSUME QueueInv, sift_down_ends PROVE QueueInv'
  OBVIOUS
<1>0. TypeOK /\ IndexExact /\ DownInv /\ DrainInv /\ pc = "down"
  BY DEF QueueInv, sift_down_ends
<1>1. UNCHANGED <<heap, index, returned, asked>> /\ pc' = Resume(asked) /\ position' = 0
      /\ settling' = 0 /\ Smallest(position) = position
  BY DEF sift_down_ends
<1>2. position \in 1..Len(heap) /\ \A q \in 2..Len(heap) : parent(q) # position => Settled(q)
  BY <1>0 DEF DownInv
<1>3. \A q \in 2..Len(heap) : parent(q) = position => Settled(q)
  BY <1>0, <1>1, <1>2, SmallestIsLeast DEF Settled
<1>4. HeapOrdered'
  BY <1>1, <1>2, <1>3 DEF HeapOrdered, Settled, parent
<1>5. TypeOK' /\ IndexExact'
  BY <1>0, <1>1 DEF TypeOK, IndexExact, Resume
<1>6. DrainInv'
  BY <1>0, <1>1 DEF DrainInv, Resume
<1> QED
  BY <1>1, <1>4, <1>5, <1>6 DEF QueueInv, UpInv, DownInv, Resume

-----------------------------------------------------------------------------
(* The operations.                                                         *)

\* What _remove_at does before the sifts: the entry at p is gone, the last one is in its
\* place, and only there may the heap be out of order.
LEMMA Removed ==
    ASSUME QueueInv, pc \in {"idle", "draining"}, NEW p \in 1..Len(heap),
           NEW args, remove_at(p, args)
    PROVE  /\ heap' \in Seq(Entry) /\ Len(heap') = Len(heap) - 1
           /\ \A q \in 1..Len(heap') : heap'[q] = IF q = p THEN heap[Len(heap)] ELSE heap[q]
           /\ index' \in [Keys -> Nat] /\ IndexExact'
           /\ \A k \in Keys : index'[k] = 0 <=> index[k] = 0 \/ k = heap[p].key
           /\ \A k \in Keys : index'[k] # 0 => heap'[index'[k]] = heap[index[k]]
           /\ pc' = "up" \/ pc' = Resume(args)
           /\ position' \in Nat /\ settling' \in Nat
           /\ UpInv' /\ DownInv' /\ HeapOrdered'
<1> DEFINE n == Len(heap)
<1>0. TypeOK /\ IndexExact /\ HeapOrdered /\ n \in Nat /\ n >= 1
  BY EntryType DEF QueueInv
<1>1. \A q \in 1..n : heap[q] \in Entry /\ heap[q].key \in Keys /\ heap[q].due_at \in Int
  BY <1>0, EntryType
<1>2. heap \in Seq(Entry) /\ index \in [Keys -> Nat] /\ position \in Nat /\ settling \in Nat
  BY <1>0 DEF TypeOK
<1>3. /\ \A q \in 1..n : index[heap[q].key] = q
      /\ \A k \in Keys : index[k] # 0 => index[k] \in 1..n /\ heap[index[k]].key = k
  BY <1>0, <1>2 DEF IndexExact
<1>4. \A q \in 2..n : heap[parent(q)].due_at <= heap[q].due_at
  BY <1>0 DEF HeapOrdered
<1>5. Front(heap) \in Seq(Entry) /\ Len(Front(heap)) = n - 1
      /\ (\A q \in 1..(n - 1) : Front(heap)[q] = heap[q])
      /\ Last(heap) = heap[n]
  <2>1. \A q \in 1..(n - 1) : heap[q] \in Entry
    BY <1>0, <1>1
  <2>2. n - 1 \in Int /\ 1 \in Int /\ (IF 1 <= n - 1 THEN n - 1 - 1 + 1 ELSE 0) = n - 1
        /\ \A q \in 1..(n - 1) : 1 + q - 1 = q
    BY <1>0
  <2>3. /\ SubSeq(heap, 1, n - 1) \in Seq(Entry)
        /\ Len(SubSeq(heap, 1, n - 1)) = n - 1
        /\ \A q \in 1..(n - 1) : SubSeq(heap, 1, n - 1)[q] = heap[q]
    BY <1>0, <1>2, <2>1, <2>2, SubSeqProperties
  <2> QED
    BY <2>3 DEF Front, Last
<1> HIDE DEF n
<1>6. /\ heap' \in Seq(Entry) /\ Len(heap') = n - 1
      /\ \A q \in 1..(n - 1) : heap'[q] = IF q = p THEN heap[n] ELSE heap[q]
  <2>1. CASE p < n
    <3>1. heap' = [Front(heap) EXCEPT ![p] = heap[n]]
      BY <1>5, <2>1 DEF remove_at, n
    <3>2. p \in 1..Len(Front(heap)) /\ heap[n] \in Entry
      BY <1>0, <1>1, <1>5, <2>1 DEF n
    <3> QED
      BY <1>5, <3>1, <3>2
  <2>2. CASE p = n
    <3>1. heap' = Front(heap)
      BY <1>0, <2>2 DEF remove_at, n
    <3> QED
      BY <1>0, <1>5, <2>2, <3>1
  <2> QED
    BY <1>0, <2>1, <2>2 DEF n
<1>7. \A k \in Keys : index'[k] = IF k = heap[p].key THEN 0
                                  ELSE IF k = heap[n].key THEN p ELSE index[k]
  BY <1>5 DEF remove_at, MovedTo
<1>8. index' \in [Keys -> Nat]
  <2>1. p \in Nat
    OBVIOUS
  <2>2. index' = [k \in Keys |-> index'[k]]
    BY DEF remove_at
  <2> QED
    BY <1>2, <1>7, <2>1, <2>2
<1>9. ASSUME NEW q \in 1..(n - 1) PROVE index'[heap'[q].key] = q
  <2>1. q \in 1..n /\ n \in 1..n /\ q # n
    BY <1>0, <1>9
  <2>2. CASE q = p
    <3>1. heap[n].key # heap[p].key
      BY <1>3, <2>1, <2>2
    <3> QED
      BY <1>1, <1>6, <1>7, <1>9, <2>1, <2>2, <3>1
  <2>3. CASE q # p
    <3>1. heap[q].key # heap[p].key /\ heap[q].key # heap[n].key
      BY <1>3, <2>1, <2>3 DEF n
    <3> QED
      BY <1>1, <1>3, <1>6, <1>7, <1>9, <2>1, <2>3, <3>1
  <2> QED
    BY <2>2, <2>3
<1>10. ASSUME NEW k \in Keys, index'[k] # 0
       PROVE  index'[k] \in 1..(n - 1) /\ heap'[index'[k]] = heap[index[k]]
              /\ heap[index[k]].key = k /\ index[k] # 0
  <2>1. k # heap[p].key
    BY <1>7, <1>10
  <2>2. CASE k = heap[n].key
    <3>1. index[k] = n /\ index'[k] = p /\ p # n
      BY <1>0, <1>3, <1>7, <2>1, <2>2
    <3> QED
      BY <1>0, <1>6, <2>2, <3>1 DEF n
  <2>3. CASE k # heap[n].key
    <3>1. index'[k] = index[k] /\ index[k] \in 1..n /\ heap[index[k]].key = k
      BY <1>3, <1>7, <1>10, <2>1, <2>3
    <3>2. index[k] # n /\ index[k] # p
      BY <2>1, <2>3, <3>1
    <3> QED
      BY <1>0, <1>6, <3>1, <3>2
  <2> QED
    BY <2>2, <2>3
<1>11. IndexExact'
  BY <1>0, <1>6, <1>9, <1>10 DEF IndexExact
<1>12. \A k \in Keys : index'[k] = 0 <=> index[k] = 0 \/ k = heap[p].key
  <2>1. ASSUME NEW k \in Keys, index[k] = 0 PROVE k # heap[n].key
    BY <1>0, <1>3, <2>1
  <2>2. p # 0
    OBVIOUS
  <2> QED
    BY <1>7, <2>1, <2>2
<1>13. CASE p < n
  <2>1. pc' = "up" /\ position' = p /\ settling' = p
    BY <1>13 DEF remove_at, Resettle, n
  <2>2. p \in 1..(n - 1) /\ p \in Nat
    BY <1>0, <1>13 DEF n
  <2>3. \A q \in 2..(n - 1) : parent(q) \in 1..(n - 1) /\ parent(q) < q /\ q \in 1..(n - 1)
                              /\ q \in 2..n
    BY <1>0, Parents
  <2>4. ASSUME NEW q \in 2..(n - 1), q # p, parent(q) # p
        PROVE  heap'[parent(q)].due_at <= heap'[q].due_at
    BY <1>4, <1>6, <2>3, <2>4
  <2>5. ASSUME p > 1, NEW q \in 2..(n - 1), parent(q) = p
        PROVE  heap'[parent(p)].due_at <= heap'[q].due_at
    <3>1. p \in 2..(n - 1) /\ p \in 2..n /\ q # p /\ parent(p) # p
      BY <2>2, <2>3, <2>5
    <3>2. heap'[q] = heap[q] /\ heap'[parent(p)] = heap[parent(p)]
      BY <1>6, <2>3, <3>1
    <3>3. heap[parent(p)].due_at <= heap[p].due_at /\ heap[p].due_at <= heap[q].due_at
      BY <1>4, <2>3, <2>5, <3>1
    <3>4. parent(p) \in 1..n /\ q \in 1..n /\ p \in 1..n
      BY <1>0, <2>2, <2>3, <3>1
    <3> QED
      BY <1>1, <3>2, <3>3, <3>4
  <2>6. \A q \in 2..(n - 1) : q # p /\ parent(q) # p => Settled(q)'
    BY <2>4 DEF Settled, parent
  <2>7. GrandparentFirst(position)'
    BY <1>6, <2>1, <2>5 DEF GrandparentFirst, parent
  <2>8. UpInv'
    BY <1>6, <2>1, <2>2, <2>6, <2>7 DEF UpInv
  <2>9. DownInv' /\ HeapOrdered'
    BY <2>1 DEF DownInv, HeapOrdered
  <2> QED
    BY <1>6, <1>8, <1>10, <1>11, <1>12, <2>1, <2>2, <2>8, <2>9 DEF n
<1>14. CASE p = n
  <2>1. pc' = Resume(args) /\ UNCHANGED <<position, settling>>
    BY <1>0, <1>14 DEF remove_at, n
  <2>2. \A q \in 2..(n - 1) : parent(q) \in 1..(n - 1) /\ q \in 1..(n - 1) /\ q \in 2..n
    BY <1>0, Parents
  <2>3. \A q \in 1..(n - 1) : heap'[q] = heap[q]
    BY <1>0, <1>6, <1>14
  <2>4. HeapOrdered'
    BY <1>4, <1>6, <2>2, <2>3 DEF HeapOrdered, parent
  <2>5. UpInv' /\ DownInv'
    BY <2>1 DEF UpInv, DownInv, Resume
  <2> QED
    BY <1>2, <1>6, <1>8, <1>10, <1>11, <1>12, <2>1, <2>4, <2>5 DEF n
<1> QED
  BY <1>0, <1>13, <1>14 DEF n

\* Between two sifts the first entry is the earliest.
LEMMA ReadyIsHeap ==
    ASSUME QueueInv, pc \in {"idle", "draining"}
    PROVE  \A p \in 1..Len(heap) : heap[1].due_at <= heap[p].due_at
<1>1. \A p \in 2..Len(heap) : Settled(p)
  BY DEF QueueInv, HeapOrdered, Settled
<1> QED
  BY <1>1, RootIsFirst DEF QueueInv

\* A new key is appended and sifts up from the end.
LEMMA PushStep ==
    ASSUME QueueInv, NEW k \in Keys, NEW t \in Times, push(k, t)
    PROVE  QueueInv'
<1> DEFINE n == Len(heap)
           e == [key |-> k, due_at |-> t]
<1>0. TypeOK /\ IndexExact /\ HeapOrdered /\ n \in Nat /\ pc = "idle" /\ e \in Entry
  BY EntryType DEF QueueInv, push, Entry
<1>1. /\ heap' \in Seq(Entry) /\ Len(heap') = n + 1 /\ heap'[n + 1] = e
      /\ \A p \in 1..n : heap'[p] = heap[p]
  BY <1>0 DEF push, TypeOK
<1>2. /\ index' \in [Keys -> Nat] /\ index'[k] = n + 1 /\ index[k] = 0
      /\ \A j \in Keys : j # k => index'[j] = index[j]
  BY <1>0 DEF push, TypeOK
<1>3. pc' = "up" /\ position' = n + 1 /\ settling' = 0 /\ returned' = <<>> /\ asked' = NotAsked
  BY DEF push
<1> HIDE DEF n, e
<1>4. TypeOK'
  <2>1. asked' \in [now : Times \cup {0}, limit : 0..Cardinality(Keys)]
    <3>1. Cardinality(Keys) \in Nat
      BY KeysAssumption, FS_CardinalityType
    <3> QED
      BY <1>3, <3>1 DEF NotAsked
  <2> QED
    BY <1>0, <1>1, <1>2, <1>3, <2>1 DEF TypeOK
<1>5. IndexExact'
  <2>1. \A p \in 1..n : heap[p].key \in Keys /\ index[heap[p].key] = p /\ heap[p].key # k
    BY <1>0, <1>2, EntryType DEF IndexExact, n
  <2>2. \A p \in 1..(n + 1) : index'[heap'[p].key] = p
    <3>1. e.key = k
      BY DEF e
    <3>2. \A p \in 1..(n + 1) : p \in 1..n \/ p = n + 1
      BY <1>0
    <3> QED
      BY <1>1, <1>2, <2>1, <3>1, <3>2
  <2>3. ASSUME NEW j \in Keys, index'[j] # 0
        PROVE  index'[j] <= n + 1 /\ heap'[index'[j]].key = j
    <3>1. CASE j = k
      BY <1>0, <1>1, <1>2, <3>1 DEF e
    <3>2. CASE j # k
      <4>1. index'[j] = index[j] /\ index[j] \in 1..n /\ heap[index[j]].key = j
        BY <1>0, <1>2, <2>3, <3>2 DEF IndexExact, TypeOK, n
      <4> QED
        BY <1>0, <1>1, <4>1
    <3> QED
      BY <3>1, <3>2
  <2> QED
    BY <1>1, <2>2, <2>3 DEF IndexExact
<1>6. UpInv'
  <2>1. \A q \in 2..(n + 1) : parent(q) \in 1..n
    BY <1>0, Parents
  <2>2. \A q \in 2..(n + 1) : q # n + 1 => q \in 2..n /\ q \in 1..n
    BY <1>0
  <2>3. \A q \in 2..(n + 1) : q # n + 1 => Settled(q)'
    BY <1>0, <1>1, <2>1, <2>2 DEF Settled, HeapOrdered, parent, n
  <2>4. GrandparentFirst(position)'
    BY <1>0, <1>1, <1>3, <2>1 DEF GrandparentFirst, parent
  <2> QED
    BY <1>0, <1>1, <1>3, <2>3, <2>4 DEF UpInv
<1> QED
  BY <1>3, <1>4, <1>5, <1>6 DEF QueueInv, DownInv, HeapOrdered, DrainInv

\* A key that is pushed again is changed in place and sifts both ways from there.
LEMMA ReplaceStep ==
    ASSUME QueueInv, NEW k \in Keys, NEW t \in Times, replace(k, t)
    PROVE  QueueInv'
<1> DEFINE n == Len(heap)
           p == index[k]
           e == [key |-> k, due_at |-> t]
<1>0. TypeOK /\ IndexExact /\ HeapOrdered /\ n \in Nat /\ pc = "idle" /\ e \in Entry
  BY EntryType DEF QueueInv, replace, Entry
<1>1. p \in 1..n /\ heap[p].key = k /\ p \in Nat
  BY <1>0 DEF replace, IndexExact, TypeOK
<1>2. /\ heap' \in Seq(Entry) /\ Len(heap') = n /\ heap'[p] = e
      /\ \A q \in 1..n : q # p => heap'[q] = heap[q]
  BY <1>0, <1>1 DEF replace, TypeOK
<1>3. pc' = "up" /\ position' = p /\ settling' = p /\ returned' = <<>> /\ asked' = NotAsked
      /\ index' = index
  BY DEF replace, Resettle
<1> HIDE DEF n, p, e
<1>4. TypeOK'
  <2>1. asked' \in [now : Times \cup {0}, limit : 0..Cardinality(Keys)]
    <3>1. Cardinality(Keys) \in Nat
      BY KeysAssumption, FS_CardinalityType
    <3> QED
      BY <1>3, <3>1 DEF NotAsked
  <2> QED
    BY <1>0, <1>1, <1>2, <1>3, <2>1 DEF TypeOK
<1>5. IndexExact'
  <2>1. \A q \in 1..n : heap'[q].key = heap[q].key
    BY <1>1, <1>2 DEF e
  <2>2. \A j \in Keys : index[j] # 0 => index[j] \in 1..n
    BY <1>0 DEF IndexExact, TypeOK, n
  <2> QED
    BY <1>0, <1>2, <1>3, <2>1, <2>2 DEF IndexExact, n
<1>6. UpInv'
  <2>1. \A q \in 2..n : parent(q) \in 1..n /\ parent(q) < q /\ q \in 1..n
    BY <1>0, Parents
  <2>2. \A q \in 2..n : heap[parent(q)].due_at <= heap[q].due_at
    BY <1>0 DEF HeapOrdered, n
  <2>3. \A q \in 2..n : q # p /\ parent(q) # p => Settled(q)'
    BY <1>2, <2>1, <2>2 DEF Settled, parent
  <2>4. ASSUME p > 1, NEW q \in 2..n, parent(q) = p
        PROVE  heap'[parent(p)].due_at <= heap'[q].due_at
    <3>1. p \in 2..n /\ q # p /\ parent(p) # p
      BY <1>1, <2>1, <2>4
    <3>2. heap'[q] = heap[q] /\ heap'[parent(p)] = heap[parent(p)]
      BY <1>2, <2>1, <3>1
    <3>3. heap[parent(p)].due_at <= heap[p].due_at /\ heap[p].due_at <= heap[q].due_at
      BY <2>2, <2>4, <3>1
    <3>4. heap[parent(p)].due_at \in Int /\ heap[p].due_at \in Int /\ heap[q].due_at \in Int
      BY <1>0, <1>1, <2>1, <3>1, EntryType DEF n
    <3> QED
      BY <3>2, <3>3, <3>4
  <2>5. GrandparentFirst(position)'
    BY <1>2, <1>3, <2>4 DEF GrandparentFirst, parent
  <2> QED
    BY <1>1, <1>2, <1>3, <2>3, <2>5 DEF UpInv
<1> QED
  BY <1>3, <1>4, <1>5, <1>6 DEF QueueInv, DownInv, HeapOrdered, DrainInv

\* pop and cancel, which differ in the position.
LEMMA RemoveStep ==
    ASSUME QueueInv, pc = "idle", NEW p \in 1..Len(heap), remove_at(p, NotAsked),
           returned' = <<heap[p]>>, asked' = NotAsked
    PROVE  QueueInv'
<1>1. /\ heap' \in Seq(Entry) /\ index' \in [Keys -> Nat] /\ IndexExact'
      /\ pc' = "up" \/ pc' = Resume(NotAsked)
      /\ position' \in Nat /\ settling' \in Nat
      /\ UpInv' /\ DownInv' /\ HeapOrdered'
  BY Removed
<1>2. heap[p] \in Entry
  BY EntryType DEF QueueInv
<1>3. asked' \in [now : Times \cup {0}, limit : 0..Cardinality(Keys)]
  <2>1. Cardinality(Keys) \in Nat
    BY KeysAssumption, FS_CardinalityType
  <2> QED
    BY <2>1 DEF NotAsked
<1>4. TypeOK'
  BY <1>1, <1>2, <1>3 DEF TypeOK, Resume
<1>5. DrainInv'
  BY <1>1 DEF DrainInv, Resume
<1> QED
  BY <1>1, <1>4, <1>5 DEF QueueInv

\* A drain starts with nothing returned.
LEMMA PopDueStep ==
    ASSUME QueueInv, NEW now \in Times, NEW limit \in 1..Cardinality(Keys), pop_due(now, limit)
    PROVE  QueueInv'
<1>1. UNCHANGED <<heap, index, position, settling>> /\ pc' = "draining" /\ returned' = <<>>
      /\ asked' = [now |-> now, limit |-> limit] /\ pc = "idle"
  BY DEF pop_due
<1>2. Cardinality(Keys) \in Nat
  BY KeysAssumption, FS_CardinalityType
<1>3. asked' \in [now : Times \cup {0}, limit : 0..Cardinality(Keys)] /\ asked' # NotAsked
      /\ asked'.now = now /\ asked'.limit = limit
  BY <1>1, <1>2 DEF NotAsked
<1>4. TypeOK' /\ IndexExact' /\ HeapOrdered'
  BY <1>1, <1>3 DEF QueueInv, TypeOK, IndexExact, HeapOrdered
<1>5. DrainInv'
  BY <1>1, <1>2, <1>3 DEF DrainInv
<1> QED
  BY <1>1, <1>4, <1>5 DEF QueueInv, UpInv, DownInv

\* The root that a drain pops is due no earlier than what it popped before, and no later
\* than what stays.
LEMMA DrainStep == QueueInv /\ drain => QueueInv'
<1> SUFFICES ASSUME QueueInv, drain PROVE QueueInv'
  OBVIOUS
<1> DEFINE m == Len(returned)
<1>0. TypeOK /\ IndexExact /\ DrainInv /\ pc = "draining" /\ asked # NotAsked
  BY DEF QueueInv, drain, DrainInv
<1>1. /\ heap # <<>> /\ heap[1].due_at <= asked.now /\ m < asked.limit
      /\ remove_at(1, asked) /\ returned' = Append(returned, heap[1]) /\ asked' = asked
  BY DEF drain, IsDue
<1>2. 1 \in 1..Len(heap) /\ Len(heap) \in Nat /\ m \in Nat
  BY <1>0, <1>1, EntryType DEF TypeOK
<1>3. /\ heap' \in Seq(Entry) /\ Len(heap') = Len(heap) - 1
      /\ \A q \in 1..Len(heap') : heap'[q] = IF q = 1 THEN heap[Len(heap)] ELSE heap[q]
      /\ index' \in [Keys -> Nat] /\ IndexExact'
      /\ \A k \in Keys : index'[k] = 0 <=> index[k] = 0 \/ k = heap[1].key
      /\ pc' = "up" \/ pc' = Resume(asked)
      /\ position' \in Nat /\ settling' \in Nat
      /\ UpInv' /\ DownInv' /\ HeapOrdered'
  BY <1>0, <1>1, <1>2, Removed
<1>4. heap[1] \in Entry /\ heap[1].key \in Keys /\ index[heap[1].key] = 1
  BY <1>0, <1>2, EntryType DEF IndexExact
<1>5. /\ returned' \in Seq(Entry) /\ Len(returned') = m + 1 /\ returned'[m + 1] = heap[1]
      /\ \A i \in 1..m : returned'[i] = returned[i]
  BY <1>0, <1>1, <1>4 DEF TypeOK
<1>6. pc' \in {"up", "draining"}
  BY <1>0, <1>3 DEF Resume
<1>7. TypeOK'
  BY <1>0, <1>1, <1>3, <1>5, <1>6 DEF TypeOK
<1>8. \A p \in 1..Len(heap) : heap[1].due_at <= heap[p].due_at
  BY <1>0, ReadyIsHeap
<1>9. \A q \in 1..Len(heap') : \E p \in 1..Len(heap) : heap'[q] = heap[p]
  BY <1>2, <1>3
<1>10. \A i \in 1..(m + 1) : i \in 1..m \/ i = m + 1
  BY <1>2
<1>11. DrainInv'
  <2>1. asked.now \in Times /\ asked.limit \in 1..Cardinality(Keys)
    BY <1>0 DEF DrainInv
  <2>2. \A i \in 1..(m + 1) : returned'[i].due_at <= asked.now
    BY <1>0, <1>1, <1>5, <1>10 DEF DrainInv
  <2>3. \A i, j \in 1..(m + 1) : i < j => returned'[i].due_at <= returned'[j].due_at
    <3>1. ASSUME NEW i \in 1..(m + 1), NEW j \in 1..(m + 1), i < j
          PROVE  returned'[i].due_at <= returned'[j].due_at
      <4>1. i \in 1..m
        BY <1>2, <3>1
      <4>2. CASE j = m + 1
        BY <1>0, <1>2, <1>5, <4>1, <4>2 DEF DrainInv
      <4>3. CASE j \in 1..m
        BY <1>0, <1>5, <3>1, <4>1, <4>3 DEF DrainInv
      <4> QED
        BY <1>10, <4>2, <4>3
    <3> QED
      BY <3>1
  <2>4. m + 1 <= asked.limit
    BY <1>1, <1>2, <2>1
  <2>5. \A q \in 1..Len(heap'), i \in 1..(m + 1) : returned'[i].due_at <= heap'[q].due_at
    BY <1>0, <1>5, <1>8, <1>9, <1>10 DEF DrainInv
  <2>6. \A i \in 1..m : returned[i].key \in Keys /\ index[returned[i].key] = 0
                        /\ returned[i].key # heap[1].key
    BY <1>0, <1>4, EntryType DEF DrainInv
  <2>7. \A i \in 1..(m + 1) : index'[returned'[i].key] = 0
    BY <1>3, <1>4, <1>5, <1>10, <2>6
  <2>8. \A i, j \in 1..(m + 1) : returned'[i].key = returned'[j].key => i = j
    <3>1. \A i, j \in 1..m : returned[i].key = returned[j].key => i = j
      BY <1>0 DEF DrainInv
    <3> QED
      BY <1>5, <1>10, <2>6, <3>1
  <2> QED
    BY <1>0, <1>1, <1>5, <1>6, <2>1, <2>2, <2>3, <2>4, <2>5, <2>7, <2>8 DEF DrainInv
<1> QED
  BY <1>3, <1>7, <1>11 DEF QueueInv

\* A drain that stops has returned limit entries, or left none that is due.
LEMMA DrainEnds == QueueInv /\ drain_ends => QueueInv'
<1> SUFFICES ASSUME QueueInv, drain_ends PROVE QueueInv'
  OBVIOUS
<1>0. TypeOK /\ DrainInv /\ pc = "draining" /\ asked # NotAsked
  BY DEF QueueInv, drain_ends, DrainInv
<1>1. UNCHANGED <<heap, index, position, settling, returned, asked>> /\ pc' = "idle"
      /\ ~ (IsDue(asked.now) /\ Len(returned) < asked.limit)
  BY DEF drain_ends
<1>2. ASSUME NEW p \in 1..Len(heap), heap[p].due_at <= asked.now
      PROVE  Len(returned) = asked.limit
  <2>1. heap # <<>> /\ 1 \in 1..Len(heap)
    BY <1>0, <1>2, EntryType DEF TypeOK
  <2>2. heap[1].due_at <= heap[p].due_at
    BY <1>0, ReadyIsHeap
  <2>3. heap[1].due_at \in Int /\ heap[p].due_at \in Int /\ asked.now \in Int
    BY <1>0, <2>1, EntryType, TimesAssumption DEF DrainInv
  <2>4. IsDue(asked.now)
    BY <1>2, <2>1, <2>2, <2>3 DEF IsDue
  <2>5. Len(returned) <= asked.limit /\ asked.limit \in Nat /\ Len(returned) \in Nat
    BY <1>0, EntryType DEF DrainInv
  <2> QED
    BY <1>1, <2>4, <2>5
<1>3. DrainInv'
  BY <1>0, <1>1, <1>2 DEF DrainInv
<1>4. TypeOK' /\ IndexExact' /\ HeapOrdered'
  BY <1>0, <1>1 DEF QueueInv, TypeOK, IndexExact, HeapOrdered
<1> QED
  BY <1>1, <1>3, <1>4 DEF QueueInv, UpInv, DownInv

\* Every step keeps QueueInv.
LEMMA QueueStep == QueueInv /\ [Next]_vars => QueueInv'
<1> SUFFICES ASSUME QueueInv, [Next]_vars PROVE QueueInv'
  OBVIOUS
<1>1. ASSUME pop PROVE QueueInv'
  <2>1. 1 \in 1..Len(heap)
    BY <1>1, EntryType DEF pop, QueueInv, TypeOK
  <2> QED
    BY <1>1, <2>1, RemoveStep DEF pop
<1>2. ASSUME NEW k \in Keys, cancel(k) PROVE QueueInv'
  <2>1. index[k] \in 1..Len(heap)
    BY <1>2 DEF cancel, QueueInv, TypeOK, IndexExact
  <2> QED
    BY <1>2, <2>1, RemoveStep DEF cancel
<1>3. CASE UNCHANGED vars
  BY <1>3 DEF vars, QueueInv, TypeOK, IndexExact, UpInv, DownInv, HeapOrdered, DrainInv,
              Settled, GrandparentFirst
<1> QED
  BY <1>1, <1>2, <1>3, PushStep, ReplaceStep, PopDueStep, DrainStep, DrainEnds, UpStep, UpEnds,
     DownStep, DownEnds DEF Next

\* The empty queue is a heap.
LEMMA QueueInitInv == Init => QueueInv
<1> SUFFICES ASSUME Init PROVE QueueInv
  OBVIOUS
<1>1. Cardinality(Keys) \in Nat
  BY KeysAssumption, FS_CardinalityType
<1>2. TypeOK
  BY <1>1 DEF Init, TypeOK, NotAsked
<1>3. IndexExact /\ UpInv /\ DownInv /\ HeapOrdered /\ DrainInv
  BY DEF Init, IndexExact, UpInv, DownInv, HeapOrdered, DrainInv
<1> QED
  BY <1>2, <1>3 DEF QueueInv

\* QueueInv is an invariant of the queue.
LEMMA QueueInvHolds == Spec => []QueueInv
BY QueueInitInv, QueueStep, PTL DEF Spec

\* Between operations the heap is ordered, for any keys and times, after any pushes,
\* reschedules, withdrawals and drains.
THEOREM QueueIsHeap == Spec => []HeapOrdered
<1>1. QueueInv => HeapOrdered
  BY DEF QueueInv
<1> QED
  BY <1>1, QueueInvHolds, PTL

\* The index is the inverse of the heap at every swap, so that cancel and _replace reach
\* the entry of their key.
THEOREM QueueIsIndexed == Spec => []IndexExact
<1>1. QueueInv => IndexExact
  BY DEF QueueInv
<1> QED
  BY <1>1, QueueInvHolds, PTL

\* pop_due returns the due timers, earliest first, and leaves one only at its limit.
THEOREM DrainReturnsTheDue == Spec => []DrainIsExact
<1>1. QueueInv => DrainIsExact
  BY DEF QueueInv, DrainInv, DrainIsExact
<1> QED
  BY <1>1, QueueInvHolds, PTL

-----------------------------------------------------------------------------
(* The delay queue implements Timers.                                      *)

Due == [k \in Keys |-> DueOf(k)]

\* The timer of a key is that of its entry in the heap, or of the one entry of it that a
\* drain holds back.
LEMMA DueOfEntry ==
    ASSUME QueueInv, NEW k \in Keys
    PROVE  /\ index[k] # 0 => index[k] \in 1..Len(heap) /\ heap[index[k]].key = k
                              /\ DueOf(k) = heap[index[k]].due_at /\ DueOf(k) # Never
           /\ pc = "idle" \/ asked = NotAsked =>
                HeldBack(k) = {} /\ (index[k] = 0 <=> DueOf(k) = Never)
           /\ \A i \in 1..Len(returned) :
                pc # "idle" /\ asked # NotAsked /\ returned[i].key = k =>
                    index[k] = 0 /\ DueOf(k) = returned[i].due_at /\ DueOf(k) # Never
           /\ index[k] = 0 /\ (\A i \in 1..Len(returned) : returned[i].key # k) => DueOf(k) = Never
<1>1. TypeOK /\ IndexExact /\ DrainInv
  BY DEF QueueInv
<1>2. index[k] # 0 => index[k] \in 1..Len(heap) /\ heap[index[k]].key = k
                      /\ heap[index[k]].due_at \in Int
  BY <1>1, EntryType DEF IndexExact, TypeOK
<1>3. index[k] # 0 => DueOf(k) = heap[index[k]].due_at /\ DueOf(k) # Never
  BY <1>2, TimesAssumption DEF DueOf
<1>4. pc = "idle" \/ asked = NotAsked => HeldBack(k) = {}
  BY DEF HeldBack
<1>5. HeldBack(k) = {} /\ index[k] = 0 => DueOf(k) = Never
  BY DEF DueOf
<1>6. ASSUME NEW i \in 1..Len(returned), pc # "idle", asked # NotAsked, returned[i].key = k
      PROVE  index[k] = 0 /\ DueOf(k) = returned[i].due_at /\ DueOf(k) # Never
  <2>1. index[k] = 0 /\ \A j \in 1..Len(returned) : returned[j].key = k => j = i
    BY <1>1, <1>6 DEF DrainInv
  <2>2. HeldBack(k) = {i}
    BY <1>6, <2>1 DEF HeldBack
  <2>3. (CHOOSE j \in HeldBack(k) : TRUE) = i
    BY <2>2
  <2>4. returned[i].due_at \in Int
    BY <1>1, <1>6, EntryType
  <2> QED
    BY <2>1, <2>2, <2>3, <2>4, TimesAssumption DEF DueOf
<1>7. (\A i \in 1..Len(returned) : returned[i].key # k) => HeldBack(k) = {}
  BY DEF HeldBack
<1> QED
  BY <1>2, <1>3, <1>4, <1>5, <1>6, <1>7

\* A step that keeps the timer of every key stutters.
LEMMA SameTimers ==
    ASSUME \A k \in Keys : DueOf(k)' = DueOf(k)
    PROVE  Due' = Due
BY DEF Due

\* Sifting moves entries and changes no timer.
LEMMA SiftKeepsTimers ==
    ASSUME QueueInv, sift_up \/ sift_up_ends \/ sift_down \/ sift_down_ends
    PROVE  Due' = Due
<1>1. TypeOK /\ IndexExact
  BY DEF QueueInv
<1>2. UNCHANGED <<returned, asked>> /\ pc \in {"up", "down"}
      /\ (pc' = pc \/ pc' = Resume(asked) \/ pc' = "down")
  BY DEF sift_up, sift_up_ends, sift_down, sift_down_ends
<1>3. \A k \in Keys : HeldBack(k)' = HeldBack(k)
  BY <1>2 DEF HeldBack, Resume
<1>4. /\ \A k \in Keys : index'[k] = 0 <=> index[k] = 0
      /\ \A k \in Keys : index[k] # 0 => heap'[index'[k]] = heap[index[k]]
  <2>1. CASE sift_up
    <3>1. position \in 1..Len(heap) /\ position > 1 /\ parent(position) \in 1..(position - 1)
      BY <2>1, <1>1, EntryType, Parents DEF QueueInv, UpInv, sift_up, EarlierThanParent
    <3>2. parent(position) \in 1..Len(heap) /\ parent(position) # position
      BY <3>1, <1>1, EntryType
    <3> QED
      BY <2>1, <3>1, <3>2, <1>1, Swapped DEF sift_up
  <2>2. CASE sift_down
    <3>1. position \in 1..Len(heap) /\ Smallest(position) # position
      BY <2>2 DEF QueueInv, DownInv, sift_down
    <3>2. Smallest(position) \in 1..Len(heap)
      BY <3>1, <1>1, SmallestIsLeast
    <3> QED
      BY <2>2, <3>1, <3>2, <1>1, Swapped DEF sift_down
  <2>3. CASE sift_up_ends \/ sift_down_ends
    BY <2>3 DEF sift_up_ends, sift_down_ends
  <2> QED
    BY <2>1, <2>2, <2>3
<1>5. ASSUME NEW k \in Keys PROVE DueOf(k)' = DueOf(k)
  <2>1. CASE index[k] # 0
    <3>1. index'[k] # 0 /\ heap'[index'[k]] = heap[index[k]]
      BY <1>4, <2>1
    <3> QED
      BY <2>1, <3>1 DEF DueOf
  <2>2. CASE index[k] = 0
    <3>1. index'[k] = 0 /\ HeldBack(k)' = HeldBack(k) /\ returned' = returned
      BY <1>2, <1>3, <1>4, <2>2
    <3> QED
      BY <2>2, <3>1 DEF DueOf
  <2> QED
    BY <2>1, <2>2
<1> QED
  BY <1>5, SameTimers

\* A push, new or not, sets the timer of its key.
LEMMA PushSetsTimer ==
    ASSUME QueueInv, QueueInv', NEW k \in Keys, NEW t \in Times, push(k, t) \/ replace(k, t)
    PROVE  Due' = [Due EXCEPT ![k] = t]
<1>1. TypeOK /\ IndexExact /\ pc = "idle" /\ asked' = NotAsked
  BY DEF QueueInv, push, replace
<1>2. \A j \in Keys : index[j] # 0 => index[j] \in 1..Len(heap) /\ heap[index[j]].key = j
  BY DueOfEntry
<1>3. \A j \in Keys : /\ HeldBack(j) = {} /\ (index[j] = 0 => DueOf(j) = Never)
                      /\ index[j] # 0 => DueOf(j) = heap[index[j]].due_at
  BY <1>1, DueOfEntry
<1>4. \A j \in Keys : /\ index'[j] = 0 => DueOf(j)' = Never
                      /\ index'[j] # 0 => DueOf(j)' = heap'[index'[j]].due_at
  BY <1>1 DEF DueOf, HeldBack
<1>5. CASE push(k, t)
  <2>1. /\ index'[k] = Len(heap) + 1 /\ heap'[Len(heap) + 1] = [key |-> k, due_at |-> t]
        /\ \A j \in Keys : j # k => index'[j] = index[j]
        /\ \A p \in 1..Len(heap) : heap'[p] = heap[p]
        /\ Len(heap) + 1 # 0
    BY <1>1, <1>5 DEF push, TypeOK
  <2>2. DueOf(k)' = t
    BY <1>4, <2>1
  <2>3. \A j \in Keys : j # k => DueOf(j)' = DueOf(j)
    BY <1>2, <1>3, <1>4, <2>1
  <2> QED
    BY <2>2, <2>3 DEF Due
<1>6. CASE replace(k, t)
  <2>1. index' = index /\ index[k] # 0
    BY <1>6 DEF replace
  <2>2. index[k] \in 1..Len(heap)
    BY <1>2, <2>1
  <2>3. /\ heap'[index[k]] = [key |-> k, due_at |-> t]
        /\ \A p \in 1..Len(heap) : p # index[k] => heap'[p] = heap[p]
    BY <1>1, <1>6, <2>2 DEF replace, TypeOK
  <2>4. \A j \in Keys : j # k /\ index[j] # 0 => index[j] # index[k]
    BY <1>2, <2>1
  <2>5. DueOf(k)' = t
    BY <1>4, <2>1, <2>3
  <2>6. \A j \in Keys : j # k => DueOf(j)' = DueOf(j)
    BY <1>2, <1>3, <1>4, <2>1, <2>3, <2>4
  <2> QED
    BY <2>5, <2>6 DEF Due
<1> QED
  BY <1>5, <1>6

\* A pop or a cancel withdraws the timer of the entry it removes.
LEMMA RemoveDropsTimer ==
    ASSUME QueueInv, pc = "idle", NEW p \in 1..Len(heap), remove_at(p, NotAsked),
           asked' = NotAsked
    PROVE  Due' = [Due EXCEPT ![heap[p].key] = Never]
<1>1. /\ \A k \in Keys : index'[k] = 0 <=> index[k] = 0 \/ k = heap[p].key
      /\ \A k \in Keys : index'[k] # 0 => heap'[index'[k]] = heap[index[k]]
  BY Removed
<1>2. \A j \in Keys : /\ index'[j] = 0 => DueOf(j)' = Never
                      /\ index'[j] # 0 => DueOf(j)' = heap'[index'[j]].due_at
  BY DEF DueOf, HeldBack
<1>3. \A j \in Keys : /\ index[j] = 0 => DueOf(j) = Never
                      /\ index[j] # 0 => DueOf(j) = heap[index[j]].due_at
  BY DEF DueOf, HeldBack
<1>4. heap[p].key \in Keys
  BY EntryType DEF QueueInv
<1>5. ASSUME NEW j \in Keys
      PROVE  DueOf(j)' = IF j = heap[p].key THEN Never ELSE DueOf(j)
  <2>1. CASE index'[j] = 0
    BY <1>1, <1>2, <1>3, <2>1
  <2>2. CASE index'[j] # 0
    <3>1. index[j] # 0 /\ j # heap[p].key /\ heap'[index'[j]] = heap[index[j]]
      BY <1>1, <2>2
    <3> QED
      BY <1>2, <1>3, <2>2, <3>1
  <2> QED
    BY <2>1, <2>2
<1> QED
  BY <1>4, <1>5 DEF Due

\* A drain holds back what it pops.
LEMMA DrainKeepsTimers ==
    ASSUME QueueInv, QueueInv', drain
    PROVE  Due' = Due
<1>1. TypeOK /\ IndexExact /\ pc = "draining" /\ asked # NotAsked
  BY DEF QueueInv, drain, DrainInv
<1>2. /\ heap # <<>> /\ remove_at(1, asked) /\ returned' = Append(returned, heap[1])
      /\ asked' = asked
  BY DEF drain, IsDue
<1>3. 1 \in 1..Len(heap) /\ Len(returned) \in Nat
  BY <1>1, <1>2, EntryType DEF TypeOK
<1>4. /\ \A k \in Keys : index'[k] = 0 <=> index[k] = 0 \/ k = heap[1].key
      /\ \A k \in Keys : index'[k] # 0 => heap'[index'[k]] = heap[index[k]]
      /\ pc' = "up" \/ pc' = Resume(asked)
  BY <1>1, <1>2, <1>3, Removed
<1>5. pc' # "idle" /\ asked' # NotAsked /\ pc # "idle"
  BY <1>1, <1>2, <1>4 DEF Resume
<1>6. heap[1].key \in Keys /\ index[heap[1].key] = 1 /\ heap[1] \in Entry
  BY <1>1, <1>3, EntryType DEF IndexExact
<1>7. /\ Len(returned') = Len(returned) + 1 /\ returned'[Len(returned) + 1] = heap[1]
      /\ \A i \in 1..Len(returned) : returned'[i] = returned[i]
      /\ \A i \in 1..Len(returned') : i \in 1..Len(returned) \/ i = Len(returned) + 1
      /\ Len(returned) + 1 \in 1..Len(returned')
      /\ \A i \in 1..Len(returned) : i \in 1..Len(returned')
  BY <1>1, <1>2, <1>3, <1>6 DEF TypeOK
<1>8. ASSUME NEW k \in Keys PROVE DueOf(k)' = DueOf(k)
  <2>1. CASE index'[k] # 0
    BY <1>4, <2>1 DEF DueOf
  <2>2. CASE k = heap[1].key
    <3>1. DueOf(k) = heap[1].due_at
      BY <1>6, <2>2, DueOfEntry
    <3>2. returned'[Len(returned) + 1].key = k
      BY <1>7, <2>2
    <3>3. DueOf(k)' = returned'[Len(returned) + 1].due_at
      <4>1. ASSUME NEW i \in 1..Len(returned'), returned'[i].key = k PROVE DueOf(k)' = returned'[i].due_at
        <5>1. index'[k] = 0 /\ \A j \in 1..Len(returned') : returned'[j].key = k => j = i
          BY <1>5, <4>1 DEF QueueInv, DrainInv
        <5>2. HeldBack(k)' = {i}
          BY <1>5, <4>1, <5>1 DEF HeldBack
        <5>3. (CHOOSE j \in HeldBack(k)' : TRUE) = i
          BY <5>2
        <5> QED
          BY <5>1, <5>2, <5>3 DEF DueOf
      <4> QED
        BY <1>7, <3>2, <4>1
    <3> QED
      BY <1>7, <3>1, <3>3
  <2>3. CASE index'[k] = 0 /\ k # heap[1].key
    <3>1. index[k] = 0
      BY <1>4, <2>3
    <3>2. HeldBack(k)' = HeldBack(k)
      <4>1. HeldBack(k)' = {i \in 1..Len(returned') : returned'[i].key = k}
        BY <1>5 DEF HeldBack
      <4>2. HeldBack(k) = {i \in 1..Len(returned) : returned[i].key = k}
        BY <1>1, <1>5 DEF HeldBack
      <4> QED
        BY <1>7, <2>3, <4>1, <4>2
    <3>3. HeldBack(k) # {} => (CHOOSE i \in HeldBack(k) : TRUE) \in 1..Len(returned)
      BY DEF HeldBack
    <3> QED
      BY <1>7, <2>3, <3>1, <3>2, <3>3 DEF DueOf
  <2> QED
    BY <1>4, <2>1, <2>2, <2>3
<1> QED
  BY <1>8, SameTimers

\* Timers counts as this module does.
LEMMA SameCardinality == \A S : Abstract!Cardinality(S) = Cardinality(S)
BY Zenon DEF Abstract!Cardinality, Cardinality

\* The return of a drain fires what it popped, all at once.
LEMMA DrainFires ==
    ASSUME QueueInv, QueueInv', drain_ends, NEW now, NEW n, now = asked.now, n = asked.limit
    PROVE  Abstract!FireDue(now, n)
<1> DEFINE ks == {returned[i].key : i \in 1..Len(returned)}
           ripe == {k \in Abstract!Set : Due[k] <= asked.now}
           m == Len(returned)
<1>0. TypeOK /\ IndexExact /\ DrainInv /\ pc = "draining" /\ asked # NotAsked /\ m \in Nat
  BY EntryType DEF QueueInv, drain_ends, DrainInv
<1>1. UNCHANGED <<heap, index, returned, asked>> /\ pc' = "idle"
  BY DEF drain_ends
<1>2. Abstract!Set = {k \in Keys : Due[k] # Never}
  BY DEF Abstract!Set, Due
<1>3. \A i \in 1..m : returned[i].key \in Keys /\ returned[i].due_at \in Int
  BY <1>0, EntryType
<1>4. \A i \in 1..m : /\ Due[returned[i].key] = returned[i].due_at
                      /\ Due[returned[i].key] # Never
                      /\ index[returned[i].key] = 0
                      /\ returned[i].due_at <= asked.now
  BY <1>0, <1>3, DueOfEntry DEF Due, DrainInv
<1>5. \A k \in Keys : Due[k] # Never /\ k \notin ks =>
        index[k] \in 1..Len(heap) /\ Due[k] = heap[index[k]].due_at
  BY DueOfEntry DEF Due
<1>6. ks \in SUBSET ripe
  BY <1>2, <1>3, <1>4
<1>7. IsFiniteSet(ks) /\ Cardinality(ks) = m
  <2> DEFINE f == [i \in 1..m |-> returned[i].key]
  <2>1. f \in Bijection(1..m, ks)
    <3>1. \A i, j \in 1..m : returned[i].key = returned[j].key => i = j
      BY <1>0 DEF DrainInv
    <3>2. f \in [1..m -> ks] /\ \A i, j \in 1..m : f[i] = f[j] => i = j
      BY <3>1
    <3>3. \A k \in ks : \E i \in 1..m : f[i] = k
      OBVIOUS
    <3>4. f \in Injection(1..m, ks)
      BY <3>2 DEF Injection, IsInjective
    <3> HIDE DEF f
    <3>5. f \in Surjection(1..m, ks)
      BY <3>2, <3>3 DEF Surjection
    <3> QED
      BY <3>4, <3>5 DEF Bijection
  <2>2. IsFiniteSet(1..m) /\ Cardinality(1..m) = m
    BY <1>0, FS_Interval
  <2>3. ExistsBijection(1..m, ks)
    BY <2>1, Zenon DEF ExistsBijection
  <2> QED
    BY <2>2, <2>3, FS_Bijection
<1>8. m <= asked.limit
  BY <1>0 DEF DrainInv
<1>9. ripe \ ks # {} => m = asked.limit
  <2>1. SUFFICES ASSUME NEW k \in ripe \ ks PROVE m = asked.limit
    OBVIOUS
  <2>2. k \in Keys /\ Due[k] # Never /\ Due[k] <= asked.now
    BY <1>2, <2>1
  <2>3. index[k] \in 1..Len(heap) /\ heap[index[k]].due_at <= asked.now
    BY <1>5, <2>1, <2>2
  <2> QED
    BY <1>1, <1>0, <2>3 DEF QueueInv, DrainInv
<1>10. \A k \in ks, j \in Abstract!Set \ ks : Due[k] <= Due[j]
  BY <1>0, <1>2, <1>3, <1>4, <1>5 DEF DrainInv
<1>11. Due' = [k \in Keys |-> IF k \in ks THEN Never ELSE Due[k]]
  <2>1. ASSUME NEW k \in Keys PROVE DueOf(k)' = IF k \in ks THEN Never ELSE Due[k]
    <3>1. HeldBack(k)' = {}
      BY <1>1 DEF HeldBack
    <3>2. CASE index[k] # 0
      <4>1. k \notin ks
        BY <1>4, <3>2
      <4> QED
        BY <1>1, <3>2, <4>1 DEF DueOf, Due
    <3>3. CASE index[k] = 0
      <4>1. DueOf(k)' = Never
        BY <1>1, <3>1, <3>3 DEF DueOf
      <4>2. k \notin ks => Due[k] = Never
        BY <3>3, DueOfEntry DEF Due
      <4> QED
        BY <4>1, <4>2
    <3> QED
      BY <3>2, <3>3
  <2> QED
    BY <2>1 DEF Due
<1>12. Abstract!Fire(ks)
  BY <1>10, <1>11 DEF Abstract!Fire, Due
<1> HIDE DEF ks
<1>13. ripe = {k \in Abstract!Set : [j \in Keys |-> DueOf(j)][k] <= now}
  BY DEF Due
<1> HIDE DEF ripe
<1>14. /\ ks \in SUBSET ripe /\ Abstract!Cardinality(ks) <= n /\ Abstract!Fire(ks)
       /\ (ripe \ ks # {} => Abstract!Cardinality(ks) = n)
  BY <1>6, <1>7, <1>8, <1>9, <1>12, SameCardinality
<1> QED
  BY <1>13, <1>14, Zenon DEF Abstract!FireDue

\* Every step of the queue sets, cancels or drains timers, or changes none.
LEMMA TimersStep == QueueInv /\ QueueInv' /\ [Next]_vars => [Abstract!Next]_Due
<1> SUFFICES ASSUME QueueInv, QueueInv', [Next]_vars PROVE Abstract!Next \/ Due' = Due
  BY DEF Due
<1>1. ASSUME NEW k \in Keys, NEW t \in Times, push(k, t) \/ replace(k, t) PROVE Abstract!Next
  <2>1. Due' = [Due EXCEPT ![k] = t]
    BY <1>1, PushSetsTimer
  <2>2. Abstract!Push(k, t)
    BY <2>1 DEF Abstract!Push, Due
  <2> QED
    BY <2>2 DEF Abstract!Next
<1>2. ASSUME pop PROVE Abstract!Next
  <2>0. TypeOK /\ IndexExact /\ pc = "idle"
    BY <1>2 DEF QueueInv, pop
  <2>1. 1 \in 1..Len(heap)
    BY <1>2, <2>0, EntryType DEF pop, TypeOK
  <2> DEFINE k == heap[1].key
  <2>2. k \in Keys /\ index[k] = 1 /\ DueOf(k) = heap[1].due_at /\ DueOf(k) # Never
    <3>1. k \in Keys /\ index[k] = 1
      BY <2>0, <2>1, EntryType DEF IndexExact
    <3> QED
      BY <3>1, DueOfEntry
  <2>3. Due' = [Due EXCEPT ![k] = Never]
    BY <1>2, <2>1, RemoveDropsTimer DEF pop
  <2>4. k \in Abstract!Set
    BY <2>2 DEF Abstract!Set
  <2>5. \A j \in Abstract!Set : DueOf(k) <= DueOf(j)
    <3>1. SUFFICES ASSUME NEW j \in Keys, DueOf(j) # Never PROVE DueOf(k) <= DueOf(j)
      BY DEF Abstract!Set
    <3>2. index[j] \in 1..Len(heap) /\ DueOf(j) = heap[index[j]].due_at
      BY <2>0, <3>1, DueOfEntry
    <3> QED
      BY <2>0, <2>2, <3>2, ReadyIsHeap
  <2>6. Abstract!Fire({k})
    <3>1. \A a \in {k}, j \in Abstract!Set \ {k} : Due[a] <= Due[j]
      BY <2>2, <2>5 DEF Due, Abstract!Set
    <3>2. Due' = [j \in Keys |-> IF j \in {k} THEN Never ELSE Due[j]]
      BY <2>2, <2>3 DEF Due
    <3> QED
      BY <3>1, <3>2 DEF Abstract!Fire, Due
  <2> QED
    BY <2>4, <2>6 DEF Abstract!Next
<1>3. ASSUME NEW k \in Keys, cancel(k) PROVE Abstract!Next
  <2>1. index[k] \in 1..Len(heap) /\ heap[index[k]].key = k
    BY <1>3, DueOfEntry DEF cancel
  <2>2. Due' = [Due EXCEPT ![k] = Never]
    BY <1>3, <2>1, RemoveDropsTimer DEF cancel
  <2>3. Abstract!Cancel(k)
    BY <2>2 DEF Abstract!Cancel, Due
  <2> QED
    BY <2>3 DEF Abstract!Next
<1>4. ASSUME NEW now \in Times, NEW limit \in 1..Cardinality(Keys), pop_due(now, limit)
      PROVE  Due' = Due
  <2>1. \A k \in Keys : HeldBack(k)' = {} /\ HeldBack(k) = {}
    BY <1>4 DEF pop_due, HeldBack
  <2>2. \A k \in Keys : DueOf(k)' = DueOf(k)
    BY <1>4, <2>1 DEF pop_due, DueOf
  <2> QED
    BY <2>2, SameTimers
<1>5. ASSUME drain_ends PROVE Abstract!Next
  <2>1. asked.now \in Times /\ asked.limit \in 1..Cardinality(Keys)
    BY <1>5 DEF drain_ends, QueueInv, DrainInv
  <2> QED
    BY <1>5, <2>1, DrainFires, SameCardinality, Zenon DEF Abstract!Next
<1>6. CASE UNCHANGED vars
  BY <1>6, SameTimers DEF vars, DueOf, HeldBack
<1> QED
  BY <1>1, <1>2, <1>3, <1>4, <1>5, <1>6, SiftKeepsTimers, DrainKeepsTimers DEF Next

\* For every key the heap holds just the timer that the pushes and cancels left, pop and
\* pop_due fire no timer before an earlier one, and a drain fires all that is due, or as
\* many as its limit allows: DelayQueue implements Timers.
THEOREM QueueKeepsTimers == Spec => ImplementsTimers
<1>1. Init => Abstract!Init
  <2>1. Init => \A k \in Keys : DueOf(k) = Never
    BY DEF Init, DueOf, HeldBack
  <2> QED
    BY <2>1 DEF Abstract!Init
<1>2. QueueInv /\ QueueInv' /\ [Next]_vars => [Abstract!Next]_([k \in Keys |-> DueOf(k)])
  BY TimersStep DEF Due
<1> QED
  BY <1>1, <1>2, QueueInvHolds, PTL DEF Spec, ImplementsTimers, Abstract!Spec
=============================================================================
