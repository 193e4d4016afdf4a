--------------------------- MODULE ServiceProofs ----------------------------
(***************************************************************************)
(* Proofs about what the API process does for its clients: publishing and  *)
(* submitting (any number of requests, keys, bodies and versions), the rate*)
(* limit of a key (any number of threads), and the pages of runs.          *)
(***************************************************************************)
EXTENDS Submission, RateLimiter, RunListing, FiniteSetTheorems, TLAPS

-----------------------------------------------------------------------------
(* Submission.                                                             *)

Places == {"start", "resolving", "inserting", "committing", "done"}

KeyRow == [key : Keys, request_hash : Bodies, run_id : Submitters]

TypeInv ==
    /\ key \in [Submitters -> Keys \cup {NoKey}]
    /\ body \in [Submitters -> Bodies]
    /\ workflows \subseteq [by : Publishers, version : Nat]
    /\ IsFiniteSet(workflows)
    /\ runs \subseteq [by : Submitters, version : Nat]
    /\ keys \subseteq KeyRow
    /\ pc \in [Requests -> Places]
    /\ version \in [Requests -> Nat]
    /\ answer \in [Requests -> [status : Nat, run : Submitters \cup {0}]]

\* A committed run is that of a handler that is done.
RunsAreDone == \A r \in runs : pc[r.by] = "done" /\ r.version = version[r.by]

\* A committed key leads to a committed run, made by the request it was sent with.
KeysLead ==
    \A row \in keys :
        /\ key[row.run_id] = row.key
        /\ body[row.run_id] = row.request_hash
        /\ \E r \in runs : r.by = row.run_id

\* The primary key.
KeysUnique == \A row1, row2 \in keys : row1.key = row2.key => row1 = row2

\* A committed run with a key has left it behind.
RunsHaveKeys ==
    \A r \in runs : key[r.by] # NoKey =>
        [key |-> key[r.by], request_hash |-> body[r.by], run_id |-> r.by] \in keys

\* An open transaction that has inserted a key is the only one with it: it is neither
\* committed nor inserted by another.
KeyReserved ==
    \A q \in Submitters : pc[q] = "committing" /\ key[q] # NoKey =>
        /\ \A row \in keys : row.key # key[q]
        /\ \A p \in Submitters \ {q} : pc[p] = "committing" => key[p] # key[q]

\* The version a publication is about to insert follows one that is committed, and
\* that of an open transaction is new and its own.
VersionsFollow ==
    \A q \in Publishers :
        /\ pc[q] \in {"inserting", "committing"} =>
             version[q] \in 1..(Cardinality(workflows) + 1)
        /\ pc[q] = "committing" =>
             /\ version[q] \notin Versions
             /\ \A p \in Publishers \ {q} : pc[p] = "committing" => version[p] # version[q]

\* The inductive invariant of starting runs, and that of publishing.
KeyInv == KeysLead /\ KeysUnique /\ RunsAreDone /\ RunsHaveKeys /\ KeyReserved
SubmissionInv ==
    TypeInv /\ KeyInv /\ VersionsContiguous /\ VersionsFollow /\ ReplayIsFaithful

\* Of the versions 1 to n the latest is n: what _next_version's max() returns.
LEMMA LatestIsCount ==
    ASSUME TypeInv, VersionsContiguous
    PROVE  Cardinality(workflows) \in Nat /\ Latest = Cardinality(workflows)
<1> DEFINE n == Cardinality(workflows)
<1>1. n \in Nat
  BY FS_CardinalityType DEF TypeInv
<1>2. Versions = 1..n
  BY DEF VersionsContiguous
<1>3. CASE n = 0
  BY <1>1, <1>2, <1>3 DEF Latest
<1>4. CASE n # 0
  <2>1. n \in 1..n /\ \A m \in 1..n : n >= m
    BY <1>1, <1>4
  <2>2. \A x \in 1..n : (\A m \in 1..n : x >= m) => x = n
    BY <1>1, <2>1
  <2> HIDE DEF n
  <2>3. Max(1..n) = n
    BY <2>1, <2>2 DEF Max
  <2>4. Versions # {} /\ Max(Versions) = n
    BY <1>2, <2>1, <2>3
  <2>5. Latest = n
    BY <2>4 DEF Latest
  <2> QED
    BY <1>1, <2>5 DEF n
<1> QED
  BY <1>1, <1>3, <1>4

\* A step of one request moves its handler to a place, and no other.
Moves(q, there) == pc' = [pc EXCEPT ![q] = there]

\* The first statements of the handlers, and everything that ends them without a
\* commit, keep what is known of keys.
LEMMA KeysQuiet ==
    ASSUME TypeInv, KeyInv, UNCHANGED <<sent, runs, keys>>,
           \A q \in Submitters :
               /\ pc'[q] = "committing" => pc[q] = "committing"
               /\ pc[q] = "done" => pc'[q] = "done" /\ version'[q] = version[q]
    PROVE  KeyInv'
<1>1. key' = key /\ body' = body /\ runs' = runs /\ keys' = keys
  BY DEF sent
<1>2. \A r \in runs : r.by \in Submitters
  BY DEF TypeInv
<1>3. KeysLead' /\ KeysUnique' /\ RunsHaveKeys'
  BY <1>1 DEF KeyInv, KeysLead, KeysUnique, RunsHaveKeys
<1>4. RunsAreDone'
  BY <1>1, <1>2 DEF KeyInv, RunsAreDone
<1>5. KeyReserved'
  BY <1>1 DEF KeyInv, KeyReserved
<1> QED
  BY <1>3, <1>4, <1>5 DEF KeyInv

\* The same of versions: a publication chooses the next one, or keeps its own.
LEMMA VersionsQuiet ==
    ASSUME TypeInv, VersionsContiguous, VersionsFollow, workflows' = workflows,
           \A q \in Publishers :
               /\ pc'[q] = "committing" => pc[q] = "committing" /\ version'[q] = version[q]
               /\ pc'[q] = "inserting" =>
                    \/ pc[q] = "inserting" /\ version'[q] = version[q]
                    \/ version'[q] = Cardinality(workflows) + 1
    PROVE  VersionsContiguous' /\ VersionsFollow'
<1> DEFINE n == Cardinality(workflows)
<1>1. Versions' = Versions /\ n' = n /\ n \in Nat
  BY LatestIsCount DEF Versions
<1>2. VersionsContiguous'
  BY <1>1 DEF VersionsContiguous
<1>3. ASSUME NEW q \in Publishers, pc'[q] \in {"inserting", "committing"}
      PROVE  version'[q] \in 1..(n + 1)
  BY <1>1, <1>3 DEF VersionsFollow
<1>4. ASSUME NEW q \in Publishers, pc'[q] = "committing"
      PROVE  /\ version'[q] \notin Versions
             /\ \A p \in Publishers \ {q} : pc'[p] = "committing" => version'[p] # version'[q]
  BY <1>4 DEF VersionsFollow
<1>5. VersionsFollow'
  BY <1>1, <1>3, <1>4 DEF VersionsFollow
<1> QED
  BY <1>2, <1>5

\* An answer that is no replay, or that was there before, needs no new reason.
LEMMA AnswersQuiet ==
    ASSUME ReplayIsFaithful, UNCHANGED sent, runs \subseteq runs',
           \A q \in Submitters : answer'[q].status = 200 => answer'[q] = answer[q]
    PROVE  ReplayIsFaithful'
<1>1. key' = key /\ body' = body
  BY DEF sent
<1> QED
  BY <1>1 DEF ReplayIsFaithful

\* An answer's status changes; the run it names does not.
LEMMA StatusType ==
    ASSUME TypeInv, NEW q \in Requests, NEW status \in Nat,
           answer' = [answer EXCEPT ![q].status = status]
    PROVE  /\ answer' \in [Requests -> [status : Nat, run : Submitters \cup {0}]]
           /\ answer'[q].status = status
           /\ \A p \in Requests \ {q} : answer'[p] = answer[p]
BY DEF TypeInv

\* A request that is turned away, fails or is lost leaves the tables alone.
LEMMA EndsKeep ==
    ASSUME SubmissionInv, NEW q \in Requests, Moves(q, "done"),
           UNCHANGED <<sent, tables, version>>,
           \/ answer' = answer
           \/ \E status \in Nat \ {200} : answer' = [answer EXCEPT ![q].status = status]
    PROVE  SubmissionInv'
<1> USE DEF SubmissionInv
<1>1. /\ key' = key /\ body' = body /\ workflows' = workflows /\ runs' = runs
      /\ keys' = keys /\ version' = version
  BY DEF sent, tables
<1>2. pc' \in [Requests -> Places] /\ \A p \in Requests : pc'[p] = pc[p] \/ pc'[p] = "done"
  BY DEF Moves, TypeInv, Places
<1>3. /\ answer' \in [Requests -> [status : Nat, run : Submitters \cup {0}]]
      /\ \A p \in Requests : answer'[p].status = 200 => answer'[p] = answer[p]
  <2>1. CASE answer' = answer
    BY <2>1 DEF TypeInv
  <2>2. CASE \E status \in Nat \ {200} : answer' = [answer EXCEPT ![q].status = status]
    <3>1. PICK status \in Nat \ {200} : answer' = [answer EXCEPT ![q].status = status]
      BY <2>2
    <3>2. TypeInv
      OBVIOUS
    <3>3. /\ answer' \in [Requests -> [status : Nat, run : Submitters \cup {0}]]
          /\ answer'[q].status = status
          /\ \A p \in Requests \ {q} : answer'[p] = answer[p]
      BY <3>1, <3>2, StatusType
    <3> QED
      BY <3>3
  <2> QED
    BY <2>1, <2>2
<1>4. TypeInv'
  BY <1>1, <1>2, <1>3 DEF TypeInv
<1>5. KeyInv'
  <2>1. \A p \in Submitters :
          /\ pc'[p] = "committing" => pc[p] = "committing"
          /\ pc[p] = "done" => pc'[p] = "done" /\ version'[p] = version[p]
    BY <1>1, <1>2 DEF Requests
  <2> QED
    BY <1>1, <2>1, KeysQuiet
<1>6. VersionsContiguous' /\ VersionsFollow'
  <2>1. \A p \in Publishers :
          /\ pc'[p] = "committing" => pc[p] = "committing" /\ version'[p] = version[p]
          /\ pc'[p] = "inserting" => pc[p] = "inserting" /\ version'[p] = version[p]
    BY <1>1, <1>2 DEF Requests
  <2> QED
    BY <1>1, <2>1, VersionsQuiet
<1>7. ReplayIsFaithful'
  <2>1. \A p \in Submitters : answer'[p].status = 200 => answer'[p] = answer[p]
    BY <1>3 DEF Requests
  <2> QED
    BY <1>1, <2>1, AnswersQuiet
<1> QED
  BY <1>4, <1>5, <1>6, <1>7

\* The same of a handler that ends with a status.
LEMMA FinishKeeps ==
    ASSUME SubmissionInv, NEW q \in Requests, NEW status \in Nat \ {200},
           Finish(q, status), UNCHANGED <<sent, tables, version>>
    PROVE  SubmissionInv'
<1>1. Moves(q, "done") /\ answer' = [answer EXCEPT ![q].status = status]
  BY DEF Finish, Moves
<1>2. \E st \in Nat \ {200} : answer' = [answer EXCEPT ![q].status = st]
  BY <1>1
<1> QED
  BY <1>1, <1>2, EndsKeep

\* A handler looks something up and goes on to a place before its INSERT.
LEMMA LooksKeep ==
    ASSUME SubmissionInv, NEW q \in Requests, NEW there \in {"resolving", "inserting"},
           NEW v \in Nat, pc[q] \in {"start", "resolving"},
           Moves(q, there), version' = [version EXCEPT ![q] = v],
           UNCHANGED <<sent, tables, answer>>,
           q \in Publishers => v = Cardinality(workflows) + 1
    PROVE  SubmissionInv'
<1> USE DEF SubmissionInv
<1>1. /\ key' = key /\ body' = body /\ workflows' = workflows /\ runs' = runs
      /\ keys' = keys /\ answer' = answer
  BY DEF sent, tables
<1>2. /\ pc' \in [Requests -> Places] /\ version' \in [Requests -> Nat]
      /\ pc'[q] = there /\ version'[q] = v
      /\ \A p \in Requests \ {q} : pc'[p] = pc[p] /\ version'[p] = version[p]
  BY DEF Moves, TypeInv, Places
<1>3. TypeInv'
  BY <1>1, <1>2 DEF TypeInv
<1>4. KeyInv'
  <2>1. \A p \in Submitters :
          /\ pc'[p] = "committing" => pc[p] = "committing"
          /\ pc[p] = "done" => pc'[p] = "done" /\ version'[p] = version[p]
    BY <1>2 DEF Requests
  <2> QED
    BY <1>1, <2>1, KeysQuiet
<1>5. VersionsContiguous' /\ VersionsFollow'
  <2>1. \A p \in Publishers :
          /\ pc'[p] = "committing" => pc[p] = "committing" /\ version'[p] = version[p]
          /\ pc'[p] = "inserting" =>
               \/ pc[p] = "inserting" /\ version'[p] = version[p]
               \/ version'[p] = Cardinality(workflows) + 1
    BY <1>2 DEF Requests
  <2> QED
    BY <1>1, <2>1, VersionsQuiet
<1>6. ReplayIsFaithful'
  BY <1>1, AnswersQuiet
<1> QED
  BY <1>3, <1>4, <1>5, <1>6

\* The workflow row is inserted: its version is new, and of no other open transaction.
LEMMA CreateKeeps ==
    ASSUME SubmissionInv, NEW q \in Publishers, create(q)
    PROVE  SubmissionInv'
<1> USE DEF SubmissionInv
<1>1. /\ key' = key /\ body' = body /\ workflows' = workflows /\ runs' = runs
      /\ keys' = keys /\ version' = version
      /\ pc[q] = "inserting" /\ pc' = [pc EXCEPT ![q] = "committing"]
      /\ answer' = [answer EXCEPT ![q].status = 201]
      /\ ~VersionInFlight(q) /\ ~VersionTaken(q)
  BY DEF create, Return, sent, tables
<1>2. q \in Requests /\ q \notin Submitters
  BY SubmissionAssumption DEF Requests
<1>3. /\ pc' \in [Requests -> Places] /\ pc'[q] = "committing"
      /\ \A p \in Requests \ {q} : pc'[p] = pc[p]
  BY <1>1, <1>2 DEF TypeInv, Places
<1>4. TypeInv
  OBVIOUS
<1>5. /\ answer' \in [Requests -> [status : Nat, run : Submitters \cup {0}]]
      /\ \A p \in Requests \ {q} : answer'[p] = answer[p]
  <2>1. 201 \in Nat
    OBVIOUS
  <2> QED
    BY <1>1, <1>2, <1>4, <2>1, StatusType, Zenon
<1>6. TypeInv'
  BY <1>1, <1>3, <1>5 DEF TypeInv
<1>7. KeyInv'
  <2>1. \A p \in Submitters : pc'[p] = pc[p]
    BY <1>2, <1>3 DEF Requests
  <2> QED
    BY <1>1, <2>1, KeysQuiet DEF sent
<1>8. Versions' = Versions /\ VersionsContiguous'
  BY <1>1 DEF Versions, VersionsContiguous
<1>9. VersionsFollow'
  <2>1. /\ version[q] \in 1..(Cardinality(workflows) + 1)
        /\ version[q] \notin Versions
        /\ \A p \in Publishers \ {q} : pc[p] = "committing" => version[p] # version[q]
    BY <1>1 DEF VersionsFollow, VersionInFlight, VersionTaken
  <2>2. \A p \in Publishers \ {q} : pc'[p] = pc[p]
    BY <1>3 DEF Requests
  <2> QED
    BY <1>1, <1>3, <1>8, <2>1, <2>2 DEF VersionsFollow
<1>10. ReplayIsFaithful'
  <2>1. \A p \in Submitters : answer'[p] = answer[p]
    BY <1>2, <1>5 DEF Requests
  <2> QED
    BY <1>1, <2>1, AnswersQuiet DEF sent
<1> QED
  BY <1>6, <1>7, <1>8, <1>9, <1>10

\* The publication commits the version after the latest: an open transaction's version
\* is one of 1 to the latest and one more, and not committed.
LEMMA PublishKeeps ==
    ASSUME SubmissionInv, NEW q \in Publishers, publish_commit(q)
    PROVE  SubmissionInv'
<1> USE DEF SubmissionInv
<1> DEFINE w == [by |-> q, version |-> version[q]]
           n == Cardinality(workflows)
<1>1. /\ key' = key /\ body' = body /\ runs' = runs /\ keys' = keys /\ version' = version
      /\ answer' = answer
      /\ workflows' = workflows \cup {w}
      /\ pc[q] = "committing" /\ pc' = [pc EXCEPT ![q] = "done"]
  BY DEF publish_commit, sent
<1>2. q \in Requests /\ q \notin Submitters
  BY SubmissionAssumption DEF Requests
<1>3. /\ pc' \in [Requests -> Places] /\ pc'[q] = "done"
      /\ \A p \in Requests \ {q} : pc'[p] = pc[p]
  BY <1>1, <1>2 DEF TypeInv, Places
<1>4. n \in Nat /\ Versions = 1..n /\ IsFiniteSet(workflows)
  BY LatestIsCount DEF VersionsContiguous, TypeInv
<1>5. version[q] = n + 1
  BY <1>1, <1>4 DEF VersionsFollow
<1>6. w \notin workflows
  BY <1>4, <1>5 DEF Versions
<1>7. IsFiniteSet(workflows') /\ Cardinality(workflows') = n + 1
  BY <1>1, <1>4, <1>6, FS_AddElement
<1>8. Versions' = Versions \cup {n + 1}
  <2>1. w.version = n + 1
    BY <1>5
  <2> HIDE DEF w
  <2> QED
    BY <1>1, <2>1 DEF Versions
<1>9. Versions' = 1..(n + 1)
  BY <1>4, <1>8
<1>10. TypeInv'
  BY <1>1, <1>2, <1>3, <1>7 DEF TypeInv
<1>11. KeyInv'
  <2>1. \A p \in Submitters : pc'[p] = pc[p]
    BY <1>2, <1>3 DEF Requests
  <2> QED
    BY <1>1, <2>1, KeysQuiet DEF sent
<1>12. VersionsContiguous'
  BY <1>7, <1>9 DEF VersionsContiguous
<1>13. VersionsFollow'
  <2>1. ASSUME NEW p \in Publishers, pc'[p] \in {"inserting", "committing"}
        PROVE  /\ pc[p] = pc'[p] /\ p # q
               /\ version[p] \in 1..(n + 1)
    BY <1>3, <2>1 DEF Requests, VersionsFollow
  <2>2. ASSUME NEW p \in Publishers, pc'[p] = "committing"
        PROVE  FALSE
    <3>1. pc[p] = "committing" /\ p # q /\ version[p] \in 1..(n + 1)
      BY <2>1, <2>2
    <3>2. version[p] \notin Versions /\ version[p] # version[q]
      BY <1>1, <3>1 DEF VersionsFollow
    <3> QED
      BY <1>4, <1>5, <3>1, <3>2
  <2>3. ASSUME NEW p \in Publishers, pc'[p] \in {"inserting", "committing"}
        PROVE  version'[p] \in 1..(Cardinality(workflows') + 1)
    BY <1>1, <1>4, <1>7, <2>1, <2>3
  <2> QED
    BY <2>2, <2>3 DEF VersionsFollow
<1>14. ReplayIsFaithful'
  BY <1>1, AnswersQuiet DEF sent
<1> QED
  BY <1>10, <1>11, <1>12, <1>13, <1>14

\* A replay answers with the run its key leads to, if the stored hash is that of its
\* body; the key row is committed, and so is the run.
LEMMA ReplayKeeps ==
    ASSUME SubmissionInv, NEW q \in Submitters, replay(q)
    PROVE  SubmissionInv'
<1>1. q \in Requests
  BY DEF Requests
<1>2. PICK row \in KeyRows(q) :
         IF SameRequest(q, row)
           THEN /\ answer' = [answer EXCEPT ![q] = [status |-> 200, run |-> row.run_id]]
                /\ pc' = [pc EXCEPT ![q] = "done"]
           ELSE Finish(q, 409)
  BY DEF replay
<1>3. UNCHANGED <<sent, tables, version>>
  BY DEF replay
<1>4. CASE ~SameRequest(q, row)
  BY <1>1, <1>2, <1>3, <1>4, FinishKeeps
<1>5. CASE SameRequest(q, row)
  <2> USE DEF SubmissionInv
  <2>1. /\ key' = key /\ body' = body /\ workflows' = workflows /\ runs' = runs
        /\ keys' = keys /\ version' = version
    BY <1>3 DEF sent, tables
  <2>2. /\ answer' = [answer EXCEPT ![q] = [status |-> 200, run |-> row.run_id]]
        /\ pc' = [pc EXCEPT ![q] = "done"]
    BY <1>2, <1>5
  <2>3. /\ row \in keys /\ row \in KeyRow
        /\ row.key = key[q] /\ row.request_hash = body[q] /\ row.run_id \in Submitters
    BY <1>2, <1>5 DEF KeyRows, SameRequest, TypeInv, KeyRow
  <2>4. /\ pc' \in [Requests -> Places]
        /\ \A p \in Requests : pc'[p] = pc[p] \/ pc'[p] = "done"
    BY <1>1, <2>2 DEF TypeInv, Places
  <2>5. /\ answer' \in [Requests -> [status : Nat, run : Submitters \cup {0}]]
        /\ answer'[q].run = row.run_id
        /\ \A p \in Requests \ {q} : answer'[p] = answer[p]
    BY <1>1, <2>2, <2>3 DEF TypeInv
  <2>6. TypeInv'
    BY <2>1, <2>4, <2>5 DEF TypeInv
  <2>7. KeyInv'
    <3>1. \A p \in Submitters :
            /\ pc'[p] = "committing" => pc[p] = "committing"
            /\ pc[p] = "done" => pc'[p] = "done" /\ version'[p] = version[p]
      BY <2>1, <2>4 DEF Requests
    <3> QED
      BY <2>1, <3>1, KeysQuiet DEF sent
  <2>8. VersionsContiguous' /\ VersionsFollow'
    <3>1. \A p \in Publishers :
            /\ pc'[p] = "committing" => pc[p] = "committing" /\ version'[p] = version[p]
            /\ pc'[p] = "inserting" => pc[p] = "inserting" /\ version'[p] = version[p]
      BY <2>1, <2>4 DEF Requests
    <3> QED
      BY <2>1, <3>1, VersionsQuiet
  <2>9. ReplayIsFaithful'
    <3>1. /\ \E r \in runs : r.by = row.run_id
          /\ key[row.run_id] = key[q] /\ body[row.run_id] = body[q]
      BY <2>3 DEF KeyInv, KeysLead
    <3>2. \A p \in Submitters \ {q} : answer'[p] = answer[p]
      BY <2>5 DEF Requests
    <3> QED
      BY <2>1, <2>5, <3>1, <3>2 DEF ReplayIsFaithful
  <2> QED
    BY <2>6, <2>7, <2>8, <2>9
<1> QED
  BY <1>4, <1>5

\* The run and its key are inserted: nobody else has the key.
LEMMA CreateRunKeeps ==
    ASSUME SubmissionInv, NEW q \in Submitters, create_run(q)
    PROVE  SubmissionInv'
<1> USE DEF SubmissionInv
<1>1. /\ key' = key /\ body' = body /\ workflows' = workflows /\ runs' = runs
      /\ keys' = keys /\ version' = version
      /\ pc[q] = "inserting" /\ pc' = [pc EXCEPT ![q] = "committing"]
      /\ answer' = [answer EXCEPT ![q] = [status |-> 201, run |-> q]]
      /\ ~KeyInFlight(q) /\ ~KeyTaken(q)
  BY DEF create_run, sent, tables
<1>2. q \in Requests /\ q \notin Publishers
  BY SubmissionAssumption DEF Requests
<1>3. /\ pc' \in [Requests -> Places] /\ pc'[q] = "committing"
      /\ \A p \in Requests \ {q} : pc'[p] = pc[p]
  BY <1>1, <1>2 DEF TypeInv, Places
<1>4. /\ answer' \in [Requests -> [status : Nat, run : Submitters \cup {0}]]
      /\ answer'[q].status = 201
      /\ \A p \in Requests \ {q} : answer'[p] = answer[p]
  BY <1>1, <1>2 DEF TypeInv
<1>5. TypeInv'
  BY <1>1, <1>3, <1>4 DEF TypeInv
<1>6. KeysLead' /\ KeysUnique' /\ RunsHaveKeys'
  BY <1>1 DEF KeyInv, KeysLead, KeysUnique, RunsHaveKeys
<1>7. \A p \in Submitters \ {q} : pc'[p] = pc[p]
  BY <1>3 DEF Requests
<1>8. RunsAreDone'
  <2>1. ASSUME NEW r \in runs PROVE r.by \in Submitters /\ r.by # q
    BY <1>1 DEF TypeInv, KeyInv, RunsAreDone
  <2> QED
    BY <1>1, <1>7, <2>1 DEF KeyInv, RunsAreDone
<1>9. KeyReserved'
  <2>1. ASSUME key[q] # NoKey
        PROVE  /\ \A row \in keys : row.key # key[q]
               /\ \A p \in Submitters \ {q} : pc[p] = "committing" => key[p] # key[q]
    BY <1>1, <2>1 DEF KeyInFlight, KeyTaken, KeyRows
  <2> QED
    BY <1>1, <1>3, <1>7, <2>1 DEF KeyInv, KeyReserved
<1>10. VersionsContiguous' /\ VersionsFollow'
  <2>1. \A p \in Publishers : pc'[p] = pc[p]
    BY <1>2, <1>3 DEF Requests
  <2> QED
    BY <1>1, <2>1, VersionsQuiet
<1>11. ReplayIsFaithful'
  <2>1. \A p \in Submitters : answer'[p].status = 200 => answer'[p] = answer[p]
    BY <1>4 DEF Requests
  <2> QED
    BY <1>1, <2>1, AnswersQuiet DEF sent
<1> QED
  BY <1>5, <1>6, <1>8, <1>9, <1>10, <1>11 DEF KeyInv

\* The run and its key are committed together.
LEMMA RunCommitKeeps ==
    ASSUME SubmissionInv, NEW q \in Submitters, run_commit(q)
    PROVE  SubmissionInv'
<1> USE DEF SubmissionInv
<1> DEFINE r0 == [by |-> q, version |-> version[q]]
           k0 == [key |-> key[q], request_hash |-> body[q], run_id |-> q]
<1>1. /\ key' = key /\ body' = body /\ workflows' = workflows /\ version' = version
      /\ answer' = answer
      /\ pc[q] = "committing" /\ pc' = [pc EXCEPT ![q] = "done"]
      /\ runs' = runs \cup {r0}
      /\ keys' = IF key[q] = NoKey THEN keys ELSE keys \cup {k0}
  BY DEF run_commit, sent
<1>2. q \in Requests /\ q \notin Publishers
  BY SubmissionAssumption DEF Requests
<1>3. /\ pc' \in [Requests -> Places] /\ pc'[q] = "done"
      /\ \A p \in Requests \ {q} : pc'[p] = pc[p]
  BY <1>1, <1>2 DEF TypeInv, Places
<1>4. /\ r0 \in [by : Submitters, version : Nat]
      /\ key[q] # NoKey => k0 \in KeyRow
  BY <1>2 DEF TypeInv, KeyRow
<1>5. /\ r0.by = q /\ r0.version = version[q]
      /\ k0.key = key[q] /\ k0.request_hash = body[q] /\ k0.run_id = q
  OBVIOUS
<1> HIDE DEF r0, k0
<1>6. TypeInv'
  <2>1. runs' \subseteq [by : Submitters, version : Nat] /\ keys' \subseteq KeyRow
    BY <1>1, <1>4 DEF TypeInv
  <2> QED
    BY <1>1, <1>3, <2>1 DEF TypeInv
<1>7. KeysLead'
  <2>1. ASSUME NEW row \in keys'
        PROVE  /\ key[row.run_id] = row.key /\ body[row.run_id] = row.request_hash
               /\ \E r \in runs' : r.by = row.run_id
    <3>1. CASE row \in keys
      BY <1>1, <3>1 DEF KeyInv, KeysLead
    <3>2. CASE row = k0
      BY <1>1, <1>5, <3>2
    <3> QED
      BY <1>1, <2>1, <3>1, <3>2
  <2> QED
    BY <1>1, <2>1 DEF KeysLead
<1>8. KeysUnique'
  <2>1. ASSUME key[q] # NoKey PROVE \A row \in keys : row.key # key[q]
    BY <1>1, <2>1 DEF KeyInv, KeyReserved
  <2> QED
    BY <1>1, <1>5, <2>1 DEF KeyInv, KeysUnique
<1>9. RunsAreDone'
  <2>1. ASSUME NEW r \in runs
        PROVE  pc'[r.by] = "done" /\ r.version = version'[r.by]
    <3>1. r.by \in Requests /\ pc[r.by] = "done" /\ r.version = version[r.by]
      BY DEF TypeInv, KeyInv, RunsAreDone, Requests
    <3> QED
      BY <1>1, <1>3, <3>1
  <2>2. pc'[r0.by] = "done" /\ r0.version = version'[r0.by]
    BY <1>1, <1>3, <1>5
  <2> QED
    BY <1>1, <2>1, <2>2 DEF RunsAreDone
<1>10. RunsHaveKeys'
  <2>1. ASSUME NEW r \in runs', key[r.by] # NoKey
        PROVE  [key |-> key[r.by], request_hash |-> body[r.by], run_id |-> r.by] \in keys'
    <3>1. CASE r \in runs
      BY <1>1, <2>1, <3>1 DEF KeyInv, RunsHaveKeys
    <3>2. CASE r = r0
      BY <1>1, <1>5, <2>1, <3>2 DEF k0
    <3> QED
      BY <1>1, <2>1, <3>1, <3>2
  <2> QED
    BY <1>1, <2>1 DEF RunsHaveKeys
<1>11. KeyReserved'
  <2>1. ASSUME NEW p \in Submitters, pc'[p] = "committing", key[p] # NoKey
        PROVE  /\ \A row \in keys' : row.key # key[p]
               /\ \A o \in Submitters \ {p} : pc'[o] = "committing" => key[o] # key[p]
    <3>1. p # q /\ pc[p] = "committing"
      BY <1>3, <2>1 DEF Requests
    <3>2. /\ \A row \in keys : row.key # key[p]
          /\ \A o \in Submitters \ {p} : pc[o] = "committing" => key[o] # key[p]
      BY <2>1, <3>1 DEF KeyInv, KeyReserved
    <3>3. key[q] # key[p]
      BY <1>1, <3>1, <3>2
    <3>4. \A row \in keys' : row.key # key[p]
      BY <1>1, <1>5, <3>2, <3>3
    <3> QED
      BY <1>3, <3>2, <3>4 DEF Requests
  <2> QED
    BY <1>1, <2>1 DEF KeyReserved
<1>12. VersionsContiguous' /\ VersionsFollow'
  <2>1. \A p \in Publishers : pc'[p] = pc[p]
    BY <1>2, <1>3 DEF Requests
  <2> QED
    BY <1>1, <2>1, VersionsQuiet
<1>13. ReplayIsFaithful'
  BY <1>1, AnswersQuiet DEF sent
<1> QED
  BY <1>6, <1>7, <1>8, <1>9, <1>10, <1>11, <1>12, <1>13 DEF KeyInv

\* Every step of POST /workflows.
LEMMA PublishStepKeeps ==
    ASSUME SubmissionInv, NEW q \in Publishers, PublishStep(q)
    PROVE  SubmissionInv'
<1>1. q \in Requests
  BY DEF Requests
<1>2. CASE create_refused(q) \/ create_conflict(q)
  BY <1>1, <1>2, FinishKeeps DEF create_refused, create_conflict
<1>3. CASE choose_version(q)
  <2>1. Latest + 1 = Cardinality(workflows) + 1 /\ Latest + 1 \in Nat
    BY LatestIsCount DEF SubmissionInv
  <2> QED
    BY <1>1, <1>3, <2>1, LooksKeep DEF choose_version, next_version, Moves
<1>4. CASE create(q)
  BY <1>4, CreateKeeps
<1>5. CASE publish_commit(q)
  BY <1>5, PublishKeeps
<1> QED
  BY <1>2, <1>3, <1>4, <1>5 DEF PublishStep

\* Every step of POST /runs.
LEMMA SubmitStepKeeps ==
    ASSUME SubmissionInv, NEW q \in Submitters, SubmitStep(q)
    PROVE  SubmissionInv'
<1>1. q \in Requests /\ q \notin Publishers
  BY SubmissionAssumption DEF Requests
<1>2. CASE replay(q)
  BY <1>2, ReplayKeeps
<1>3. CASE key_is_new(q)
  <2>1. version[q] \in Nat /\ version' = [version EXCEPT ![q] = version[q]]
    BY <1>1, <1>3 DEF key_is_new, SubmissionInv, TypeInv
  <2> QED
    BY <1>1, <1>3, <2>1, LooksKeep DEF key_is_new, Moves
<1>4. CASE resolve(q)
  <2> DEFINE v == IF wanted[body[q]] = 0 THEN Latest ELSE wanted[body[q]]
  <2>1. CASE v \in Versions
    <3>1. v \in Nat
      BY <2>1 DEF Versions, SubmissionInv, TypeInv
    <3>2. /\ pc[q] = "resolving" /\ Moves(q, "inserting")
          /\ version' = [version EXCEPT ![q] = v]
          /\ UNCHANGED <<sent, tables, answer>>
      BY <1>4, <2>1 DEF resolve, Moves
    <3> HIDE DEF v
    <3> QED
      BY <1>1, <3>1, <3>2, LooksKeep
  <2>2. CASE v \notin Versions
    <3>1. Finish(q, 404) /\ UNCHANGED <<sent, tables, version>>
      BY <1>4, <2>2 DEF resolve
    <3> QED
      BY <1>1, <3>1, FinishKeeps
  <2> QED
    BY <2>1, <2>2
<1>5. CASE create_run(q)
  BY <1>5, CreateRunKeeps
<1>6. CASE create_run_conflict(q)
  BY <1>1, <1>6, FinishKeeps DEF create_run_conflict
<1>7. CASE run_commit(q)
  BY <1>7, RunCommitKeeps
<1> QED
  BY <1>2, <1>3, <1>4, <1>5, <1>6, <1>7 DEF SubmitStep

\* Empty tables satisfy the invariant.
LEMMA SubmissionInit == Init => SubmissionInv
<1> SUFFICES ASSUME Init PROVE SubmissionInv
  OBVIOUS
<1>1. /\ workflows = {} /\ runs = {} /\ keys = {}
      /\ \A q \in Requests : pc[q] = "start" /\ answer[q].status = 0
  BY DEF Init, Start, NoAnswer
<1>2. IsFiniteSet(workflows) /\ Cardinality(workflows) = 0
  BY <1>1, FS_EmptySet
<1>3. TypeInv
  BY <1>1, <1>2 DEF Init, Start, NoAnswer, TypeInv, Places
<1>4. KeyInv
  BY <1>1 DEF KeyInv, KeysLead, KeysUnique, RunsAreDone, RunsHaveKeys, KeyReserved, Requests
<1>5. VersionsContiguous /\ VersionsFollow
  BY <1>1, <1>2 DEF VersionsContiguous, VersionsFollow, Versions, Requests
<1>6. ReplayIsFaithful
  BY <1>1 DEF ReplayIsFaithful, Requests
<1> QED
  BY <1>3, <1>4, <1>5, <1>6 DEF SubmissionInv

\* The invariant holds throughout.
LEMMA SubmissionAlways == Spec => []SubmissionInv
<1>1. SubmissionInv /\ [Next]_vars => SubmissionInv'
  <2> SUFFICES ASSUME SubmissionInv, [Next]_vars PROVE SubmissionInv'
    OBVIOUS
  <2>1. CASE UNCHANGED vars
    BY <2>1 DEF vars, sent, tables, SubmissionInv, TypeInv, KeyInv, KeysLead, KeysUnique,
                RunsAreDone, RunsHaveKeys, KeyReserved, VersionsContiguous, VersionsFollow,
                Versions, ReplayIsFaithful
  <2>2. ASSUME NEW q \in Requests, lost(q) PROVE SubmissionInv'
    BY <2>2, EndsKeep DEF lost, Moves
  <2> QED
    BY <2>1, <2>2, PublishStepKeeps, SubmitStepKeeps DEF Next
<1> QED
  BY <1>1, SubmissionInit, PTL DEF Spec

\* However many requests with one Idempotency-Key race, are repeated or are lost,
\* at most one of them starts a run, and the key is recorded with it.
THEOREM OneRunForEachKey == Spec => []OneRunPerKey
<1>1. ASSUME SubmissionInv PROVE OneRunPerKey
  <2>1. ASSUME NEW r \in runs, NEW s \in runs, key[r.by] = key[s.by], key[r.by] # NoKey
        PROVE  r = s
    <3> DEFINE row(x) == [key |-> key[x.by], request_hash |-> body[x.by], run_id |-> x.by]
    <3>1. row(r) \in keys /\ row(s) \in keys
      BY <1>1, <2>1 DEF SubmissionInv, KeyInv, RunsHaveKeys
    <3>2. row(r) = row(s)
      BY <1>1, <2>1, <3>1 DEF SubmissionInv, KeyInv, KeysUnique
    <3>3. r.by = s.by
      BY <3>2
    <3>4. r.version = s.version
      BY <1>1, <3>3 DEF SubmissionInv, KeyInv, RunsAreDone
    <3>5. r \in [by : Submitters, version : Nat] /\ s \in [by : Submitters, version : Nat]
      BY <1>1 DEF SubmissionInv, TypeInv
    <3> QED
      BY <3>3, <3>4, <3>5
  <2>2. RunsHaveKeys
    BY <1>1 DEF SubmissionInv, KeyInv
  <2> QED
    BY <2>1, <2>2 DEF OneRunPerKey, RunsHaveKeys
<1> QED
  BY <1>1, SubmissionAlways, PTL

\* A replayed answer names a committed run that was started with the same key and
\* the same body.
THEOREM ReplayFaithful == Spec => []ReplayIsFaithful
<1>1. SubmissionInv => ReplayIsFaithful
  BY DEF SubmissionInv
<1> QED
  BY <1>1, SubmissionAlways, PTL

\* The committed versions of a workflow are 1 to their number, whatever publications
\* race, fail or are lost.
THEOREM VersionsHaveNoGap == Spec => []VersionsContiguous
<1>1. SubmissionInv => VersionsContiguous
  BY DEF SubmissionInv
<1> QED
  BY <1>1, SubmissionAlways, PTL

-----------------------------------------------------------------------------
(* The rate limiter.                                                       *)

Steps == {"idle", "creating", "created", "seen", "reading", "refilling", "storing"}

\* Where a thread holds the bucket it will draw from.
Holding == {"seen", "reading", "refilling", "storing"}

RateType ==
    /\ now \in Nat
    /\ bucket \in Threads \cup {None}
    /\ tokens \in [Threads -> 0..Capacity]
    /\ updated_at \in [Threads -> Nat]
    /\ last_seen \in Nat
    /\ place \in [Threads -> Steps]
    /\ mine \in [Threads -> Threads \cup {None}]
    /\ read \in [Threads -> Nat]
    /\ accrued \in [Threads -> 0..Capacity]
    /\ allowed \in BOOLEAN
    /\ credit \in 0..Capacity \cup {Overdrawn}
    /\ blurred \in BOOLEAN
    /\ doubled \in BOOLEAN
    /\ promise \in [at : Nat, deficit : Int]
    /\ entitled \in Threads \cup {None}

\* No clock reading is in the future, and a thread in need of a bucket has one.
RateSane ==
    /\ last_seen <= now
    /\ \A t \in Threads :
         /\ updated_at[t] <= now
         /\ read[t] <= now
         /\ place[t] \in Holding => mine[t] # None

\* What bucket b would hold if it were refilled at time t.
Level(b, t) == tokens[b] + (t - updated_at[b]) * Refill

\* While checks come one at a time, a thread's bucket is the key's, and what the
\* thread has computed is still so.
Alone(t) ==
    /\ \A u \in Threads : place[u] # "idle" => u = t
    /\ place[t] \in {"creating", "created"} => bucket = None
    /\ place[t] = "created" => tokens[t] = Capacity
    /\ place[t] \in Holding => mine[t] = bucket
    /\ place[t] \in {"refilling", "storing"} => read[t] = now
    /\ place[t] = "storing" =>
         accrued[t] = AtMostFull(Level(bucket, now)) /\ updated_at[bucket] < now

\* The inductive invariant of a limiter that is asked one check at a time.
LazyInv ==
    ~blurred /\ IdleTtl * Refill >= Capacity =>
        /\ \A t \in Threads : place[t] # "idle" => Alone(t)
        /\ bucket = None => credit = Capacity
        /\ bucket # None => credit = AtMostFull(Level(bucket, now))
        /\ bucket # None /\ (\A t \in Threads : place[t] # "seen") =>
             updated_at[bucket] <= last_seen
        /\ \A t \in Threads : place[t] = "reading" => last_seen = now
        /\ \A t \in Threads : place[t] \in {"refilling", "storing"} => last_seen = now

\* Unless two buckets were made, the bucket a thread holds is the key's.
HoldsTheBucket ==
    ~doubled => \A t \in Threads : place[t] \in Holding => mine[t] = bucket

\* A promise stands while nobody checks, and is kept by what the bucket accrues.
PromiseKept ==
    promise # NoPromise =>
        /\ Idle
        /\ ~doubled /\ bucket # None =>
             /\ tokens[bucket] + promise.deficit >= Cost
             /\ updated_at[bucket] <= promise.at

\* The thread that checks after the promised wait is alone, and on its way finds
\* enough.
EntitledGets ==
    \A t \in Threads : entitled = t =>
        /\ \A u \in Threads : place[u] # "idle" => u = t
        /\ ~doubled =>
             /\ place[t] = "idle" => allowed
             /\ place[t] \in {"creating", "created"} => bucket = None
             /\ place[t] = "created" => tokens[t] = Capacity
             /\ place[t] \in {"seen", "reading"} => Level(bucket, now) >= Cost
             /\ place[t] = "refilling" => Level(bucket, read[t]) >= Cost
             /\ place[t] = "storing" => accrued[t] >= Cost

\* What accrues in a longer time is no less.
LEMMA MoreTimeMoreTokens ==
    ASSUME NEW a \in Int, NEW b \in Int, NEW c \in Nat, a <= b
    PROVE  a * c <= b * c /\ a * c \in Int /\ b * c \in Int
<1>1. (b - a) * c >= 0
  OBVIOUS
<1> QED
  BY <1>1

\* Time passes tick by tick.
LEMMA OneMoreTick ==
    ASSUME NEW a \in Int, NEW c \in Nat
    PROVE  (a + 1) * c = a * c + c /\ a * c \in Int /\ 0 * c = 0
OBVIOUS

\* A bucket is never above its capacity.
LEMMA AtMostFullType ==
    ASSUME NEW n \in Nat
    PROVE  AtMostFull(n) \in 0..Capacity
BY BucketAssumption DEF AtMostFull

\* Types, and clock readings.
LEMMA RateTypeStep == RateType /\ RateSane /\ [RateNext]_rate_vars => (RateType /\ RateSane)'
<1> SUFFICES ASSUME RateType, RateSane, [RateNext]_rate_vars PROVE (RateType /\ RateSane)'
  OBVIOUS
<1> USE BucketAssumption
<1>1. ASSUME NEW t \in Threads, check(t) PROVE (RateType /\ RateSane)'
  BY <1>1 DEF RateType, RateSane, check, Goto, Steps, Holding, shared, NoPromise
<1>2. ASSUME NEW t \in Threads, new_bucket(t) PROVE (RateType /\ RateSane)'
  BY <1>2 DEF RateType, RateSane, new_bucket, Goto, Steps, Holding, clock, local, told
<1>3. ASSUME NEW t \in Threads, install(t) PROVE (RateType /\ RateSane)'
  BY <1>3 DEF RateType, RateSane, install, Goto, Steps, Holding, told
<1>4. ASSUME NEW t \in Threads, see(t) PROVE (RateType /\ RateSane)'
  BY <1>4 DEF RateType, RateSane, see, Goto, Steps, Holding, clock, local, told
<1>5. ASSUME NEW t \in Threads, read_clock(t) PROVE (RateType /\ RateSane)'
  BY <1>5 DEF RateType, RateSane, read_clock, Goto, Steps, Holding, clock, shared, told
<1>6. ASSUME NEW t \in Threads, NEW b \in Threads, NEW n \in 0..Capacity,
             NEW stamp \in Nat, stamp <= now, Decide(t, b, n, stamp)
      PROVE  (RateType /\ RateSane)'
  BY <1>6 DEF RateType, RateSane, Decide, Deficit, Goto, Steps, Holding, NoPromise, Overdrawn
<1>7. ASSUME NEW t \in Threads, no_refill(t) PROVE (RateType /\ RateSane)'
  BY <1>6, <1>7 DEF RateType, RateSane, no_refill, Holding
<1>8. ASSUME NEW t \in Threads, refill(t) PROVE (RateType /\ RateSane)'
  <2>1. mine[t] \in Threads
    BY <1>8 DEF RateType, RateSane, refill, Holding
  <2>2. Elapsed(t) \in Nat
    BY <1>8, <2>1 DEF RateType, refill, Elapsed
  <2>3. Elapsed(t) * Refill \in Nat
    BY <2>2
  <2>4. Accrued(tokens[mine[t]], Elapsed(t)) \in 0..Capacity
    BY <2>1, <2>3, AtMostFullType DEF Accrued, RateType
  <2> QED
    BY <1>8, <2>4 DEF RateType, RateSane, refill, Goto, Steps, Holding, clock, shared, told
<1>9. ASSUME NEW t \in Threads, acquire(t) PROVE (RateType /\ RateSane)'
  BY <1>6, <1>9 DEF RateType, RateSane, acquire, Holding
<1>10. CASE evict_idle
  BY <1>10 DEF RateType, RateSane, evict_idle, clock, local, told
<1>11. CASE tick
  BY <1>11, AtMostFullType DEF RateType, RateSane, tick, shared, local, told, Overdrawn
<1>12. CASE UNCHANGED rate_vars
  BY <1>12 DEF RateType, RateSane, rate_vars, clock, shared, local, told
<1> QED
  BY <1>1, <1>2, <1>3, <1>4, <1>5, <1>7, <1>8, <1>9, <1>10, <1>11, <1>12 DEF RateNext

\* The bucket that is asked for one check after the other. Its level rises with the
\* timer's, and a check computes just that level; an eviction finds it full.
LEMMA LazyStep ==
    RateType /\ RateSane /\ LazyInv /\ [RateNext]_rate_vars => LazyInv'
<1> SUFFICES ASSUME RateType, RateSane, LazyInv, [RateNext]_rate_vars,
                    ~blurred', IdleTtl * Refill >= Capacity
             PROVE  LazyInv'
  BY DEF LazyInv
<1> USE BucketAssumption
<1>0. ~blurred
  BY DEF RateNext, RateType, rate_vars, clock, check, new_bucket, install, see, read_clock, no_refill,
         refill, acquire, Decide, evict_idle, tick
<1>1. ASSUME NEW t \in Threads, check(t) PROVE LazyInv'
  <2>1. \A u \in Threads : place[u] = "idle"
    BY <1>0, <1>1 DEF check, Others, RateType
  <2>2. \A u \in Threads : place'[u] # "idle" => u = t
    BY <1>1, <2>1 DEF check, Goto, RateType
  <2>3. mine'[t] = bucket /\ place'[t] = IF bucket = None THEN "creating" ELSE "seen"
    BY <1>1 DEF check, Goto, RateType
  <2>4. Alone(t)'
    BY <1>1, <2>2, <2>3 DEF Alone, check, shared, Holding
  <2>5. UNCHANGED <<bucket, tokens, updated_at, now, credit, last_seen>>
    BY <1>1 DEF check, shared
  <2>6. bucket # None => updated_at[bucket] <= last_seen
    BY <1>0, <2>1 DEF LazyInv
  <2> QED
    BY <1>0, <2>1, <2>2, <2>3, <2>4, <2>5, <2>6 DEF LazyInv, Level
<1>2. ASSUME NEW t \in Threads, new_bucket(t) PROVE LazyInv'
  <2>1. Alone(t) /\ bucket = None /\ place[t] = "creating"
    BY <1>0, <1>2 DEF LazyInv, new_bucket, Alone
  <2>2. place'[t] = "created" /\ tokens'[t] = Capacity
    BY <1>2 DEF new_bucket, Goto, RateType
  <2>3. \A u \in Threads : place'[u] # "idle" => u = t
    BY <1>2, <2>1 DEF new_bucket, Goto, RateType, Alone
  <2>4. UNCHANGED <<bucket, now, credit, last_seen>>
    BY <1>2 DEF new_bucket, clock
  <2>5. Alone(t)'
    BY <2>1, <2>2, <2>3, <2>4 DEF Alone, Holding
  <2> QED
    BY <1>0, <2>1, <2>2, <2>3, <2>4, <2>5 DEF LazyInv
<1>3. ASSUME NEW t \in Threads, install(t) PROVE LazyInv'
  <2>1. Alone(t) /\ bucket = None /\ place[t] = "created" /\ tokens[t] = Capacity
    BY <1>0, <1>3 DEF LazyInv, install, Alone
  <2>2. place'[t] = "seen" /\ bucket' = t /\ mine'[t] = t
    BY <1>3 DEF install, Goto, RateType
  <2>3. \A u \in Threads : place'[u] # "idle" => u = t
    BY <1>3, <2>1 DEF install, Goto, RateType, Alone
  <2>4. UNCHANGED <<tokens, updated_at, now, credit, last_seen>>
    BY <1>3 DEF install
  <2>5. Alone(t)'
    BY <2>2, <2>3 DEF Alone, Holding
  <2>6. credit = Capacity
    BY <1>0, <2>1 DEF LazyInv
  <2>7. (now - updated_at[t]) * Refill >= 0
    BY MoreTimeMoreTokens DEF RateSane, RateType
  <2>8. AtMostFull(Level(t, now)) = Capacity
    BY <2>1, <2>7 DEF AtMostFull, Level, RateType
  <2>9. AtMostFull(Level(bucket, now))' = Capacity
    BY <2>2, <2>4, <2>8 DEF AtMostFull, Level
  <2> QED
    BY <2>2, <2>3, <2>4, <2>5, <2>6, <2>9 DEF LazyInv, RateType
<1>4. ASSUME NEW t \in Threads, see(t) PROVE LazyInv'
  <2>1. Alone(t) /\ place[t] = "seen"
    BY <1>0, <1>4 DEF LazyInv, see
  <2>2. place'[t] = "reading" /\ last_seen' = now
    BY <1>4 DEF see, Goto, RateType
  <2>3. \A u \in Threads : place'[u] # "idle" => u = t
    BY <1>4, <2>1 DEF see, Goto, RateType, Alone
  <2>4. UNCHANGED <<bucket, tokens, updated_at, now, credit, mine>>
    BY <1>4 DEF see, clock, local
  <2>5. Alone(t)'
    BY <2>1, <2>2, <2>3, <2>4 DEF Alone, Holding
  <2>6. bucket # None => updated_at[bucket] <= now
    BY DEF RateSane, RateType
  <2> QED
    BY <1>0, <2>2, <2>3, <2>4, <2>5, <2>6 DEF LazyInv, Level, RateType
<1>5. ASSUME NEW t \in Threads, read_clock(t) PROVE LazyInv'
  <2>1. Alone(t) /\ place[t] = "reading" /\ last_seen = now
    BY <1>0, <1>5 DEF LazyInv, read_clock
  <2>2. place'[t] = "refilling" /\ read'[t] = now
    BY <1>5 DEF read_clock, Goto, RateType
  <2>3. \A u \in Threads : place'[u] # "idle" => u = t
    BY <1>5, <2>1 DEF read_clock, Goto, RateType, Alone
  <2>4. UNCHANGED <<bucket, tokens, updated_at, now, credit, mine, last_seen>>
    BY <1>5 DEF read_clock, clock, shared
  <2>5. Alone(t)'
    BY <2>1, <2>2, <2>3, <2>4 DEF Alone, Holding
  <2>6. bucket # None => updated_at[bucket] <= last_seen
    BY <2>1 DEF RateSane, RateType
  <2> QED
    BY <1>0, <2>1, <2>2, <2>3, <2>4, <2>5, <2>6 DEF LazyInv, Level, RateType
<1>6. ASSUME NEW t \in Threads, Alone(t), place[t] \in Holding,
             last_seen = now, NEW n \in 0..Capacity,
             n = AtMostFull(Level(bucket, now)), Decide(t, mine[t], n, now)
      PROVE  LazyInv'
  <2>1. bucket \in Threads /\ mine[t] = bucket
    BY <1>6 DEF Alone, RateSane, RateType
  <2>2. \A u \in Threads : place'[u] = "idle"
    BY <1>6 DEF Decide, Goto, RateType, Alone
  <2>3. credit = n
    BY <1>0, <1>6, <2>1 DEF LazyInv
  <2>4. /\ UNCHANGED <<bucket, now, last_seen>>
        /\ updated_at'[bucket] = now
        /\ tokens'[bucket] = IF n >= Cost THEN n - Cost ELSE n
        /\ credit' = IF n >= Cost THEN n - Cost ELSE n
    BY <1>6, <2>1, <2>3 DEF Decide, RateType
  <2>5. Level(bucket, now)' = tokens'[bucket]
    <3>1. (now - now) * Refill = 0
      BY OneMoreTick DEF RateType
    <3> QED
      BY <2>1, <2>4, <3>1 DEF Level, RateType
  <2>6. credit' = AtMostFull(Level(bucket, now))'
    BY <2>4, <2>5, <1>6 DEF AtMostFull
  <2>7. bucket' # None
    BY <2>1, <2>4
  <2> QED
    BY <1>6, <2>2, <2>4, <2>6, <2>7 DEF LazyInv, Level, AtMostFull, RateType
<1>7. ASSUME NEW t \in Threads, no_refill(t) PROVE LazyInv'
  <2>1. Alone(t) /\ place[t] = "refilling" /\ last_seen = now
    BY <1>0, <1>7 DEF LazyInv, no_refill
  <2>2. bucket \in Threads /\ mine[t] = bucket /\ read[t] = now
    BY <2>1 DEF Alone, Holding, RateSane, RateType
  <2>3. updated_at[bucket] = now
    BY <1>7, <2>2 DEF no_refill, Elapsed, RateSane, RateType
  <2>4. Level(bucket, now) = tokens[bucket]
    BY <2>2, <2>3, OneMoreTick DEF Level, RateType
  <2>5. tokens[bucket] \in 0..Capacity /\ tokens[bucket] = AtMostFull(Level(bucket, now))
    BY <2>2, <2>4 DEF AtMostFull, RateType
  <2> QED
    BY <1>6, <1>7, <2>1, <2>2, <2>3, <2>5 DEF no_refill, Holding
<1>8. ASSUME NEW t \in Threads, refill(t) PROVE LazyInv'
  <2>1. Alone(t) /\ place[t] = "refilling" /\ last_seen = now
    BY <1>0, <1>8 DEF LazyInv, refill
  <2>2. bucket \in Threads /\ mine[t] = bucket /\ read[t] = now
    BY <2>1 DEF Alone, Holding, RateSane, RateType
  <2>3. accrued'[t] = AtMostFull(Level(bucket, now)) /\ updated_at[bucket] < now
    BY <1>8, <2>2 DEF refill, Accrued, Elapsed, Level, RateType
  <2>4. place'[t] = "storing"
    BY <1>8 DEF refill, Goto, RateType
  <2>5. \A u \in Threads : place'[u] # "idle" => u = t
    BY <1>8, <2>1 DEF refill, Goto, RateType, Alone
  <2>6. UNCHANGED <<bucket, tokens, updated_at, now, credit, mine, read, last_seen>>
    BY <1>8 DEF refill, clock, shared
  <2>7. Alone(t)'
    BY <2>1, <2>2, <2>3, <2>4, <2>5, <2>6 DEF Alone, Holding, Level, AtMostFull
  <2> QED
    BY <1>0, <2>1, <2>2, <2>3, <2>4, <2>5, <2>6, <2>7 DEF LazyInv, Level, AtMostFull, RateType
<1>9. ASSUME NEW t \in Threads, acquire(t) PROVE LazyInv'
  <2>1. Alone(t) /\ place[t] = "storing" /\ last_seen = now
    BY <1>0, <1>9 DEF LazyInv, acquire
  <2>2. read[t] = now /\ accrued[t] = AtMostFull(Level(bucket, now))
    BY <2>1 DEF Alone
  <2>3. accrued[t] \in 0..Capacity
    BY DEF RateType
  <2> QED
    BY <1>6, <1>9, <2>1, <2>2, <2>3 DEF acquire, Holding
<1>10. CASE evict_idle
  <2>1. \A t \in Threads : place[t] = "idle"
    BY <1>10 DEF evict_idle, Idle
  <2>2. bucket \in Threads /\ updated_at[bucket] <= last_seen /\ last_seen < now - IdleTtl
    BY <1>0, <1>10, <2>1 DEF evict_idle, LazyInv, RateType
  <2>3. IdleTtl * Refill <= (now - updated_at[bucket]) * Refill
    BY <2>2, MoreTimeMoreTokens DEF RateType
  <2>4. AtMostFull(Level(bucket, now)) = Capacity
    BY <2>2, <2>3, MoreTimeMoreTokens DEF AtMostFull, Level, RateType
  <2>5. credit = Capacity
    BY <1>0, <2>2, <2>4 DEF LazyInv
  <2> QED
    BY <1>10, <2>1, <2>5 DEF evict_idle, LazyInv, clock
<1>11. CASE tick
  <2>1. \A t \in Threads : place[t] \notin {"reading", "refilling", "storing"}
    BY <1>11 DEF tick, RateType
  <2>2. UNCHANGED <<bucket, tokens, updated_at, last_seen, place, mine>> /\ now' = now + 1
    BY <1>11 DEF tick, shared, local
  <2>3. ASSUME NEW t \in Threads, place'[t] # "idle" PROVE Alone(t)'
    BY <1>0, <2>1, <2>2, <2>3 DEF LazyInv, Alone
  <2>4. CASE bucket = None
    BY <1>0, <1>11, <2>1, <2>2, <2>3, <2>4 DEF LazyInv, tick, Overdrawn, AtMostFull
  <2>5. CASE bucket # None
    <3>1. bucket \in Threads
      BY <2>5 DEF RateType
    <3>2. Level(bucket, now)' = Level(bucket, now) + Refill
      <4> DEFINE a == now - updated_at[bucket]
      <4>1. a \in Int /\ now' - updated_at'[bucket'] = a + 1
        BY <2>2, <3>1 DEF RateType
      <4>2. (a + 1) * Refill = a * Refill + Refill /\ a * Refill \in Int
        BY <4>1, OneMoreTick
      <4> QED
        BY <2>2, <3>1, <4>1, <4>2 DEF Level, RateType
    <3>3. credit = AtMostFull(Level(bucket, now))
      BY <1>0, <2>5 DEF LazyInv
    <3>4. Level(bucket, now) \in Nat
      BY <3>1, MoreTimeMoreTokens DEF Level, RateType, RateSane
    <3>5. credit' = AtMostFull(Level(bucket, now))'
      BY <1>11, <3>2, <3>3, <3>4 DEF tick, Overdrawn, AtMostFull
    <3> QED
      BY <1>0, <2>1, <2>2, <2>3, <2>5, <3>5 DEF LazyInv
  <2> QED
    BY <2>4, <2>5
<1>12. CASE UNCHANGED rate_vars
  BY <1>12 DEF LazyInv, Alone, Level, AtMostFull, rate_vars, clock, shared, local, told
<1> QED
  BY <1>1, <1>2, <1>3, <1>4, <1>5, <1>7, <1>8, <1>9, <1>10, <1>11, <1>12 DEF RateNext

\* Every part of the invariant that speaks of promises, for short.
Honest == HoldsTheBucket /\ PromiseKept /\ EntitledGets

\* A bucket that is due holds enough: it was short of the deficit when the promise was
\* made, and has accrued the deficit since.
LEMMA DueBucketHasEnough ==
    ASSUME RateType, PromiseKept, PromiseDue, ~doubled, bucket # None
    PROVE  Level(bucket, now) >= Cost
<1>1. bucket \in Threads
  BY DEF RateType
<1>2. /\ tokens[bucket] + promise.deficit >= Cost
      /\ updated_at[bucket] <= promise.at
      /\ (now - promise.at) * Refill >= promise.deficit
  BY DEF PromiseKept, PromiseDue
<1>3. promise.at \in Nat /\ promise.deficit \in Int /\ now \in Nat /\ updated_at[bucket] \in Nat
      /\ tokens[bucket] \in Nat
  BY <1>1, BucketAssumption DEF RateType
<1>4. /\ (now - promise.at) * Refill <= (now - updated_at[bucket]) * Refill
      /\ (now - promise.at) * Refill \in Int
      /\ (now - updated_at[bucket]) * Refill \in Int
  BY <1>2, <1>3, MoreTimeMoreTokens, BucketAssumption
<1> QED
  BY <1>2, <1>3, <1>4, BucketAssumption DEF Level

\* The decision keeps the promises.
LEMMA DecideHonest ==
    ASSUME RateType, RateSane, Honest,
           NEW t \in Threads, place[t] \in Holding,
           NEW n \in 0..Capacity, NEW stamp \in Nat, stamp <= now,
           Decide(t, mine[t], n, stamp),
           entitled = t /\ ~doubled => n >= Cost
    PROVE  Honest'
<1> USE BucketAssumption
<1>1. mine[t] \in Threads /\ place[t] # "idle"
  BY DEF RateSane, RateType, Holding
<1>2. \A u \in Threads : place'[u] = IF u = t THEN "idle" ELSE place[u]
  BY DEF Decide, Goto, RateType
<1>3. HoldsTheBucket'
  BY <1>2 DEF HoldsTheBucket, Decide, Honest, Holding, RateType
<1>4. PromiseKept'
  <2>1. CASE n >= Cost \/ Others(t)
    BY <2>1 DEF PromiseKept, Decide
  <2>2. CASE n < Cost /\ ~Others(t)
    <3>1. Idle'
      BY <1>2, <2>2 DEF Idle, Others
    <3>2. promise' = [at |-> now, deficit |-> Cost - n]
      BY <2>2 DEF Decide, Deficit
    <3>3. tokens'[mine[t]] = n /\ updated_at'[mine[t]] = stamp
      BY <1>1, <2>2 DEF Decide, RateType
    <3>4. ~doubled' => bucket' = mine[t]
      BY DEF Decide, HoldsTheBucket, Honest
    <3> QED
      BY <3>1, <3>2, <3>3, <3>4 DEF PromiseKept
  <2> QED
    BY <2>1, <2>2
<1>5. EntitledGets'
  <2>1. allowed' = (n >= Cost) /\ doubled' = doubled /\ entitled' = entitled
    BY DEF Decide
  <2>2. ASSUME NEW u \in Threads, entitled' = u PROVE u = t
    BY <1>1, <2>1, <2>2 DEF EntitledGets, Honest
  <2> QED
    BY <1>2, <2>1, <2>2 DEF EntitledGets, Honest
<1> QED
  BY <1>3, <1>4, <1>5 DEF Honest

\* A promise is made when nobody else is about, and whoever comes after it is alone
\* with the bucket it was made about, or with a full one.
LEMMA HonestStep ==
    RateType /\ RateSane /\ Honest /\ [RateNext]_rate_vars => Honest'
<1> SUFFICES ASSUME RateType, RateSane, HoldsTheBucket, PromiseKept, EntitledGets, Honest,
                    [RateNext]_rate_vars
             PROVE  Honest'
  BY DEF Honest
<1> USE BucketAssumption
<1>0. ASSUME NEW t \in Threads, place[t] # "idle"
      PROVE  promise = NoPromise /\ \A u \in Threads : entitled = u => u = t
  BY <1>0 DEF PromiseKept, EntitledGets, Idle
<1>1. ASSUME NEW t \in Threads, check(t) PROVE Honest'
  <2>1. UNCHANGED <<now, bucket, tokens, updated_at, doubled>> /\ promise' = NoPromise
    BY <1>1 DEF check, shared
  <2>2. \A u \in Threads : place'[u] = IF u = t THEN IF bucket = None THEN "creating" ELSE "seen"
                                       ELSE place[u]
    BY <1>1 DEF check, Goto, RateType
  <2>3. \A u \in Threads : mine'[u] = IF u = t THEN bucket ELSE mine[u]
    BY <1>1 DEF check, RateType
  <2>4. HoldsTheBucket'
    BY <2>1, <2>2, <2>3 DEF HoldsTheBucket
  <2>5. ASSUME NEW v \in Threads, entitled' = v
        PROVE  v = t /\ PromiseDue /\ \A u \in Threads : place[u] # "idle" => u = t
    BY <1>1, <2>5 DEF check, Others
  <2>6. ASSUME NEW v \in Threads, entitled' = v, ~doubled, bucket # None
        PROVE  Level(bucket, now)' >= Cost
    BY <2>1, <2>5, <2>6, DueBucketHasEnough DEF Level
  <2>7. EntitledGets'
    BY <2>1, <2>2, <2>5, <2>6 DEF EntitledGets
  <2> QED
    BY <2>1, <2>4, <2>7 DEF Honest, PromiseKept
<1>2. ASSUME NEW t \in Threads, new_bucket(t) PROVE Honest'
  <2>1. UNCHANGED <<now, bucket, doubled, mine, promise, entitled, allowed>> /\ place[t] = "creating"
    BY <1>2 DEF new_bucket, clock, local, told
  <2>2. \A u \in Threads : place'[u] = IF u = t THEN "created" ELSE place[u]
    BY <1>2 DEF new_bucket, Goto, RateType
  <2>3. tokens'[t] = Capacity
    BY <1>2 DEF new_bucket, RateType
  <2>4. HoldsTheBucket'
    BY <2>1, <2>2 DEF HoldsTheBucket, Holding
  <2>5. EntitledGets'
    BY <1>0, <2>1, <2>2, <2>3 DEF EntitledGets
  <2> QED
    BY <1>0, <2>1, <2>4, <2>5 DEF Honest, PromiseKept
<1>3. ASSUME NEW t \in Threads, install(t) PROVE Honest'
  <2>1. /\ UNCHANGED <<now, tokens, updated_at, promise, entitled, allowed>>
        /\ place[t] = "created" /\ bucket' = t /\ doubled' = (doubled \/ bucket # None)
    BY <1>3 DEF install, told
  <2>2. \A u \in Threads : place'[u] = IF u = t THEN "seen" ELSE place[u]
    BY <1>3 DEF install, Goto, RateType
  <2>3. \A u \in Threads : mine'[u] = IF u = t THEN t ELSE mine[u]
    BY <1>3 DEF install, RateType
  <2>4. HoldsTheBucket'
    BY <2>1, <2>2, <2>3 DEF HoldsTheBucket, RateSane
  <2>5. ASSUME entitled = t, ~doubled' PROVE Level(bucket, now)' >= Cost
    <3>1. tokens[t] = Capacity
      BY <2>1, <2>5 DEF EntitledGets, RateType
    <3>2. (now - updated_at[t]) * Refill >= 0 /\ (now - updated_at[t]) * Refill \in Int
      BY MoreTimeMoreTokens DEF RateSane, RateType
    <3> QED
      BY <2>1, <3>1, <3>2 DEF Level
  <2>6. EntitledGets'
    BY <1>0, <2>1, <2>2, <2>5 DEF EntitledGets
  <2> QED
    BY <1>0, <2>1, <2>4, <2>6 DEF Honest, PromiseKept
<1>4. ASSUME NEW t \in Threads, see(t) PROVE Honest'
  <2>1. /\ UNCHANGED <<now, bucket, tokens, updated_at, doubled, mine, promise, entitled, allowed>>
        /\ place[t] = "seen"
    BY <1>4 DEF see, clock, local, told
  <2>2. \A u \in Threads : place'[u] = IF u = t THEN "reading" ELSE place[u]
    BY <1>4 DEF see, Goto, RateType
  <2>4. HoldsTheBucket'
    BY <2>1, <2>2 DEF HoldsTheBucket, Holding
  <2>5. EntitledGets'
    BY <1>0, <2>1, <2>2 DEF EntitledGets, Level
  <2> QED
    BY <1>0, <2>1, <2>4, <2>5 DEF Honest, PromiseKept
<1>5. ASSUME NEW t \in Threads, read_clock(t) PROVE Honest'
  <2>1. /\ UNCHANGED <<now, bucket, tokens, updated_at, doubled, mine, promise, entitled, allowed>>
        /\ place[t] = "reading"
    BY <1>5 DEF read_clock, clock, shared, told
  <2>2. \A u \in Threads : place'[u] = IF u = t THEN "refilling" ELSE place[u]
    BY <1>5 DEF read_clock, Goto, RateType
  <2>3. read'[t] = now
    BY <1>5 DEF read_clock, RateType
  <2>4. HoldsTheBucket'
    BY <2>1, <2>2 DEF HoldsTheBucket, Holding
  <2>5. EntitledGets'
    BY <1>0, <2>1, <2>2, <2>3 DEF EntitledGets, Level
  <2> QED
    BY <1>0, <2>1, <2>4, <2>5 DEF Honest, PromiseKept
<1>7. ASSUME NEW t \in Threads, no_refill(t) PROVE Honest'
  <2>1. mine[t] \in Threads /\ place[t] = "refilling" /\ place[t] \in Holding
    BY <1>7 DEF no_refill, RateSane, RateType, Holding
  <2>2. ASSUME entitled = t, ~doubled PROVE tokens[mine[t]] >= Cost
    <3>1. Level(bucket, read[t]) >= Cost /\ mine[t] = bucket
      BY <2>1, <2>2 DEF EntitledGets, HoldsTheBucket
    <3>2. read[t] - updated_at[bucket] <= 0
      BY <1>7, <3>1 DEF no_refill, Elapsed
    <3>3. /\ (read[t] - updated_at[bucket]) * Refill <= 0 * Refill
          /\ (read[t] - updated_at[bucket]) * Refill \in Int
          /\ 0 * Refill = 0
      BY <2>1, <3>1, <3>2, MoreTimeMoreTokens, OneMoreTick DEF RateType
    <3> QED
      BY <2>1, <3>1, <3>3 DEF Level, RateType
  <2>3. tokens[mine[t]] \in 0..Capacity /\ updated_at[mine[t]] \in Nat /\ updated_at[mine[t]] <= now
    BY <2>1 DEF RateType, RateSane
  <2>4. Decide(t, mine[t], tokens[mine[t]], updated_at[mine[t]])
    BY <1>7 DEF no_refill
  <2> QED
    BY <2>1, <2>2, <2>3, <2>4, DecideHonest
<1>8. ASSUME NEW t \in Threads, refill(t) PROVE Honest'
  <2>1. /\ UNCHANGED <<now, bucket, tokens, updated_at, doubled, mine, promise, entitled, allowed>>
        /\ place[t] = "refilling"
    BY <1>8 DEF refill, clock, shared, told
  <2>2. \A u \in Threads : place'[u] = IF u = t THEN "storing" ELSE place[u]
    BY <1>8 DEF refill, Goto, RateType
  <2>3. ASSUME entitled = t, ~doubled PROVE accrued'[t] >= Cost
    <3>1. Level(bucket, read[t]) >= Cost /\ mine[t] = bucket /\ bucket \in Threads
      BY <2>1, <2>3 DEF EntitledGets, HoldsTheBucket, Holding, RateSane, RateType
    <3>2. accrued'[t] = AtMostFull(Level(bucket, read[t]))
      BY <1>8, <3>1 DEF refill, Accrued, Elapsed, Level, RateType
    <3> QED
      BY <3>1, <3>2 DEF AtMostFull
  <2>4. HoldsTheBucket'
    BY <2>1, <2>2 DEF HoldsTheBucket, Holding
  <2>5. EntitledGets'
    BY <1>0, <2>1, <2>2, <2>3 DEF EntitledGets, Level
  <2> QED
    BY <1>0, <2>1, <2>4, <2>5 DEF Honest, PromiseKept
<1>9. ASSUME NEW t \in Threads, acquire(t) PROVE Honest'
  <2>1. place[t] = "storing" /\ place[t] \in Holding /\ Decide(t, mine[t], accrued[t], read[t])
    BY <1>9 DEF acquire, Holding
  <2>2. accrued[t] \in 0..Capacity /\ read[t] \in Nat /\ read[t] <= now
    BY DEF RateType, RateSane
  <2>3. entitled = t /\ ~doubled => accrued[t] >= Cost
    BY <2>1 DEF EntitledGets
  <2> QED
    BY <2>1, <2>2, <2>3, DecideHonest
<1>10. CASE evict_idle
  BY <1>10 DEF Honest, HoldsTheBucket, PromiseKept, EntitledGets, evict_idle, Idle, Holding,
               clock, local, told
<1>11. CASE tick
  <2>1. UNCHANGED <<bucket, tokens, updated_at, doubled, place, mine, read, accrued, promise,
                    entitled, allowed>> /\ now' = now + 1
    BY <1>11 DEF tick, shared, local, told
  <2>2. HoldsTheBucket' /\ PromiseKept'
    BY <2>1 DEF HoldsTheBucket, PromiseKept, Idle
  <2>3. ASSUME NEW t \in Threads, place[t] \in {"seen", "reading"}, ~doubled,
               Level(bucket, now) >= Cost
        PROVE  Level(bucket, now)' >= Cost
    <3>1. bucket \in Threads
      BY <2>3 DEF HoldsTheBucket, Holding, RateSane, RateType
    <3> DEFINE a == now - updated_at[bucket]
    <3>2. a \in Int /\ now' - updated_at'[bucket'] = a + 1
      BY <2>1, <3>1 DEF RateType
    <3>3. (a + 1) * Refill = a * Refill + Refill /\ a * Refill \in Int
      BY <3>2, OneMoreTick
    <3> QED
      BY <2>1, <2>3, <3>1, <3>2, <3>3 DEF Level, RateType
  <2>4. EntitledGets'
    BY <2>1, <2>3 DEF EntitledGets, Level
  <2> QED
    BY <2>2, <2>4 DEF Honest
<1>12. CASE UNCHANGED rate_vars
  BY <1>12 DEF Honest, HoldsTheBucket, PromiseKept, EntitledGets, Idle, Level, rate_vars, clock,
               shared, local, told
<1> QED
  BY <1>1, <1>2, <1>3, <1>4, <1>5, <1>7, <1>8, <1>9, <1>10, <1>11, <1>12 DEF RateNext

\* No bucket exists yet.
LEMMA RateInitInv == RateInit => RateType /\ RateSane /\ LazyInv /\ Honest
<1> SUFFICES ASSUME RateInit PROVE RateType /\ RateSane /\ LazyInv /\ Honest
  OBVIOUS
<1> USE BucketAssumption DEF RateInit
<1>1. RateType
  <2>1. promise \in [at : Nat, deficit : Int]
    BY DEF NoPromise
  <2>2. allowed \in BOOLEAN /\ blurred \in BOOLEAN /\ doubled \in BOOLEAN
    BY Zenon
  <2>3. /\ now \in Nat /\ last_seen \in Nat
        /\ credit \in 0..Capacity \cup {Overdrawn}
        /\ tokens \in [Threads -> 0..Capacity]
        /\ accrued \in [Threads -> 0..Capacity]
    OBVIOUS
  <2>4. /\ bucket \in Threads \cup {None} /\ entitled \in Threads \cup {None}
        /\ updated_at \in [Threads -> Nat] /\ read \in [Threads -> Nat]
        /\ mine \in [Threads -> Threads \cup {None}]
        /\ place \in [Threads -> Steps]
    BY DEF Steps
  <2> QED
    BY <2>1, <2>2, <2>3, <2>4 DEF RateType
<1>2. RateSane
  BY DEF RateSane, Holding
<1>3. LazyInv
  BY DEF LazyInv
<1>4. Honest
  BY DEF Honest, HoldsTheBucket, PromiseKept, EntitledGets, Holding
<1> QED
  BY <1>1, <1>2, <1>3, <1>4

\* Between requests the lazy bucket and the one that is refilled at every tick agree.
LEMMA LazyInvIsExact == LazyInv => LazyIsExact
BY DEF LazyInv, LazyIsExact, Idle, Level

\* The invariants of the limiter, together.
LEMMA RateInvHolds == RateSpec => [](RateType /\ RateSane /\ LazyInv /\ Honest)
<1>1. RateType /\ RateSane /\ LazyInv /\ Honest /\ [RateNext]_rate_vars =>
        (RateType /\ RateSane /\ LazyInv /\ Honest)'
  BY RateTypeStep, LazyStep, HonestStep
<1> QED
  BY <1>1, RateInitInv, PTL DEF RateSpec

\* "The bucket is lazy": while checks come one at a time, the tokens that try_acquire
\* computes on demand are those of a bucket that a timer refills, whatever the rate and
\* the capacity, and evict_idle forgets nothing when the idle time refills a bucket.
THEOREM LimiterIsExact == RateSpec => []LazyIsExact
BY RateInvHolds, LazyInvIsExact, PTL

\* "Telling a client exactly when to come back": whoever waits as long as a refusal's
\* retry_after says is admitted, for any threads that race for the bucket before.
THEOREM LimiterIsHonest == RateSpec => []RetryAfterIsHonest
<1>1. Honest => RetryAfterIsHonest
  BY DEF Honest, EntitledGets, RetryAfterIsHonest
<1> QED
  BY <1>1, RateInvHolds, PTL

-----------------------------------------------------------------------------
(* The pages of runs.                                                      *)

ListType ==
    /\ today \in Nat \ {0}
    /\ created_at \in [Ids -> Nat]
    /\ committed \subseteq Ids
    /\ active \subseteq Ids
    /\ filtered \in BOOLEAN
    /\ cursor \in [created_at : Int, id : Int]
    /\ listed \in Seq(Ids)
    /\ steady \subseteq Ids

\* What is visible was inserted, what was listed is visible, and the cursor is the
\* position of the last item.
CursorInv ==
    /\ \A r \in committed : created_at[r] > 0
    /\ \A i \in 1..Len(listed) : listed[i] \in committed
    /\ cursor = Top => listed = <<>> /\ steady = {}
    /\ cursor \notin {Top, Finished} =>
         listed # <<>> /\ cursor = Position(listed[Len(listed)])

\* A run that has been there all along is listed, or the cursor is still to reach it.
AheadInv ==
    \A r \in steady :
        /\ r \in Matching
        /\ \/ \E i \in 1..Len(listed) : listed[i] = r
           \/ cursor # Finished /\ Before(Position(r), cursor)

ListInv == ListType /\ CursorInv /\ ListedOnce /\ AheadInv

\* The rows of a query are a sequence of all of them, newest first.
LEMMA RowsInOrder ==
    ASSUME ListType, NEW rows \in Ordered(Rows)
    PROVE  /\ rows \in Seq(Ids)
           /\ \A i \in 1..Len(rows) : rows[i] \in Rows
           /\ \A r \in Rows : \E i \in 1..Len(rows) : rows[i] = r
           /\ \A i, j \in 1..Len(rows) : i < j => Newer(rows[i], rows[j])
<1>1. Rows \in SUBSET Ids
  BY DEF Rows, Matching, ListType
<1>2. Cardinality(Rows) \in Nat
  BY <1>1, FS_Subset, FS_CardinalityType, ListingAssumption
<1> DEFINE n == Cardinality(Rows)
<1>3. rows \in [1..n -> Rows] /\ ToSet(rows) = Rows
      /\ \A i, j \in 1..n : i < j => Newer(rows[i], rows[j])
  BY DEF Ordered
<1> HIDE DEF n
<1>4. n \in Nat
  BY <1>2 DEF n
<1>5. rows \in [1..n -> Ids] /\ DOMAIN rows = 1..n
  BY <1>1, <1>3
<1>6. rows \in Seq(Ids) /\ Len(rows) = n
  BY <1>4, <1>5
<1> QED
  BY <1>3, <1>5, <1>6 DEF ToSet

\* What list_page appends, and where it leaves the cursor: the first items of the rows,
\* the last of them when rows remain.
LEMMA PageInOrder ==
    ASSUME ListType, NEW limit \in Limits, list_page(limit)
    PROVE  /\ cursor # Finished
           /\ \E page \in Seq(Ids) :
                /\ listed' = listed \o page
                /\ \A i \in 1..Len(page) : page[i] \in Rows
                /\ \A i, j \in 1..Len(page) : i < j => Newer(page[i], page[j])
                /\ \/ /\ cursor' = Finished
                      /\ \A r \in Rows : \E i \in 1..Len(page) : page[i] = r
                   \/ /\ Len(page) > 0
                      /\ cursor' = Position(page[Len(page)])
                      /\ \A r \in Rows : \/ \E i \in 1..Len(page) : page[i] = r
                                         \/ Newer(page[Len(page)], r)
<1> DEFINE size == PageSize(limit)
<1>1. size \in Nat \ {0}
  BY ListingAssumption DEF PageSize
<1>2. cursor # Finished
  BY DEF list_page
<1>3. PICK rows \in Ordered(Rows) :
        IF Len(rows) > size
          THEN listed' = listed \o SubSeq(rows, 1, size) /\ cursor' = Position(rows[size])
          ELSE listed' = listed \o rows /\ cursor' = Finished
  BY DEF list_page
<1>4. /\ rows \in Seq(Ids)
      /\ \A i \in 1..Len(rows) : rows[i] \in Rows
      /\ \A r \in Rows : \E i \in 1..Len(rows) : rows[i] = r
      /\ \A i, j \in 1..Len(rows) : i < j => Newer(rows[i], rows[j])
  BY RowsInOrder
<1> HIDE DEF size
<1>5. CASE Len(rows) > size
  <2> DEFINE page == SubSeq(rows, 1, size)
  <2>1. /\ page \in Seq(Ids) /\ Len(page) = size
        /\ \A i \in 1..size : page[i] = rows[i]
    BY <1>1, <1>4, <1>5
  <2> HIDE DEF page
  <2>2. ASSUME NEW r \in Rows
        PROVE  \/ \E i \in 1..Len(page) : page[i] = r
               \/ Newer(page[Len(page)], r)
    <3>1. PICK i \in 1..Len(rows) : rows[i] = r
      BY <1>4
    <3>2. CASE i <= size
      BY <1>1, <1>4, <2>1, <3>1, <3>2
    <3>3. CASE i > size
      BY <1>1, <1>4, <1>5, <2>1, <3>1, <3>3
    <3> QED
      BY <1>1, <1>4, <3>2, <3>3
  <2>3. listed' = listed \o page /\ cursor' = Position(page[Len(page)])
    BY <1>1, <1>3, <1>5, <2>1 DEF page
  <2>4. \A i \in 1..Len(page) : page[i] \in Rows
    BY <1>1, <1>4, <1>5, <2>1
  <2>5. \A i, j \in 1..Len(page) : i < j => Newer(page[i], page[j])
    BY <1>1, <1>4, <1>5, <2>1
  <2>6. Len(page) > 0
    BY <1>1, <2>1
  <2> QED
    BY <1>2, <2>1, <2>2, <2>3, <2>4, <2>5, <2>6
<1>6. CASE ~ (Len(rows) > size)
  BY <1>2, <1>3, <1>4, <1>6
<1> QED
  BY <1>5, <1>6

\* The order of the query is transitive, and it is the order of the cursor.
LEMMA NewerIsBefore ==
    ASSUME ListType, NEW r \in Ids, NEW s \in Ids
    PROVE  /\ Before(Position(s), Position(r)) <=> Newer(r, s)
           /\ \A t \in Ids : Newer(r, s) /\ Newer(s, t) => Newer(r, t)
BY ListingAssumption DEF ListType, Before, Position, Newer

\* The position of a run that is visible is neither end of the walk.
LEMMA PositionIsInside ==
    ASSUME ListType, NEW r \in Ids, created_at[r] > 0
    PROVE  /\ Position(r) \notin {Top, Finished}
           /\ Position(r) \in [created_at : Int, id : Int]
BY ListingAssumption DEF ListType, Position, Top, Finished

\* A page goes on where the last one ended: it is older than the cursor, and what is
\* older than its own last item is left to the next.
LEMMA PageStep ==
    ASSUME ListInv, NEW limit \in Limits, list_page(limit)
    PROVE  ListInv'
<1> USE DEF ListInv
<1>1. UNCHANGED <<today, created_at, committed, active, filtered>>
  BY DEF list_page
<1>2. PICK page \in Seq(Ids) :
        /\ listed' = listed \o page
        /\ \A i \in 1..Len(page) : page[i] \in Rows
        /\ \A i, j \in 1..Len(page) : i < j => Newer(page[i], page[j])
        /\ \/ /\ cursor' = Finished
              /\ \A r \in Rows : \E i \in 1..Len(page) : page[i] = r
           \/ /\ Len(page) > 0
              /\ cursor' = Position(page[Len(page)])
              /\ \A r \in Rows : \/ \E i \in 1..Len(page) : page[i] = r
                                 \/ Newer(page[Len(page)], r)
  BY PageInOrder
<1>3. cursor # Finished
  BY DEF list_page
<1>4. /\ listed \in Seq(Ids) /\ listed' \in Seq(Ids)
      /\ Len(listed') = Len(listed) + Len(page)
      /\ \A i \in 1..Len(listed) : listed'[i] = listed[i]
      /\ \A i \in 1..Len(page) : listed'[Len(listed) + i] = page[i]
      /\ \A i \in 1..Len(listed') : i > Len(listed) =>
           i - Len(listed) \in 1..Len(page) /\ listed'[i] = page[i - Len(listed)]
      /\ Len(listed) \in Nat /\ Len(page) \in Nat
  BY <1>2 DEF ListType
<1>5. \A r \in Rows : r \in committed /\ r \in Ids /\ created_at[r] > 0
  BY DEF Rows, Matching, CursorInv, ListType
<1>6. \A i \in 1..Len(page) : Position(page[i]) \notin {Top, Finished}
      /\ Position(page[i]) \in [created_at : Int, id : Int]
  BY <1>2, <1>5, PositionIsInside
<1>7. Finished \in [created_at : Int, id : Int] /\ Finished # Top
  BY DEF Finished, Top
<1>8. ListType'
  <2>1. cursor' \in [created_at : Int, id : Int]
    BY <1>2, <1>4, <1>6, <1>7
  <2>2. steady' \subseteq Ids
    BY DEF list_page, Matching, ListType
  <2> QED
    BY <1>1, <1>4, <2>1, <2>2 DEF ListType
<1>9. CursorInv'
  <2>1. ASSUME NEW i \in 1..Len(listed') PROVE listed'[i] \in committed
    <3>1. CASE i > Len(listed)
      BY <1>2, <1>4, <1>5, <3>1
    <3>2. CASE i \in 1..Len(listed)
      BY <1>4, <3>2 DEF CursorInv
    <3> QED
      BY <1>4, <3>1, <3>2
  <2>2. cursor' # Top
    <3>1. CASE cursor' = Finished
      BY <1>7, <3>1
    <3>2. CASE Len(page) > 0 /\ cursor' = Position(page[Len(page)])
      <4>1. Len(page) \in 1..Len(page)
        BY <1>4, <3>2
      <4> QED
        BY <1>6, <3>2, <4>1
    <3> QED
      BY <1>2, <3>1, <3>2
  <2>3. CASE Len(page) > 0 /\ cursor' = Position(page[Len(page)])
    <3>1. listed' # <<>> /\ listed'[Len(listed')] = page[Len(page)]
      BY <1>4, <2>3
    <3>3. cursor' = Position(listed[Len(listed)])'
      BY <1>1, <2>3, <3>1 DEF Position
    <3> QED
      BY <1>1, <2>1, <2>2, <3>1, <3>3 DEF CursorInv
  <2>4. CASE cursor' = Finished
    BY <1>1, <2>1, <2>2, <2>4 DEF CursorInv, Finished
  <2> QED
    BY <1>2, <2>3, <2>4
<1>10. ASSUME NEW i \in 1..Len(listed), NEW r \in Rows
       PROVE  Newer(listed[i], r)
  <2>1. cursor # Top /\ Len(listed) > 0
    BY <1>4 DEF CursorInv
  <2> DEFINE last == listed[Len(listed)]
  <2>2. last \in Ids /\ listed[i] \in Ids /\ r \in Ids
    BY <1>4, <1>5, <2>1
  <2>3. cursor = Position(last)
    BY <1>3, <2>1 DEF CursorInv
  <2>4. Before(Position(r), cursor)
    BY <2>1 DEF Rows
  <2>5. Newer(last, r)
    BY <2>2, <2>3, <2>4, NewerIsBefore
  <2>6. listed[i] = last \/ Newer(listed[i], last)
    <3>1. Len(listed) \in 1..Len(listed) /\ (i = Len(listed) \/ i < Len(listed))
      BY <1>4
    <3> QED
      BY <3>1 DEF ListedOnce
  <2> QED
    BY <2>2, <2>5, <2>6, NewerIsBefore
<1>11. ListedOnce'
  <2>1. ASSUME NEW i \in 1..Len(listed'), NEW j \in 1..Len(listed'), i < j
        PROVE  Newer(listed'[i], listed'[j])
    <3>1. CASE j <= Len(listed)
      <4>1. i \in 1..Len(listed) /\ j \in 1..Len(listed)
        BY <1>4, <2>1, <3>1
      <4>2. Newer(listed[i], listed[j])
        BY <2>1, <4>1 DEF ListedOnce
      <4> QED
        BY <1>4, <4>1, <4>2
    <3>2. CASE i <= Len(listed) /\ j > Len(listed)
      <4>1. i \in 1..Len(listed) /\ listed'[i] = listed[i]
        BY <1>4, <2>1, <3>2
      <4>2. j - Len(listed) \in 1..Len(page) /\ listed'[j] = page[j - Len(listed)]
        BY <1>4, <2>1, <3>2
      <4> QED
        BY <1>2, <1>10, <4>1, <4>2
    <3>3. CASE i > Len(listed)
      <4>1. i - Len(listed) \in 1..Len(page) /\ listed'[i] = page[i - Len(listed)]
        BY <1>4, <3>3
      <4>2. j - Len(listed) \in 1..Len(page) /\ listed'[j] = page[j - Len(listed)]
        BY <1>4, <2>1, <3>3
      <4>3. i - Len(listed) < j - Len(listed)
        BY <1>4, <2>1
      <4> QED
        BY <1>2, <4>1, <4>2, <4>3
    <3> QED
      BY <1>4, <2>1, <3>1, <3>2, <3>3
  <2>2. \A r, s : Newer(r, s) => Newer(r, s)'
    BY <1>1 DEF Newer
  <2> QED
    BY <1>1, <2>1 DEF ListedOnce, Newer
<1>12. AheadInv'
  <2>1. ASSUME NEW r \in steady'
        PROVE  /\ r \in Matching'
               /\ \/ \E i \in 1..Len(listed') : listed'[i] = r
                  \/ cursor' # Finished /\ Before(Position(r)', cursor')
    <3>1. r \in Matching /\ Matching' = Matching
      BY <1>1, <2>1 DEF list_page, AheadInv, Matching
    <3>2. r \in Rows \/ \E i \in 1..Len(listed) : listed[i] = r
      BY <2>1, <3>1 DEF list_page, AheadInv, Rows, Begun
    <3>3. CASE \E i \in 1..Len(listed) : listed[i] = r
      BY <1>4, <3>1, <3>3
    <3>4. CASE \E i \in 1..Len(page) : page[i] = r
      <4>1. PICK i \in 1..Len(page) : page[i] = r
        BY <3>4
      <4>2. Len(listed) + i \in 1..Len(listed') /\ listed'[Len(listed) + i] = r
        BY <1>4, <4>1
      <4> QED
        BY <3>1, <4>2
    <3>5. CASE r \in Rows /\ Len(page) > 0 /\ cursor' = Position(page[Len(page)])
                /\ Newer(page[Len(page)], r)
      <4> DEFINE last == page[Len(page)]
      <4>1. last \in Ids /\ r \in Ids /\ Position(last) # Finished
        BY <1>2, <1>4, <1>5, <1>6, <3>5
      <4>2. Before(Position(r), Position(last))
        BY <3>5, <4>1, NewerIsBefore
      <4>3. Position(r)' = Position(r)
        BY <1>1 DEF Position
      <4> QED
        BY <3>1, <3>5, <4>1, <4>2, <4>3
    <3> QED
      BY <1>2, <3>2, <3>3, <3>4, <3>5
  <2> QED
    BY <2>1 DEF AheadInv, Before, Position
<1> QED
  BY <1>8, <1>9, <1>11, <1>12

\* Between two pages writers do what they like: what was listed is committed, so its
\* created_at stands, and a run that leaves the filter is no longer steady.
LEMMA ListStep == ListInv /\ [ListNext]_list_vars => ListInv'
<1> SUFFICES ASSUME ListInv, [ListNext]_list_vars PROVE ListInv'
  OBVIOUS
<1> USE DEF ListInv
<1>1. ASSUME NEW r \in Ids, insert_run(r) PROVE ListInv'
  <2>1. /\ UNCHANGED <<today, committed, active, filtered, cursor, listed, steady>>
        /\ created_at[r] = 0
        /\ \A s \in Ids : s # r => created_at'[s] = created_at[s]
        /\ created_at' \in [Ids -> Nat]
    BY <1>1 DEF insert_run, ListType
  <2>2. r \notin committed
    BY <2>1 DEF CursorInv
  <2>3. \A s \in committed : created_at'[s] = created_at[s]
    BY <2>1, <2>2 DEF ListType
  <2>4. \A i \in 1..Len(listed) : created_at'[listed[i]] = created_at[listed[i]]
    BY <2>3 DEF CursorInv
  <2>5. ListType'
    BY <2>1 DEF ListType
  <2>6. CursorInv'
    <3>1. listed # <<>> => Len(listed) \in 1..Len(listed)
      BY DEF ListType
    <3>2. cursor \notin {Top, Finished} =>
            listed # <<>> /\ cursor = Position(listed[Len(listed)])'
      BY <2>1, <2>4, <3>1 DEF CursorInv, Position
    <3> QED
      BY <2>1, <2>3, <3>2 DEF CursorInv
  <2>7. ListedOnce'
    BY <2>1, <2>4 DEF ListedOnce, Newer
  <2>8. AheadInv'
    <3>1. \A s \in steady : s \in committed /\ Position(s)' = Position(s)
      BY <2>3 DEF AheadInv, Matching, Position
    <3>2. Matching' = Matching
      BY <2>1 DEF Matching
    <3> QED
      BY <2>1, <3>1, <3>2 DEF AheadInv, Before
  <2> QED
    BY <2>5, <2>6, <2>7, <2>8
<1>2. ASSUME NEW r \in Ids, commit_run(r) PROVE ListInv'
  <2>1. /\ UNCHANGED <<today, created_at, active, filtered, cursor, listed, steady>>
        /\ created_at[r] # 0 /\ committed' = committed \cup {r}
    BY <1>2 DEF commit_run
  <2>2. ListType'
    BY <2>1 DEF ListType
  <2>3. CursorInv'
    BY <2>1 DEF CursorInv, Position, ListType
  <2>4. ListedOnce'
    BY <2>1 DEF ListedOnce, Newer
  <2>5. AheadInv'
    BY <2>1 DEF AheadInv, Matching, Before, Position
  <2> QED
    BY <2>2, <2>3, <2>4, <2>5
<1>3. ASSUME NEW r \in Ids, change_state(r) PROVE ListInv'
  <2>1. /\ UNCHANGED <<today, created_at, committed, filtered, cursor, listed>>
        /\ active' \subseteq Ids /\ active \ {r} \subseteq active'
        /\ steady' \subseteq steady /\ (filtered => r \notin steady')
    BY <1>3 DEF change_state, ListType
  <2>2. ListType'
    BY <2>1 DEF ListType
  <2>3. CursorInv'
    BY <2>1 DEF CursorInv, Position
  <2>4. ListedOnce'
    BY <2>1 DEF ListedOnce, Newer
  <2>5. AheadInv'
    BY <2>1 DEF AheadInv, Matching, Before, Position
  <2> QED
    BY <2>2, <2>3, <2>4, <2>5
<1>4. ASSUME NEW limit \in Limits, list_page(limit) PROVE ListInv'
  BY <1>4, PageStep
<1>5. CASE next_day
  BY <1>5 DEF next_day, ListType, CursorInv, ListedOnce, Newer, AheadInv, Matching, Before, Position
<1>6. CASE UNCHANGED list_vars
  BY <1>6 DEF list_vars, ListType, CursorInv, ListedOnce, Newer, AheadInv, Matching, Before,
              Position
<1> QED
  BY <1>1, <1>2, <1>3, <1>4, <1>5, <1>6 DEF ListNext

\* No page has been asked for.
LEMMA ListInitInv == ListInit => ListInv
BY DEF ListInit, ListStart, ListInv, ListType, CursorInv, ListedOnce, AheadInv, Top

\* ListInv is an invariant of the walk.
LEMMA ListInvHolds == ListSpec => []ListInv
BY ListInitInv, ListStep, PTL DEF ListSpec

\* "The page boundary is stable under concurrent inserts", for any number of runs, page
\* sizes and writers: the pages of a walk list no run twice, newest first.
THEOREM PagesNeverRepeat == ListSpec => []ListedOnce
<1>1. ListInv => ListedOnce
  BY DEF ListInv
<1> QED
  BY <1>1, ListInvHolds, PTL

\* And no run that was there all along is skipped, when many share one created_at too.
THEOREM PagesSkipNothing == ListSpec => []NoneMissed
<1>1. ListInv => NoneMissed
  BY DEF ListInv, ListType, AheadInv, NoneMissed, ToSet
<1> QED
  BY <1>1, ListInvHolds, PTL
=============================================================================
