----------------------------- MODULE Submission -----------------------------
(***************************************************************************)
(* The two POST handlers of conductor/api/routes: publishing a version of  *)
(* a workflow (WorkflowRepository.create) and starting a run of it, with   *)
(* an optional Idempotency-Key. Each request is one transaction in a       *)
(* thread of its own, under READ COMMITTED. An INSERT into a unique index  *)
(* waits while another open transaction has inserted the same value, and   *)
(* fails once that value is committed.                                     *)
(*                                                                         *)
(* There is one workflow name: nothing is shared between two of them.      *)
(* A run, and a version, is identified by the request that made it.        *)
(***************************************************************************)
EXTENDS Integers, FiniteSets, FiniteSetsExt

CONSTANTS
    Publishers,     \* requests POST /workflows
    Submitters,     \* requests POST /runs
    Keys, NoKey,    \* values of the Idempotency-Key header
    Bodies,         \* bodies of POST /runs
    wanted          \* Bodies -> the version asked for, 0 for the latest

ASSUME SubmissionAssumption ==
    /\ Publishers \cap Submitters = {}
    /\ NoKey \notin Keys
    /\ wanted \in [Bodies -> Nat]

Requests == Publishers \cup Submitters

VARIABLES
    key, body,      \* what each submitter sends
    workflows,      \* committed workflows: records [by, version]
    runs,           \* committed runs: records [by, version]
    keys,           \* committed idempotency_keys: records [key, request_hash, run_id]
    pc,             \* where each request's handler is
    version,        \* the version it is about to publish or to run
    answer          \* its response: [status, run], status 0 when there is none

sent == <<key, body>>
tables == <<workflows, runs, keys>>
vars == <<sent, tables, pc, version, answer>>

NoAnswer == [status |-> 0, run |-> 0]

\* Empty tables, whatever is about to be sent.
Start ==
    /\ workflows = {}
    /\ runs = {}
    /\ keys = {}
    /\ pc = [q \in Requests |-> "start"]
    /\ version = [q \in Requests |-> 0]
    /\ answer = [q \in Requests |-> NoAnswer]

Init ==
    /\ key \in [Submitters -> Keys \cup {NoKey}]
    /\ body \in [Submitters -> Bodies]
    /\ Start

\* The handler of q ends with this status; its transaction is over.
Finish(q, status) ==
    /\ answer' = [answer EXCEPT ![q].status = status]
    /\ pc' = [pc EXCEPT ![q] = "done"]

\* The handler of q returns; db_session has yet to commit.
Return(q, status) ==
    /\ answer' = [answer EXCEPT ![q].status = status]
    /\ pc' = [pc EXCEPT ![q] = "committing"]

Versions == {w.version : w \in workflows}

Latest == IF Versions = {} THEN 0 ELSE Max(Versions)

-----------------------------------------------------------------------------
(* POST /workflows.                                                        *)

next_version(q) == Latest + 1

\* create refuses an empty workflow, duplicate or unknown keys, a bad retry
\* policy or a cycle before it touches the database.
create_refused(q) ==
    /\ pc[q] = "start"
    /\ Finish(q, 422)
    /\ UNCHANGED <<sent, tables, version>>

\* _next_version, after validation.
choose_version(q) ==
    /\ pc[q] = "start"
    /\ version' = [version EXCEPT ![q] = next_version(q)]
    /\ pc' = [pc EXCEPT ![q] = "inserting"]
    /\ UNCHANGED <<sent, tables, answer>>

\* Another open transaction has inserted this version: the INSERT waits.
VersionInFlight(q) ==
    \E p \in Publishers \ {q} : pc[p] = "committing" /\ version[p] = version[q]

\* A mistake: no UNIQUE (name, version).
VersionTakenNever(q) == FALSE

VersionTaken(q) == version[q] \in Versions

\* The first flush, of the workflow row; tasks and dependencies cannot conflict.
create(q) ==
    /\ pc[q] = "inserting"
    /\ ~VersionInFlight(q)
    /\ ~VersionTaken(q)
    /\ Return(q, 201)
    /\ UNCHANGED <<sent, tables, version>>

\* The IntegrityError of that flush is outside create's try: no handler knows it.
create_conflict(q) ==
    /\ pc[q] = "inserting"
    /\ ~VersionInFlight(q)
    /\ VersionTaken(q)
    /\ Finish(q, 500)
    /\ UNCHANGED <<sent, tables, version>>

publish_commit(q) ==
    /\ pc[q] = "committing"
    /\ workflows' = workflows \cup {[by |-> q, version |-> version[q]]}
    /\ pc' = [pc EXCEPT ![q] = "done"]
    /\ UNCHANGED <<sent, runs, keys, version, answer>>

-----------------------------------------------------------------------------
(* POST /runs.                                                             *)

KeyRows(q) == {r \in keys : r.key = key[q]}

\* A mistake: the stored request hash is not compared.
SameRequestAlways(q, row) == TRUE

SameRequest(q, row) == row.request_hash = body[q]

\* The key is known: the original run, or 409 when the body differs.
replay(q) ==
    /\ pc[q] = "start"
    /\ \E row \in KeyRows(q) :
        IF SameRequest(q, row)
          THEN /\ answer' = [answer EXCEPT ![q] = [status |-> 200, run |-> row.run_id]]
               /\ pc' = [pc EXCEPT ![q] = "done"]
          ELSE Finish(q, 409)
    /\ UNCHANGED <<sent, tables, version>>

\* No key, or a new one.
key_is_new(q) ==
    /\ pc[q] = "start"
    /\ KeyRows(q) = {}
    /\ pc' = [pc EXCEPT ![q] = "resolving"]
    /\ UNCHANGED <<sent, tables, version, answer>>

\* get_version or get_latest.
resolve(q) ==
    LET v == IF wanted[body[q]] = 0 THEN Latest ELSE wanted[body[q]]
    IN  /\ pc[q] = "resolving"
        /\ IF v \in Versions
             THEN /\ version' = [version EXCEPT ![q] = v]
                  /\ pc' = [pc EXCEPT ![q] = "inserting"]
                  /\ UNCHANGED answer
             ELSE /\ Finish(q, 404)
                  /\ UNCHANGED version
        /\ UNCHANGED <<sent, tables>>

KeyInFlight(q) ==
    /\ key[q] # NoKey
    /\ \E p \in Submitters \ {q} : pc[p] = "committing" /\ key[p] = key[q]

\* A mistake: the key is no primary key.
KeyTakenNever(q) == FALSE

\* The primary key of idempotency_keys, when the row is inserted.
KeyTaken(q) == KeyRows(q) # {}

\* The run, its task rows and the key are flushed.
create_run(q) ==
    /\ pc[q] = "inserting"
    /\ ~KeyInFlight(q)
    /\ ~KeyTaken(q)
    /\ answer' = [answer EXCEPT ![q] = [status |-> 201, run |-> q]]
    /\ pc' = [pc EXCEPT ![q] = "committing"]
    /\ UNCHANGED <<sent, tables, version>>

\* The key was committed after the look-up: an IntegrityError nobody handles.
create_run_conflict(q) ==
    /\ pc[q] = "inserting"
    /\ ~KeyInFlight(q)
    /\ KeyTaken(q)
    /\ Finish(q, 500)
    /\ UNCHANGED <<sent, tables, version>>

run_commit(q) ==
    /\ pc[q] = "committing"
    /\ runs' = runs \cup {[by |-> q, version |-> version[q]]}
    /\ keys' = IF key[q] = NoKey THEN keys
               ELSE keys \cup {[key |-> key[q], request_hash |-> body[q], run_id |-> q]}
    /\ pc' = [pc EXCEPT ![q] = "done"]
    /\ UNCHANGED <<sent, workflows, version, answer>>

-----------------------------------------------------------------------------
\* The connection to the database or the process is lost: rollback. An answer
\* that has been sent stays sent.
lost(q) ==
    /\ pc[q] # "done"
    /\ pc' = [pc EXCEPT ![q] = "done"]
    /\ UNCHANGED <<sent, tables, version, answer>>

PublishStep(q) ==
    \/ create_refused(q) \/ choose_version(q) \/ create(q) \/ create_conflict(q)
    \/ publish_commit(q)

SubmitStep(q) ==
    \/ replay(q) \/ key_is_new(q) \/ resolve(q)
    \/ create_run(q) \/ create_run_conflict(q) \/ run_commit(q)

Next ==
    \/ \E q \in Publishers : PublishStep(q)
    \/ \E q \in Submitters : SubmitStep(q)
    \/ \E q \in Requests : lost(q)

Spec == Init /\ [][Next]_vars

-----------------------------------------------------------------------------
(* Properties.                                                             *)

\* A client that repeats a POST with its Idempotency-Key, before, during or after
\* the first attempt, never starts a second run, and the key leads to the run.
OneRunPerKey ==
    /\ \A r, s \in runs : key[r.by] = key[s.by] /\ key[r.by] # NoKey => r = s
    /\ \A r \in runs : key[r.by] # NoKey =>
         [key |-> key[r.by], request_hash |-> body[r.by], run_id |-> r.by] \in keys

\* A replayed answer names a committed run that the same request started: never
\* the run of a different body, and never one that was rolled back.
ReplayIsFaithful ==
    \A q \in Submitters : answer[q].status = 200 =>
        /\ \E r \in runs : r.by = answer[q].run
        /\ key[answer[q].run] = key[q]
        /\ body[answer[q].run] = body[q]

\* Versions are never shared and never skipped, whatever publications race or
\* roll back: those committed are 1 to the number of workflows.
VersionsContiguous == Versions = 1..Cardinality(workflows)

-----------------------------------------------------------------------------
(* What the comments say of races, and the code does not do.               *)

\* IdempotencyKey: "the unique PK makes the second insert fail, and the API
\* returns the original run instead of starting a second one". It answers 500.
RetryIsServed == \A q \in Submitters : answer[q].status # 500
=============================================================================
