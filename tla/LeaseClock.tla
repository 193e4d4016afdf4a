----------------------------- MODULE LeaseClock -----------------------------
(***************************************************************************)
(* One task row, its lease, and the clocks around it: the workers that     *)
(* claim it, the heartbeat threads that renew its lease (worker.py) and    *)
(* the reaper that sweeps several times per lease (reaper.py). TaskQueue   *)
(* lets a lease expire at any moment; here time is counted in ticks, to    *)
(* say when one expires, who may lose it, and how soon it is taken back.   *)
(*                                                                         *)
(* All clocks run at one rate. Timers count up from 0 and the lease counts *)
(* down, so no absolute time is kept. A call to the database takes up to   *)
(* Slow ticks, a sweep of the reaper up to SlowSweep, and both may fail; a *)
(* stamp is computed when the call begins, and the row is read and written *)
(* when it ends.                                                           *)
(***************************************************************************)
EXTENDS Integers

CONSTANTS
    Workers,
    None,       \* no worker
    Lease,      \* lease_seconds
    Beat,       \* heartbeat_seconds
    Latency,    \* how long a call to a database in good health takes
    Slow,       \* when a call is given up: statement_timeout and pool timeout
    SlowSweep,  \* when a sweep is given up: a statement, and one per row it requeues
    Second,     \* ticks in a second
    Skew,       \* by how much the reaper's clock may differ from a worker's
    MaxFailedSweeps

ASSUME NoneAssumption == None \notin Workers

\* The validator of Settings.heartbeat_seconds.
heartbeat_must_beat_the_lease == 3 * Beat <= Lease

\* Valid settings, and a latency with which they "tolerate a missed beat"; a call to a
\* database in good health returns before the join of a heartbeat gives up on it.
ASSUME LeaseAssumption ==
    /\ {Lease, Beat, Latency, Slow, SlowSweep, Second, Skew, MaxFailedSweeps} \subseteq Nat
    /\ Beat > 0
    /\ heartbeat_must_beat_the_lease
    /\ 2 * Beat + 3 * Latency + Skew <= Lease
    /\ Latency < 2 * Beat

\* A heartbeat that outlived its join is gone before the next one can.
ASSUME SlowAssumption == Latency <= Slow /\ Slow < 5 * Beat

VARIABLES
    state,      \* the row: READY, RUNNING, or DONE for all terminal states
    owner,      \* worker_id
    left,       \* ticks until lease_expires_at, by the clock of the worker
    pc,         \* where each worker is in run_once and _execute
    timer,      \* ticks since its present call, wait or join began
    beat,       \* the heartbeat thread of its current task
    lost,       \* the lost event of that heartbeat
    straggler,  \* ticks since the call began of a heartbeat that outlived its join
    sweep,      \* ticks until the reaper's next sweep
    sweeping,   \* ticks since its present sweep began
    skew,       \* the reaper's clock minus the workers'
    misses,     \* history: renewals of this heartbeat that failed in a row
    sick,       \* history: this claim met a slow call, two misses or a wait
    dead_for,   \* history: ticks the row has been held by a dead worker
    failed      \* history: sweeps that failed meanwhile

row == <<state, owner, left>>
worker == <<pc, timer, beat, lost, straggler>>
reaper == <<sweep, sweeping, skew, failed>>
vars == <<row, worker, reaper, misses, sick, dead_for>>

Off == [phase |-> "off", t |-> 0]
Waiting == [phase |-> "waiting", t |-> 0]
Renewing == [phase |-> "renewing", t |-> 0]

NoStraggler == -1
NoSweep == -1

\* run_forever's interval max(1.0, lease / 3), rounded up to whole ticks.
Interval == IF Lease <= 3 * Second THEN Second ELSE (Lease + 2) \div 3

\* The lowest value of left that is told apart.
Floor == -Skew - SlowSweep - 1

Init ==
    /\ state = "READY"
    /\ owner = None
    /\ left = 0
    /\ pc = [w \in Workers |-> "idle"]
    /\ timer = [w \in Workers |-> 0]
    /\ beat = [w \in Workers |-> Off]
    /\ lost = [w \in Workers |-> FALSE]
    /\ straggler = [w \in Workers |-> NoStraggler]
    /\ sweep = Interval
    /\ sweeping = NoSweep
    /\ skew \in -Skew..Skew
    /\ misses = [w \in Workers |-> 0]
    /\ sick = [w \in Workers |-> FALSE]
    /\ dead_for = 0
    /\ failed = 0

Owns(w) == state = "RUNNING" /\ owner = w

DeadOwner == state = "RUNNING" /\ pc[owner] = "dead"

Goto(w, place) == pc' = [pc EXCEPT ![w] = place] /\ timer' = [timer EXCEPT ![w] = 0]

\* What is known of a claim ends with it.
Forget(w) ==
    /\ lost' = [lost EXCEPT ![w] = FALSE]
    /\ misses' = [misses EXCEPT ![w] = 0]
    /\ sick' = [sick EXCEPT ![w] = FALSE]

-----------------------------------------------------------------------------
(* The worker.                                                             *)

\* claim_batch computes lease_until and sends its statement.
claim_batch(w) ==
    /\ pc[w] = "idle"
    /\ Goto(w, "claiming")
    /\ UNCHANGED <<row, beat, lost, straggler, reaper, misses, sick, dead_for>>

\* The claim commits. The task may have to wait for others of its batch.
claim_commit(w) ==
    /\ pc[w] = "claiming"
    /\ state = "READY"
    /\ state' = "RUNNING"
    /\ owner' = w
    /\ left' = Lease - timer[w]
    /\ Goto(w, "waiting")
    /\ sick' = [sick EXCEPT ![w] = straggler[w] # NoStraggler \/ timer[w] > Latency]
    /\ UNCHANGED <<beat, lost, straggler, reaper, misses, dead_for>>

\* The queue was empty, or the worker stopped.
claim_nothing(w) ==
    /\ pc[w] = "claiming"
    /\ Goto(w, "idle")
    /\ UNCHANGED <<row, beat, lost, straggler, reaper, misses, sick, dead_for>>

\* _execute builds and starts a Heartbeat and calls the executor.
start_task(w) ==
    /\ pc[w] = "waiting"
    /\ Goto(w, "executing")
    /\ beat' = [beat EXCEPT ![w] = Waiting]
    /\ lost' = [lost EXCEPT ![w] = FALSE]
    /\ UNCHANGED <<row, straggler, reaper, misses, sick, dead_for>>

\* The executor returns or raises; __exit__ sets _stop, which wakes a heartbeat
\* that waits and lets one that renews finish, and joins the thread.
execute(w) ==
    /\ pc[w] = "executing"
    /\ Goto(w, "joining")
    /\ beat' = [beat EXCEPT ![w] = IF @.phase = "waiting" THEN Off ELSE @]
    /\ UNCHANGED <<row, lost, straggler, reaper, misses, sick, dead_for>>

\* The join is over. A result whose lease was lost is discarded.
AfterJoin(w) ==
    \/ lost[w] /\ Goto(w, "idle") /\ Forget(w)
    \/ ~lost[w] /\ Goto(w, "reporting") /\ UNCHANGED <<lost, misses, sick>>

join(w) ==
    /\ pc[w] = "joining"
    /\ beat[w].phase = "off"
    /\ AfterJoin(w)
    /\ UNCHANGED <<row, beat, straggler, reaper, dead_for>>

\* join(timeout=2 * interval) gives up on a thread that still renews.
join_timeout(w) ==
    /\ pc[w] = "joining"
    /\ beat[w].phase = "renewing"
    /\ timer[w] = 2 * Beat
    /\ straggler' = [straggler EXCEPT ![w] = beat[w].t]
    /\ beat' = [beat EXCEPT ![w] = Off]
    /\ AfterJoin(w)
    /\ UNCHANGED <<row, reaper, dead_for>>

\* record_success, or a record_failure without another attempt, if the row is
\* still w's; record_failure with one. A report that does not own changes nothing.
report(w, outcome) ==
    /\ pc[w] = "reporting"
    /\ Owns(w)
    /\ state' = outcome
    /\ owner' = None
    /\ left' = 0
    /\ Goto(w, "idle")
    /\ Forget(w)
    /\ UNCHANGED <<beat, straggler, reaper, dead_for>>

report_rejected(w) ==
    /\ pc[w] = "reporting"
    /\ ~Owns(w)
    /\ Goto(w, "idle")
    /\ Forget(w)
    /\ UNCHANGED <<row, beat, straggler, reaper, dead_for>>

\* The process dies, with all its threads: killed, or by an exception of a call
\* outside the heartbeat, which nothing catches.
crash(w) ==
    /\ pc[w] # "dead"
    /\ Goto(w, "dead")
    /\ beat' = [beat EXCEPT ![w] = Off]
    /\ Forget(w)
    /\ straggler' = [straggler EXCEPT ![w] = NoStraggler]
    /\ dead_for' = IF Owns(w) THEN 0 ELSE dead_for
    /\ failed' = IF Owns(w) THEN 0 ELSE failed
    /\ UNCHANGED <<row, sweep, sweeping, skew>>

-----------------------------------------------------------------------------
(* The heartbeat thread.                                                   *)

\* _stop.wait(interval) runs out, and renew_lease computes its stamp.
renew_begin(w) ==
    /\ beat[w].phase = "waiting"
    /\ beat[w].t = Beat
    /\ beat' = [beat EXCEPT ![w] = Renewing]
    /\ UNCHANGED <<row, pc, timer, lost, straggler, reaper, misses, sick, dead_for>>

\* Once the call is over the loop looks at _stop.
BeatAgain(w) ==
    beat' = [beat EXCEPT ![w] = IF pc[w] = "executing" THEN Waiting ELSE Off]

\* The lease a renewal writes is as old as the call.
Renewed(age) == left' = Lease - age /\ UNCHANGED <<state, owner>>

renew_lease(w) ==
    /\ beat[w].phase = "renewing"
    /\ Owns(w)
    /\ Renewed(beat[w].t)
    /\ BeatAgain(w)
    /\ misses' = [misses EXCEPT ![w] = 0]
    /\ UNCHANGED <<pc, timer, lost, straggler, reaper, sick, dead_for>>

\* No row was updated: lost is set, and the thread returns.
renew_lost(w) ==
    /\ beat[w].phase = "renewing"
    /\ ~Owns(w)
    /\ lost' = [lost EXCEPT ![w] = TRUE]
    /\ beat' = [beat EXCEPT ![w] = Off]
    /\ UNCHANGED <<row, pc, timer, straggler, reaper, misses, sick, dead_for>>

\* A mistake: one failed renewal ends the heartbeat.
GiveUp(w) == beat' = [beat EXCEPT ![w] = Off] /\ UNCHANGED lost

\* A mistake: a renewal in doubt counts as a lost lease.
GiveUpLost(w) == beat' = [beat EXCEPT ![w] = Off] /\ lost' = [lost EXCEPT ![w] = TRUE]

\* "Do not give up on one failed renewal."
KeepBeating(w) == BeatAgain(w) /\ UNCHANGED lost

\* The call raises; its update may have been committed all the same.
renew_failed(w) ==
    /\ beat[w].phase = "renewing"
    /\ \/ Owns(w) /\ Renewed(beat[w].t)
       \/ UNCHANGED row
    /\ KeepBeating(w)
    /\ misses' = [misses EXCEPT ![w] = 1]
    /\ sick' = [sick EXCEPT ![w] = @ \/ misses[w] = 1]
    /\ UNCHANGED <<pc, timer, straggler, reaper, dead_for>>

\* The call of a straggler returns, and the thread ends. Its own lost event is read
\* by nobody.
straggler_renews(w) ==
    /\ straggler[w] # NoStraggler
    /\ Owns(w)
    /\ Renewed(straggler[w])
    /\ straggler' = [straggler EXCEPT ![w] = NoStraggler]
    /\ UNCHANGED <<pc, timer, beat, lost, reaper, misses, sick, dead_for>>

straggler_lost(w) ==
    /\ straggler[w] # NoStraggler
    /\ ~Owns(w)
    /\ straggler' = [straggler EXCEPT ![w] = NoStraggler]
    /\ UNCHANGED <<row, pc, timer, beat, lost, reaper, misses, sick, dead_for>>

-----------------------------------------------------------------------------
(* The reaper and time.                                                    *)

\* A mistake: one sweep per lease.
NextSweepLate == Lease

NextSweep == Interval

\* lease_expires_at < utcnow() by the reaper's clock, now and at the time of a stamp
\* of that age.
Expired == left < skew
ExpiredAt(age) == left + age < skew

\* _stop.wait(interval) runs out, and reap_once computes its stamp.
sweep_begin ==
    /\ sweep = 0
    /\ sweeping = NoSweep
    /\ sweeping' = 0
    /\ UNCHANGED <<row, worker, sweep, skew, failed, misses, sick, dead_for>>

\* The row back in the queue, if the update matches it.
Requeued ==
    /\ state' = "READY" /\ owner' = None /\ left' = 0
    /\ dead_for' = 0 /\ failed' = 0

Matched == state = "RUNNING" /\ ExpiredAt(sweeping)

\* The sweep commits and returns.
reap_expired_leases ==
    /\ sweeping # NoSweep
    /\ IF Matched THEN Requeued ELSE UNCHANGED <<row, dead_for, failed>>
    /\ sweeping' = NoSweep
    /\ sweep' = NextSweep
    /\ UNCHANGED <<worker, skew, misses, sick>>

\* The sweep raises, though its update may have been committed: sleep, then wait again.
sweep_failed ==
    /\ sweeping # NoSweep
    /\ failed < MaxFailedSweeps
    /\ \/ Matched /\ Requeued
       \/ /\ failed' = IF DeadOwner THEN failed + 1 ELSE 0
          /\ UNCHANGED <<row, dead_for>>
    /\ sweeping' = NoSweep
    /\ sweep' = 2 * NextSweep
    /\ UNCHANGED <<worker, skew, misses, sick>>

Calling(w) == pc[w] \in {"claiming", "reporting"}

\* Something has to happen before time goes on.
Urgent ==
    \/ sweep = 0 /\ sweeping = NoSweep
    \/ sweeping = SlowSweep
    \/ \E w \in Workers :
         \/ beat[w].phase = "waiting" /\ beat[w].t = Beat
         \/ beat[w].phase = "renewing" /\ beat[w].t = Slow
         \/ Calling(w) /\ timer[w] = Slow
         \/ pc[w] = "joining" /\ (beat[w].phase = "off" \/ timer[w] = 2 * Beat)
         \/ straggler[w] = Slow

tick ==
    /\ ~Urgent
    /\ left' = IF state = "RUNNING" /\ left > Floor THEN left - 1 ELSE left
    /\ timer' = [w \in Workers |-> IF Calling(w) \/ pc[w] = "joining"
                                     THEN timer[w] + 1 ELSE 0]
    /\ beat' = [w \in Workers |-> IF beat[w].phase = "off" THEN beat[w]
                                  ELSE [beat[w] EXCEPT !.t = @ + 1]]
    /\ straggler' = [w \in Workers |-> IF straggler[w] = NoStraggler THEN NoStraggler
                                       ELSE straggler[w] + 1]
    /\ IF sweeping = NoSweep
         THEN sweep' = sweep - 1 /\ UNCHANGED sweeping
         ELSE sweeping' = sweeping + 1 /\ UNCHANGED sweep
    /\ sick' = [w \in Workers |->
                  \/ sick[w]
                  \/ pc[w] = "reporting" /\ timer[w] = Latency
                  \/ beat[w].phase = "renewing" /\ beat[w].t = Latency
                  \/ pc[w] = "waiting"]
    /\ dead_for' = IF DeadOwner THEN dead_for + 1 ELSE 0
    /\ UNCHANGED <<state, owner, pc, lost, skew, misses, failed>>

Next ==
    \/ \E w \in Workers :
         \/ claim_batch(w) \/ claim_commit(w) \/ claim_nothing(w) \/ start_task(w)
         \/ execute(w) \/ join(w) \/ join_timeout(w)
         \/ report(w, "DONE") \/ report(w, "READY") \/ report_rejected(w) \/ crash(w)
         \/ renew_begin(w) \/ renew_lease(w) \/ renew_lost(w) \/ renew_failed(w)
         \/ straggler_renews(w) \/ straggler_lost(w)
    \/ sweep_begin \/ reap_expired_leases \/ sweep_failed
    \/ tick

Spec == Init /\ [][Next]_vars

-----------------------------------------------------------------------------
(* Properties.                                                             *)

\* "Tolerate a missed beat": while a worker executes, joins and reports, its lease
\* does not expire by the reaper's clock, unless a call was slow, two renewals
\* failed in a row, the task waited in its batch, or a straggler renewed it.
HealthyKeepsLease ==
    \A w \in Workers :
        Owns(w) /\ pc[w] \in {"executing", "joining", "reporting"} /\ ~sick[w]
            => ~Expired

\* The task of a dead worker is back in the queue within a lease, corrected by the
\* skew, a sweep whose stamp came too early, an interval and another sweep, plus a sweep
\* and two intervals for each sweep that failed. If the skew leaves little of the lease,
\* what counts is that the reaper may have failed just before, and sleep twice.
RecoveryBounded ==
    DeadOwner =>
        LET extra == (SlowSweep + 2 * Interval) * failed
        IN  \/ dead_for <= Lease - skew + 2 * SlowSweep + Interval + extra
            \/ dead_for <= 2 * Interval + SlowSweep + extra

\* A result is discarded only when the row is not the worker's any more: no news
\* of an earlier claim, nor of a renewal in doubt, makes it throw work away.
DiscardIsJustified ==
    \A w \in Workers : lost[w] /\ pc[w] \in {"executing", "joining"} => ~Owns(w)

-----------------------------------------------------------------------------
(* What a text says, and the code does not do.                             *)

\* "Requeued by the reaper within one lease period", "a delay bounded by the lease
\* duration": a lease may be all but whole when its owner dies, and once it has
\* expired the task waits for the next sweep.
RequeuedWithinLease == DeadOwner => dead_for <= Lease
=============================================================================
