---------------------------- MODULE LeaseProofs -----------------------------
(***************************************************************************)
(* Proofs about what TaskQueue abstracts from: how long leases, heartbeats *)
(* and sweeps take, for any number of workers and any settings that pass the*)
(* validator, and in which order sessions lock rows, for any graph.        *)
(***************************************************************************)
EXTENDS LeaseClock, RowLocks, SequenceTheorems, TLAPS

-----------------------------------------------------------------------------
(* LeaseClock.                                                             *)

Places == {"idle", "claiming", "waiting", "executing", "joining", "reporting", "dead"}

Phases == {"off", "waiting", "renewing"}

TypeInv ==
    /\ state \in {"READY", "RUNNING", "DONE"}
    /\ state = "RUNNING" => owner \in Workers
    /\ left \in Int /\ left <= Lease
    /\ pc \in [Workers -> Places]
    /\ timer \in [Workers -> Nat]
    /\ beat \in [Workers -> [phase : Phases, t : Nat]]
    /\ lost \in [Workers -> BOOLEAN]
    /\ straggler \in [Workers -> Nat \cup {NoStraggler}]
    /\ sweep \in Nat /\ sweep <= 2 * Interval
    /\ sweeping \in Int /\ -1 <= sweeping /\ sweeping <= SlowSweep
    /\ sweeping # NoSweep => sweep = 0
    /\ skew \in -Skew..Skew
    /\ misses \in [Workers -> {0, 1}]
    /\ sick \in [Workers -> BOOLEAN]
    /\ dead_for \in Nat
    /\ failed \in Nat

\* Where a heartbeat can be while its worker is somewhere. One that ended by itself
\* has lost the lease, and a lease that was lost is not w's.
BeatRuns(w) ==
    /\ beat[w].phase = "waiting" => pc[w] = "executing" /\ beat[w].t <= Beat
    /\ beat[w].phase = "renewing" => pc[w] \in {"executing", "joining"}
    /\ pc[w] = "executing" /\ beat[w].phase = "off" => lost[w]
    /\ lost[w] => pc[w] \in {"executing", "joining"} /\ ~Owns(w)
    /\ pc[w] = "dead" => straggler[w] = NoStraggler

\* What a claim that met nothing slow has not met.
SickIsKnown(w) ==
    /\ pc[w] \in {"idle", "claiming", "waiting"} => misses[w] = 0
    /\ pc[w] = "joining" /\ beat[w].phase = "renewing" => timer[w] <= beat[w].t
    /\ ~sick[w] =>
         /\ pc[w] \in {"waiting", "executing", "joining", "reporting"}
              => straggler[w] = NoStraggler
         /\ beat[w].phase = "renewing" => beat[w].t <= Latency
         /\ pc[w] = "reporting" => timer[w] <= Latency

\* The most that can be gone of the lease when the heartbeat of a healthy worker begins
\* to wait: the age of its last stamp, and a wait and a call if that call failed.
Behind(w) == Latency + IF misses[w] = 0 THEN 0 ELSE Beat + Latency

\* How much of the lease a healthy worker has left, at each place.
LeaseCovers(w) ==
    Owns(w) /\ ~sick[w] =>
        /\ pc[w] = "waiting" => left >= Lease - Latency
        /\ beat[w].phase = "waiting" => left >= Lease - Behind(w) - beat[w].t
        /\ beat[w].phase = "renewing" => left >= Lease - Behind(w) - Beat - beat[w].t
        /\ pc[w] = "joining" /\ beat[w].phase = "off"
             => left >= Lease - 2 * Latency - 2 * Beat
        /\ pc[w] = "reporting" => left >= Lease - 2 * Latency - 2 * Beat - timer[w]

WorkerInv(w) == BeatRuns(w) /\ SickIsKnown(w) /\ LeaseCovers(w)

\* What failed sweeps may add.
Extra == (SlowSweep + 2 * Interval) * failed

\* When the sweep that takes back an expired lease is over at the latest.
InTime(t) ==
    \/ t <= Lease - skew + 2 * SlowSweep + Interval + Extra
    \/ t <= 2 * Interval + SlowSweep + Extra

\* A dead worker's lease only runs down, and a sweep that will find it expired is on its
\* way, or one that did is at work.
Recovery ==
    DeadOwner =>
        /\ left > Floor => dead_for + left <= Lease
        /\ sweeping # NoSweep /\ ExpiredAt(sweeping) => InTime(dead_for + SlowSweep - sweeping)
        /\ sweeping = NoSweep /\ Expired => InTime(dead_for + sweep + SlowSweep)
        /\ sweeping = NoSweep /\ ~Expired
             => sweep <= Interval \/ failed >= 1 \/ dead_for + sweep <= 2 * Interval

\* The inductive invariant.
ClockInv == TypeInv /\ (\A w \in Workers : WorkerInv(w)) /\ Recovery

-----------------------------------------------------------------------------
(* Numbers.                                                                *)

\* What the proofs need of the settings.
LEMMA Settings ==
    /\ Lease \in Nat /\ Beat \in Nat /\ Latency \in Nat /\ Skew \in Nat /\ Slow \in Nat
    /\ SlowSweep \in Nat
    /\ Beat > 0
    /\ 2 * Beat + 3 * Latency + Skew <= Lease
    /\ Latency < 2 * Beat
    /\ Interval \in Nat
BY LeaseAssumption DEF Interval

\* What failed sweeps may add grows by a sweep and two intervals with each of them.
LEMMA ExtraGrows ==
    ASSUME NEW f \in Nat, NEW k \in Nat
    PROVE  /\ k * f \in Nat
           /\ k * (f + 1) = k * f + k
           /\ f >= 1 => k * f >= k
<1>1. k * f \in Nat /\ k * (f + 1) = k * f + k
  OBVIOUS
<1>2. ASSUME f >= 1 PROVE k * f >= k
  <2>1. f - 1 \in Nat /\ f = (f - 1) + 1
    BY <1>2
  <2>2. \A g \in Nat : k * g \in Nat
    OBVIOUS
  <2>3. k * ((f - 1) + 1) = k * (f - 1) + k
    BY <2>1
  <2>4. k * (f - 1) \in Nat
    BY <2>1, <2>2
  <2> QED
    BY <2>1, <2>3, <2>4
<1> QED
  BY <1>1, <1>2

\* The same, of Extra.
LEMMA ExtraOf ==
    ASSUME NEW f \in Nat
    PROVE  LET x(n) == (SlowSweep + 2 * Interval) * n
           IN  /\ x(f) \in Nat /\ x(f + 1) = x(f) + SlowSweep + 2 * Interval
               /\ f >= 1 => x(f) >= SlowSweep + 2 * Interval
<1>1. SlowSweep + 2 * Interval \in Nat /\ SlowSweep \in Nat /\ Interval \in Nat
  BY Settings
<1> HIDE DEF Interval
<1> DEFINE k == SlowSweep + 2 * Interval
<1>2. k * f \in Nat /\ k * (f + 1) = k * f + k /\ (f >= 1 => k * f >= k)
  <2> HIDE DEF k
  <2>1. k \in Nat
    BY <1>1 DEF k
  <2> QED
    BY <2>1, ExtraGrows
<1> QED
  BY <1>1, <1>2

-----------------------------------------------------------------------------
(* Steps that leave most alone.                                            *)

\* All that the invariant of worker v is about.
SameWorker(v) ==
    /\ pc'[v] = pc[v] /\ timer'[v] = timer[v] /\ beat'[v] = beat[v] /\ lost'[v] = lost[v]
    /\ straggler'[v] = straggler[v] /\ misses'[v] = misses[v] /\ sick'[v] = sick[v]

\* A worker that does nothing keeps its invariant, as long as its lease is left alone
\* or taken away.
LEMMA OthersKeep ==
    ASSUME NEW v \in Workers, WorkerInv(v), SameWorker(v),
           Owns(v)' => Owns(v) /\ left' = left
    PROVE  WorkerInv(v)'
<1>1. BeatRuns(v)'
  BY DEF WorkerInv, SameWorker, BeatRuns
<1>2. SickIsKnown(v)'
  BY DEF WorkerInv, SameWorker, SickIsKnown
<1>3. LeaseCovers(v)'
  <2> SUFFICES ASSUME Owns(v)', ~sick'[v] PROVE LeaseCovers(v)'
    BY DEF LeaseCovers
  <2>1. Owns(v) /\ ~sick[v] /\ left' = left /\ Behind(v)' = Behind(v)
    BY DEF SameWorker, Behind
  <2> QED
    BY <2>1 DEF WorkerInv, SameWorker, LeaseCovers
<1> QED
  BY <1>1, <1>2, <1>3 DEF WorkerInv

\* A step of one worker that touches neither the row nor the reaper.
LEMMA RecoveryQuiet ==
    ASSUME Recovery, UNCHANGED <<row, reaper, dead_for>>, DeadOwner' => DeadOwner
    PROVE  Recovery'
BY DEF Recovery, row, reaper, Expired, ExpiredAt, InTime, Extra, Floor, DeadOwner

\* Only w acts.
OnlyWorker(w) == \A v \in Workers \ {w} : SameWorker(v)

\* A step of a worker that leaves the row alone.
LEMMA QuietStep ==
    ASSUME ClockInv, NEW w \in Workers, TypeInv', OnlyWorker(w), WorkerInv(w)',
           UNCHANGED <<row, reaper, dead_for>>, pc'[w] = "dead" => pc[w] = "dead"
    PROVE  ClockInv'
<1>1. ASSUME NEW v \in Workers, v # w PROVE WorkerInv(v)'
  <2>1. WorkerInv(v) /\ SameWorker(v)
    BY <1>1 DEF ClockInv, OnlyWorker
  <2>2. Owns(v)' => Owns(v) /\ left' = left
    BY DEF Owns, row
  <2> QED
    BY <2>1, <2>2, OthersKeep
<1>2. DeadOwner' => DeadOwner
  BY DEF DeadOwner, row, ClockInv, TypeInv, OnlyWorker, SameWorker
<1>3. Recovery'
  BY <1>2, RecoveryQuiet DEF ClockInv
<1> QED
  BY <1>1, <1>3 DEF ClockInv

\* A step of a worker that is alive and has the row, before or after it.
LEMMA OwnerStep ==
    ASSUME ClockInv, NEW w \in Workers, TypeInv', OnlyWorker(w), WorkerInv(w)',
           state' = "RUNNING" => owner' = w /\ pc'[w] # "dead"
    PROVE  ClockInv'
<1>1. ASSUME NEW v \in Workers, v # w PROVE WorkerInv(v)'
  <2>1. WorkerInv(v) /\ SameWorker(v)
    BY <1>1 DEF ClockInv, OnlyWorker
  <2>2. ~Owns(v)'
    BY <1>1 DEF Owns
  <2> QED
    BY <2>1, <2>2, OthersKeep
<1>2. Recovery'
  BY DEF Recovery, DeadOwner
<1> QED
  BY <1>1, <1>2 DEF ClockInv

-----------------------------------------------------------------------------
(* The worker.                                                             *)

\* The statement of a claim is sent, or finds nothing.
LEMMA ClaimingKeeps ==
    ASSUME ClockInv, NEW w \in Workers, claim_batch(w) \/ claim_nothing(w)
    PROVE  ClockInv'
<1>1. /\ UNCHANGED <<row, beat, lost, straggler, reaper, misses, sick, dead_for>>
      /\ pc[w] \in {"idle", "claiming"}
      /\ \E place \in {"idle", "claiming"} : pc' = [pc EXCEPT ![w] = place]
      /\ timer' = [timer EXCEPT ![w] = 0]
  BY DEF claim_batch, claim_nothing, Goto
<1>2. TypeInv /\ WorkerInv(w)
  BY DEF ClockInv
<1>3. TypeInv'
  BY <1>1, <1>2 DEF TypeInv, Places, row, reaper
<1>4. OnlyWorker(w) /\ pc'[w] \in {"idle", "claiming"} /\ timer'[w] = 0
  BY <1>1, <1>2 DEF TypeInv, OnlyWorker, SameWorker
<1>5. BeatRuns(w)'
  BY <1>1, <1>2, <1>4 DEF WorkerInv, BeatRuns, Owns, row
<1>6. SickIsKnown(w)'
  BY <1>1, <1>2, <1>4 DEF WorkerInv, SickIsKnown
<1>7. LeaseCovers(w)'
  BY <1>1, <1>2, <1>4 DEF TypeInv, WorkerInv, BeatRuns, LeaseCovers, Phases
<1> QED
  BY <1>1, <1>3, <1>4, <1>5, <1>6, <1>7, QuietStep DEF WorkerInv

\* A claim: the lease is as long as its stamp is old, and healthy if that is not long.
LEMMA ClaimKeeps ==
    ASSUME ClockInv, NEW w \in Workers, claim_commit(w)
    PROVE  ClockInv'
<1>1. /\ UNCHANGED <<beat, lost, straggler, reaper, misses, dead_for>>
      /\ pc[w] = "claiming" /\ state = "READY"
      /\ state' = "RUNNING" /\ owner' = w /\ left' = Lease - timer[w]
      /\ pc' = [pc EXCEPT ![w] = "waiting"] /\ timer' = [timer EXCEPT ![w] = 0]
      /\ sick' = [sick EXCEPT ![w] = straggler[w] # NoStraggler \/ timer[w] > Latency]
  BY DEF claim_commit, Goto
<1>2. TypeInv /\ WorkerInv(w)
  BY DEF ClockInv
<1>3. /\ sick' \in [Workers -> BOOLEAN]
      /\ sick'[w] <=> straggler[w] # NoStraggler \/ timer[w] > Latency
      /\ \A v \in Workers \ {w} : sick'[v] = sick[v]
  BY <1>1, <1>2 DEF TypeInv
<1>4. TypeInv'
  BY <1>1, <1>2, <1>3, Settings DEF TypeInv, Places, reaper
<1>5. OnlyWorker(w) /\ pc'[w] = "waiting" /\ timer'[w] = 0
  BY <1>1, <1>2, <1>3 DEF TypeInv, OnlyWorker, SameWorker
<1>6. beat'[w] = beat[w] /\ beat[w].phase = "off" /\ ~lost[w] /\ misses'[w] = 0
  BY <1>1, <1>2 DEF TypeInv, WorkerInv, BeatRuns, SickIsKnown, Phases
<1>7. BeatRuns(w)'
  BY <1>1, <1>5, <1>6 DEF BeatRuns
<1>8. SickIsKnown(w)'
  BY <1>1, <1>3, <1>5, <1>6 DEF SickIsKnown
<1>9. LeaseCovers(w)'
  <2>1. ~sick'[w] => left' >= Lease - Latency
    BY <1>1, <1>2, <1>3, Settings DEF TypeInv
  <2> QED
    BY <1>5, <1>6, <2>1 DEF LeaseCovers
<1> QED
  BY <1>1, <1>4, <1>5, <1>7, <1>8, <1>9, OwnerStep DEF WorkerInv

\* The heartbeat starts with the task.
LEMMA StartKeeps ==
    ASSUME ClockInv, NEW w \in Workers, start_task(w)
    PROVE  ClockInv'
<1>1. /\ UNCHANGED <<row, straggler, reaper, misses, sick, dead_for>>
      /\ pc[w] = "waiting"
      /\ pc' = [pc EXCEPT ![w] = "executing"] /\ timer' = [timer EXCEPT ![w] = 0]
      /\ beat' = [beat EXCEPT ![w] = Waiting]
      /\ lost' = [lost EXCEPT ![w] = FALSE]
  BY DEF start_task, Goto
<1>2. TypeInv /\ WorkerInv(w)
  BY DEF ClockInv
<1>3. TypeInv'
  BY <1>1, <1>2 DEF TypeInv, Places, Phases, Waiting, row, reaper
<1>4. /\ OnlyWorker(w) /\ pc'[w] = "executing" /\ ~lost'[w]
      /\ beat'[w].phase = "waiting" /\ beat'[w].t = 0
  BY <1>1, <1>2 DEF TypeInv, OnlyWorker, SameWorker, Waiting
<1>5. BeatRuns(w)'
  BY <1>4, Settings DEF BeatRuns
<1>6. SickIsKnown(w)'
  BY <1>1, <1>2, <1>4 DEF WorkerInv, SickIsKnown
<1>7. LeaseCovers(w)'
  <2>1. misses'[w] = 0 /\ Behind(w)' = Latency
    BY <1>1, <1>2, Settings DEF WorkerInv, SickIsKnown, Behind
  <2>2. Owns(w)' /\ ~sick'[w] => left' >= Lease - Latency
    BY <1>1, <1>2 DEF WorkerInv, LeaseCovers, Owns, row
  <2> QED
    BY <1>4, <2>1, <2>2, Settings DEF LeaseCovers
<1> QED
  BY <1>1, <1>3, <1>4, <1>5, <1>6, <1>7, QuietStep DEF WorkerInv

\* The executor is done: a heartbeat that waits is stopped with at most two waits and
\* two calls of the lease gone.
LEMMA ExecuteKeeps ==
    ASSUME ClockInv, NEW w \in Workers, execute(w)
    PROVE  ClockInv'
<1>1. /\ UNCHANGED <<row, lost, straggler, reaper, misses, sick, dead_for>>
      /\ pc[w] = "executing"
      /\ pc' = [pc EXCEPT ![w] = "joining"] /\ timer' = [timer EXCEPT ![w] = 0]
      /\ beat' = [beat EXCEPT ![w] = IF beat[w].phase = "waiting" THEN Off ELSE beat[w]]
  BY DEF execute, Goto
<1>2. TypeInv /\ WorkerInv(w)
  BY DEF ClockInv
<1>3. TypeInv'
  BY <1>1, <1>2 DEF TypeInv, Places, Phases, Off, row, reaper
<1>4. /\ OnlyWorker(w) /\ pc'[w] = "joining" /\ timer'[w] = 0
      /\ beat'[w] = IF beat[w].phase = "waiting" THEN Off ELSE beat[w]
  BY <1>1, <1>2 DEF TypeInv, OnlyWorker, SameWorker
<1>5. beat[w].phase \in Phases /\ beat[w].t \in Nat /\ Off.phase = "off"
  BY <1>2 DEF TypeInv, Off
<1>6. BeatRuns(w)'
  BY <1>1, <1>2, <1>4, <1>5 DEF WorkerInv, BeatRuns, Owns, row
<1>7. SickIsKnown(w)'
  BY <1>1, <1>2, <1>4, <1>5 DEF WorkerInv, SickIsKnown
<1>8. LeaseCovers(w)'
  <2> SUFFICES ASSUME Owns(w)', ~sick'[w] PROVE LeaseCovers(w)'
    BY DEF LeaseCovers
  <2>1. /\ Owns(w) /\ ~sick[w] /\ ~lost[w] /\ left' = left /\ left \in Int
        /\ misses[w] \in {0, 1}
    BY <1>1, <1>2 DEF Owns, row, WorkerInv, BeatRuns, TypeInv
  <2>2. Behind(w)' = Behind(w) /\ Behind(w) \in Nat /\ Behind(w) <= 2 * Latency + Beat
    BY <1>1, <2>1, Settings DEF Behind
  <2>3. CASE beat[w].phase = "waiting"
    <3>1. left >= Lease - Behind(w) - beat[w].t /\ beat[w].t <= Beat
      BY <1>2, <2>1, <2>3 DEF WorkerInv, BeatRuns, LeaseCovers
    <3>2. left' >= Lease - 2 * Latency - 2 * Beat
      BY <1>5, <2>1, <2>2, <3>1, Settings
    <3> QED
      BY <1>4, <1>5, <2>3, <3>2 DEF LeaseCovers
  <2>4. CASE beat[w].phase = "renewing"
    <3>1. left' >= Lease - Behind(w)' - Beat - beat'[w].t
      BY <1>2, <1>4, <2>1, <2>2, <2>4 DEF WorkerInv, LeaseCovers
    <3> QED
      BY <1>4, <2>4, <3>1 DEF LeaseCovers
  <2>5. beat[w].phase # "off"
    BY <1>1, <1>2, <2>1 DEF WorkerInv, BeatRuns
  <2> QED
    BY <1>5, <2>3, <2>4, <2>5 DEF Phases
<1> QED
  BY <1>1, <1>3, <1>4, <1>6, <1>7, <1>8, QuietStep DEF WorkerInv

\* A result is discarded or its report begins. A join that gave up was sick.
LEMMA JoinKeeps ==
    ASSUME ClockInv, NEW w \in Workers, join(w) \/ join_timeout(w)
    PROVE  ClockInv'
<1>1. /\ UNCHANGED <<row, reaper, dead_for>> /\ AfterJoin(w) /\ pc[w] = "joining"
  BY DEF join, join_timeout
<1>2. TypeInv /\ WorkerInv(w)
  BY DEF ClockInv
<1>3. beat[w].phase \in Phases /\ beat[w].t \in Nat /\ timer[w] \in Nat
  BY <1>2 DEF TypeInv
<1>4. /\ beat' \in [Workers -> [phase : Phases, t : Nat]]
      /\ straggler' \in [Workers -> Nat \cup {NoStraggler}]
      /\ beat'[w].phase = "off"
      /\ \A v \in Workers \ {w} : beat'[v] = beat[v] /\ straggler'[v] = straggler[v]
  <2>1. CASE join(w)
    BY <1>2, <2>1 DEF join, TypeInv
  <2>2. CASE join_timeout(w)
    BY <1>2, <1>3, <2>2 DEF join_timeout, TypeInv, Off, Phases
  <2> QED
    BY <2>1, <2>2
<1>5. ~sick[w] => beat[w].phase = "off" /\ straggler'[w] = NoStraggler
  <2>1. CASE join(w)
    BY <1>1, <1>2, <2>1 DEF join, WorkerInv, SickIsKnown
  <2>2. CASE join_timeout(w)
    BY <1>1, <1>2, <1>3, <2>2, Settings DEF join_timeout, WorkerInv, SickIsKnown
  <2> QED
    BY <2>1, <2>2
<1>6. /\ pc'[w] \in {"idle", "reporting"} /\ timer'[w] = 0 /\ ~lost'[w]
      /\ pc' \in [Workers -> Places] /\ timer' \in [Workers -> Nat]
      /\ pc'[w] = "idle" => misses'[w] = 0
      /\ pc'[w] = "reporting" => sick'[w] = sick[w]
      /\ lost' \in [Workers -> BOOLEAN] /\ misses' \in [Workers -> {0, 1}]
      /\ sick' \in [Workers -> BOOLEAN]
      /\ \A v \in Workers \ {w} :
            /\ pc'[v] = pc[v] /\ timer'[v] = timer[v]
            /\ lost'[v] = lost[v] /\ misses'[v] = misses[v] /\ sick'[v] = sick[v]
  <2>1. CASE lost[w] /\ Goto(w, "idle") /\ Forget(w)
    BY <1>2, <2>1 DEF Goto, Forget, TypeInv, Places
  <2>2. CASE ~lost[w] /\ Goto(w, "reporting") /\ UNCHANGED <<lost, misses, sick>>
    BY <1>2, <2>2 DEF Goto, TypeInv, Places
  <2> QED
    BY <1>1, <2>1, <2>2 DEF AfterJoin
<1>7. TypeInv'
  BY <1>1, <1>2, <1>4, <1>6 DEF TypeInv, row, reaper
<1>8. OnlyWorker(w)
  BY <1>4, <1>6 DEF OnlyWorker, SameWorker
<1>9. BeatRuns(w)'
  BY <1>4, <1>6 DEF BeatRuns
<1>10. SickIsKnown(w)'
  BY <1>4, <1>5, <1>6, Settings DEF SickIsKnown
<1>11. LeaseCovers(w)'
  <2> SUFFICES ASSUME Owns(w)', ~sick'[w], pc'[w] = "reporting"
               PROVE  left' >= Lease - 2 * Latency - 2 * Beat - timer'[w]
    BY <1>4, <1>6 DEF LeaseCovers
  <2>1. Owns(w) /\ ~sick[w] /\ left' = left /\ left \in Int
    BY <1>1, <1>2, <1>6 DEF Owns, row, TypeInv
  <2>2. left >= Lease - 2 * Latency - 2 * Beat
    BY <1>1, <1>2, <1>5, <2>1 DEF WorkerInv, LeaseCovers
  <2> QED
    BY <1>6, <2>1, <2>2, Settings
<1> QED
  BY <1>1, <1>6, <1>7, <1>8, <1>9, <1>10, <1>11, QuietStep DEF WorkerInv

\* A report is over, with or without the row.
LEMMA ReportKeeps ==
    ASSUME ClockInv, NEW w \in Workers,
           report(w, "DONE") \/ report(w, "READY") \/ report_rejected(w)
    PROVE  ClockInv'
<1>1. /\ pc[w] = "reporting" /\ Goto(w, "idle") /\ Forget(w)
      /\ UNCHANGED <<beat, straggler, reaper, dead_for>>
  BY DEF report, report_rejected
<1>2. TypeInv /\ WorkerInv(w)
  BY DEF ClockInv
<1>3. /\ pc'[w] = "idle" /\ timer'[w] = 0 /\ ~lost'[w] /\ misses'[w] = 0
      /\ pc' \in [Workers -> Places] /\ timer' \in [Workers -> Nat]
      /\ lost' \in [Workers -> BOOLEAN] /\ misses' \in [Workers -> {0, 1}]
      /\ sick' \in [Workers -> BOOLEAN]
      /\ OnlyWorker(w)
  BY <1>1, <1>2 DEF Goto, Forget, TypeInv, Places, OnlyWorker, SameWorker
<1>4. beat'[w].phase = "off"
  BY <1>1, <1>2 DEF TypeInv, WorkerInv, BeatRuns, Phases
<1>5. WorkerInv(w)'
  BY <1>3, <1>4 DEF WorkerInv, BeatRuns, SickIsKnown, LeaseCovers
<1>6. CASE report_rejected(w)
  <2>1. row' = row
    BY <1>6 DEF report_rejected
  <2>2. TypeInv'
    BY <1>1, <1>2, <1>3, <2>1 DEF TypeInv, row, reaper
  <2> QED
    BY <1>1, <1>3, <1>5, <2>1, <2>2, QuietStep
<1>7. CASE report(w, "DONE") \/ report(w, "READY")
  <2>1. state' \in {"DONE", "READY"} /\ left' = 0
    BY <1>7 DEF report
  <2>2. TypeInv'
    BY <1>1, <1>2, <1>3, <2>1, Settings DEF TypeInv, reaper
  <2> QED
    BY <1>3, <1>5, <2>1, <2>2, OwnerStep
<1> QED
  BY <1>6, <1>7

\* The owner of the row dies: its lease is not longer than a lease, and the reaper's
\* next sweep not further away than after one that failed.
LEMMA CrashKeeps ==
    ASSUME ClockInv, NEW w \in Workers, crash(w)
    PROVE  ClockInv'
<1>1. /\ pc[w] # "dead" /\ Goto(w, "dead") /\ Forget(w)
      /\ beat' = [beat EXCEPT ![w] = Off]
      /\ straggler' = [straggler EXCEPT ![w] = NoStraggler]
      /\ dead_for' = IF Owns(w) THEN 0 ELSE dead_for
      /\ failed' = IF Owns(w) THEN 0 ELSE failed
      /\ UNCHANGED <<row, sweep, sweeping, skew>>
  BY DEF crash
<1>2. TypeInv /\ WorkerInv(w)
  BY DEF ClockInv
<1>3. /\ pc'[w] = "dead" /\ ~lost'[w] /\ beat'[w].phase = "off"
      /\ straggler'[w] = NoStraggler
      /\ pc' \in [Workers -> Places] /\ timer' \in [Workers -> Nat]
      /\ beat' \in [Workers -> [phase : Phases, t : Nat]]
      /\ straggler' \in [Workers -> Nat \cup {NoStraggler}]
      /\ lost' \in [Workers -> BOOLEAN] /\ misses' \in [Workers -> {0, 1}]
      /\ sick' \in [Workers -> BOOLEAN]
      /\ OnlyWorker(w)
  BY <1>1, <1>2 DEF Goto, Forget, TypeInv, Places, Phases, Off, OnlyWorker, SameWorker
<1>4. TypeInv'
  BY <1>1, <1>2, <1>3 DEF TypeInv, row
<1>5. WorkerInv(w)'
  BY <1>3 DEF WorkerInv, BeatRuns, SickIsKnown, LeaseCovers
<1>6. ASSUME NEW v \in Workers, v # w PROVE WorkerInv(v)'
  <2>1. WorkerInv(v) /\ SameWorker(v)
    BY <1>3, <1>6 DEF ClockInv, OnlyWorker
  <2>2. Owns(v)' => Owns(v) /\ left' = left
    BY <1>1 DEF Owns, row
  <2> QED
    BY <2>1, <2>2, OthersKeep
<1>7. Recovery'
  <2>1. CASE Owns(w)
    <3>1. /\ dead_for' = 0 /\ failed' = 0 /\ left' = left /\ skew' = skew
          /\ sweep' = sweep /\ sweeping' = sweeping
      BY <1>1, <2>1 DEF row
    <3>2. Extra' = 0
      BY <3>1, Settings DEF Extra
    <3>3. /\ left' \in Int /\ left' <= Lease /\ sweep' \in Nat /\ sweep' <= 2 * Interval
          /\ sweeping' \in Int /\ -1 <= sweeping' /\ sweeping' <= SlowSweep
          /\ sweeping' # NoSweep => sweeping' \in Nat
      BY <1>2, <3>1 DEF TypeInv, NoSweep
    <3>4. InTime(dead_for + sweep + SlowSweep)'
      BY <3>1, <3>2, <3>3, Settings DEF InTime
    <3>5. sweeping' # NoSweep => InTime(dead_for + SlowSweep - sweeping)'
      BY <3>1, <3>2, <3>3, Settings DEF InTime
    <3>6. left' > Floor' => dead_for' + left' <= Lease
      BY <3>1, <3>3, Settings
    <3>7. dead_for' + sweep' <= 2 * Interval
      BY <3>1, <3>3, Settings
    <3> QED
      BY <3>4, <3>5, <3>6, <3>7 DEF Recovery
  <2>2. CASE ~Owns(w)
    <3>1. UNCHANGED <<row, reaper, dead_for>>
      BY <1>1, <2>2 DEF reaper
    <3>2. DeadOwner' => DeadOwner
      BY <1>1, <1>2, <1>3, <2>2 DEF DeadOwner, Owns, row, OnlyWorker, SameWorker, TypeInv
    <3> QED
      BY <3>1, <3>2, RecoveryQuiet DEF ClockInv
  <2> QED
    BY <2>1, <2>2
<1> QED
  BY <1>4, <1>5, <1>6, <1>7 DEF ClockInv

-----------------------------------------------------------------------------
(* The heartbeat thread.                                                   *)

\* The wait is over.
LEMMA RenewBeginKeeps ==
    ASSUME ClockInv, NEW w \in Workers, renew_begin(w)
    PROVE  ClockInv'
<1>1. /\ UNCHANGED <<row, pc, timer, lost, straggler, reaper, misses, sick, dead_for>>
      /\ beat[w].phase = "waiting" /\ beat[w].t = Beat
      /\ beat' = [beat EXCEPT ![w] = Renewing]
  BY DEF renew_begin
<1>2. TypeInv /\ WorkerInv(w)
  BY DEF ClockInv
<1>3. TypeInv'
  BY <1>1, <1>2 DEF TypeInv, Phases, Renewing, row, reaper
<1>4. /\ OnlyWorker(w) /\ beat'[w].phase = "renewing" /\ beat'[w].t = 0
      /\ pc[w] = "executing"
  BY <1>1, <1>2 DEF TypeInv, OnlyWorker, SameWorker, Renewing, WorkerInv, BeatRuns
<1>5. BeatRuns(w)'
  BY <1>1, <1>2, <1>4 DEF WorkerInv, BeatRuns, Owns, row
<1>6. SickIsKnown(w)'
  BY <1>1, <1>2, <1>4, Settings DEF WorkerInv, SickIsKnown
<1>7. LeaseCovers(w)'
  <2> SUFFICES ASSUME Owns(w)', ~sick'[w]
               PROVE  left' >= Lease - Behind(w)' - Beat - beat'[w].t
    BY <1>1, <1>4 DEF LeaseCovers
  <2>1. Owns(w) /\ ~sick[w] /\ left' = left /\ left \in Int /\ misses[w] \in {0, 1}
    BY <1>1, <1>2 DEF Owns, row, TypeInv
  <2>2. Behind(w)' = Behind(w) /\ Behind(w) \in Nat
    BY <1>1, <2>1, Settings DEF Behind
  <2>3. left >= Lease - Behind(w) - Beat
    BY <1>1, <1>2, <2>1 DEF WorkerInv, LeaseCovers
  <2> QED
    BY <1>4, <2>1, <2>2, <2>3, Settings
<1> QED
  BY <1>1, <1>3, <1>4, <1>5, <1>6, <1>7, QuietStep DEF WorkerInv

\* The loop goes on, or ends when the executor is done.
LEMMA BeatGoesOn ==
    ASSUME TypeInv, NEW w \in Workers, BeatAgain(w)
    PROVE  /\ beat' \in [Workers -> [phase : Phases, t : Nat]]
           /\ beat'[w].phase = IF pc[w] = "executing" THEN "waiting" ELSE "off"
           /\ beat'[w].t = 0
           /\ \A v \in Workers \ {w} : beat'[v] = beat[v]
BY DEF TypeInv, BeatAgain, Waiting, Off, Phases

\* A renewal that is answered: the stamp is as old as the call.
LEMMA RenewKeeps ==
    ASSUME ClockInv, NEW w \in Workers, renew_lease(w)
    PROVE  ClockInv'
<1>1. /\ UNCHANGED <<pc, timer, lost, straggler, reaper, sick, dead_for>>
      /\ beat[w].phase = "renewing" /\ Owns(w) /\ BeatAgain(w)
      /\ left' = Lease - beat[w].t /\ state' = state /\ owner' = owner
      /\ misses' = [misses EXCEPT ![w] = 0]
  BY DEF renew_lease, Renewed
<1>2. TypeInv /\ WorkerInv(w)
  BY DEF ClockInv
<1>3. /\ beat' \in [Workers -> [phase : Phases, t : Nat]]
      /\ beat'[w].phase = IF pc[w] = "executing" THEN "waiting" ELSE "off"
      /\ beat'[w].t = 0
      /\ \A v \in Workers \ {w} : beat'[v] = beat[v]
  BY <1>1, <1>2, BeatGoesOn
<1>4. beat[w].t \in Nat
  BY <1>2 DEF TypeInv
<1>5. TypeInv'
  BY <1>1, <1>2, <1>3, <1>4, Settings DEF TypeInv, reaper
<1>6. OnlyWorker(w) /\ misses'[w] = 0
  BY <1>1, <1>2, <1>3 DEF TypeInv, OnlyWorker, SameWorker
<1>7. pc[w] \in {"executing", "joining"} /\ ~lost[w]
  BY <1>1, <1>2 DEF WorkerInv, BeatRuns
<1>8. BeatRuns(w)'
  BY <1>1, <1>3, <1>7, Settings DEF BeatRuns
<1>9. SickIsKnown(w)'
  BY <1>1, <1>2, <1>3, <1>7 DEF WorkerInv, SickIsKnown
<1>10. LeaseCovers(w)'
  <2> SUFFICES ASSUME ~sick'[w] PROVE LeaseCovers(w)'
    BY DEF LeaseCovers
  <2>1. beat[w].t <= Latency
    BY <1>1, <1>2 DEF WorkerInv, SickIsKnown
  <2>2. left' >= Lease - Latency /\ Behind(w)' = Latency /\ left' \in Int
    BY <1>1, <1>4, <1>6, <2>1, Settings DEF Behind
  <2> QED
    BY <1>1, <1>3, <1>7, <2>2, Settings DEF LeaseCovers
<1> QED
  BY <1>1, <1>5, <1>6, <1>7, <1>8, <1>9, <1>10, OwnerStep DEF Owns, WorkerInv

\* A renewal that finds the row gone.
LEMMA RenewLostKeeps ==
    ASSUME ClockInv, NEW w \in Workers, renew_lost(w)
    PROVE  ClockInv'
<1>1. /\ UNCHANGED <<row, pc, timer, straggler, reaper, misses, sick, dead_for>>
      /\ beat[w].phase = "renewing" /\ ~Owns(w)
      /\ lost' = [lost EXCEPT ![w] = TRUE]
      /\ beat' = [beat EXCEPT ![w] = Off]
  BY DEF renew_lost
<1>2. TypeInv /\ WorkerInv(w)
  BY DEF ClockInv
<1>3. TypeInv'
  BY <1>1, <1>2 DEF TypeInv, Phases, Off, row, reaper
<1>4. /\ OnlyWorker(w) /\ beat'[w].phase = "off" /\ lost'[w] /\ ~Owns(w)'
      /\ pc[w] \in {"executing", "joining"}
  BY <1>1, <1>2 DEF TypeInv, OnlyWorker, SameWorker, Off, WorkerInv, BeatRuns, Owns, row
<1>5. BeatRuns(w)' /\ LeaseCovers(w)'
  BY <1>1, <1>4 DEF BeatRuns, LeaseCovers
<1>6. SickIsKnown(w)'
  BY <1>1, <1>2, <1>4 DEF WorkerInv, SickIsKnown
<1> QED
  BY <1>1, <1>3, <1>4, <1>5, <1>6, QuietStep DEF WorkerInv

\* A renewal that fails, done or not: with the first one a wait and a call are lost,
\* with the second in a row the worker is sick.
LEMMA RenewFailedKeeps ==
    ASSUME ClockInv, NEW w \in Workers, renew_failed(w)
    PROVE  ClockInv'
<1>1. /\ UNCHANGED <<pc, timer, lost, straggler, reaper, dead_for>>
      /\ beat[w].phase = "renewing" /\ BeatAgain(w)
      /\ \/ Owns(w) /\ left' = Lease - beat[w].t /\ state' = state /\ owner' = owner
         \/ UNCHANGED row
      /\ misses' = [misses EXCEPT ![w] = 1]
      /\ sick' = [sick EXCEPT ![w] = sick[w] \/ misses[w] = 1]
  BY DEF renew_failed, Renewed, KeepBeating
<1>2. TypeInv /\ WorkerInv(w)
  BY DEF ClockInv
<1>3. /\ beat' \in [Workers -> [phase : Phases, t : Nat]]
      /\ beat'[w].phase = IF pc[w] = "executing" THEN "waiting" ELSE "off"
      /\ beat'[w].t = 0
      /\ \A v \in Workers \ {w} : beat'[v] = beat[v]
  BY <1>1, <1>2, BeatGoesOn
<1>4. beat[w].t \in Nat /\ misses[w] \in {0, 1} /\ left \in Int
  BY <1>2 DEF TypeInv
<1>5. /\ sick' \in [Workers -> BOOLEAN]
      /\ sick'[w] <=> sick[w] \/ misses[w] = 1
      /\ \A v \in Workers \ {w} : sick'[v] = sick[v]
  BY <1>1, <1>2 DEF TypeInv
<1>6. TypeInv'
  <2>1. state' = state /\ owner' = owner /\ left' \in Int /\ left' <= Lease
    BY <1>1, <1>2, <1>4, Settings DEF TypeInv, row
  <2> QED
    BY <1>1, <1>2, <1>3, <1>5, <2>1 DEF TypeInv, reaper
<1>7. OnlyWorker(w) /\ misses'[w] = 1
  BY <1>1, <1>2, <1>3, <1>5 DEF TypeInv, OnlyWorker, SameWorker
<1>8. pc[w] \in {"executing", "joining"}
  BY <1>1, <1>2 DEF WorkerInv, BeatRuns
<1>9. BeatRuns(w)'
  <2>1. Owns(w)' <=> Owns(w)
    BY <1>1 DEF Owns, row
  <2> QED
    BY <1>1, <1>2, <1>3, <1>8, <2>1, Settings DEF WorkerInv, BeatRuns
<1>10. SickIsKnown(w)'
  BY <1>1, <1>2, <1>3, <1>5, <1>8 DEF WorkerInv, SickIsKnown
<1>11. LeaseCovers(w)'
  <2> SUFFICES ASSUME Owns(w)', ~sick'[w] PROVE LeaseCovers(w)'
    BY DEF LeaseCovers
  <2>1. Owns(w) /\ ~sick[w] /\ misses[w] = 0
    BY <1>1, <1>4, <1>5 DEF Owns, row
  <2>2. beat[w].t <= Latency /\ left >= Lease - Latency - Beat - beat[w].t
    BY <1>1, <1>2, <2>1, Settings DEF WorkerInv, SickIsKnown, LeaseCovers, Behind
  <2>3. /\ left' \in Int /\ left' >= Lease - 2 * Latency - Beat
        /\ Behind(w)' = 2 * Latency + Beat
    BY <1>1, <1>4, <1>7, <2>2, Settings DEF row, Behind
  <2> QED
    BY <1>1, <1>3, <1>8, <2>3, Settings DEF LeaseCovers
<1>12. CASE UNCHANGED row
  BY <1>1, <1>6, <1>7, <1>8, <1>9, <1>10, <1>11, <1>12, QuietStep DEF WorkerInv
<1>13. CASE Owns(w) /\ state' = state /\ owner' = owner
  BY <1>1, <1>6, <1>7, <1>8, <1>9, <1>10, <1>11, <1>13, OwnerStep DEF Owns, WorkerInv
<1> QED
  BY <1>1, <1>12, <1>13

\* The late answer of a straggler: it renews what its worker has claimed since, which
\* is then sick, or finds nothing.
LEMMA StragglerKeeps ==
    ASSUME ClockInv, NEW w \in Workers, straggler_renews(w) \/ straggler_lost(w)
    PROVE  ClockInv'
<1>1. /\ UNCHANGED <<pc, timer, beat, lost, reaper, misses, sick, dead_for>>
      /\ straggler[w] # NoStraggler
      /\ straggler' = [straggler EXCEPT ![w] = NoStraggler]
      /\ \/ Owns(w) /\ left' = Lease - straggler[w] /\ state' = state /\ owner' = owner
         \/ UNCHANGED row /\ ~Owns(w)
  BY DEF straggler_renews, straggler_lost, Renewed
<1>2. TypeInv /\ WorkerInv(w)
  BY DEF ClockInv
<1>3. straggler[w] \in Nat /\ pc[w] # "dead"
  BY <1>1, <1>2 DEF TypeInv, WorkerInv, BeatRuns
<1>4. TypeInv'
  <2>1. state' = state /\ owner' = owner /\ left' \in Int /\ left' <= Lease
    BY <1>1, <1>2, <1>3, Settings DEF TypeInv, row
  <2> QED
    BY <1>1, <1>2, <2>1 DEF TypeInv, reaper
<1>5. OnlyWorker(w) /\ straggler'[w] = NoStraggler
  BY <1>1, <1>2 DEF TypeInv, OnlyWorker, SameWorker
<1>6. Owns(w)' <=> Owns(w)
  BY <1>1 DEF Owns, row
<1>7. BeatRuns(w)' /\ SickIsKnown(w)'
  BY <1>1, <1>2, <1>5, <1>6 DEF WorkerInv, BeatRuns, SickIsKnown
<1>8. LeaseCovers(w)'
  <2> SUFFICES ASSUME Owns(w), ~sick[w] PROVE LeaseCovers(w)'
    BY <1>1, <1>6 DEF LeaseCovers
  <2>1. pc[w] \notin {"waiting", "executing", "joining", "reporting"}
    BY <1>1, <1>2 DEF WorkerInv, SickIsKnown
  <2>2. beat[w].phase = "off"
    BY <1>2, <2>1 DEF TypeInv, WorkerInv, BeatRuns, Phases
  <2> QED
    BY <1>1, <2>1, <2>2 DEF LeaseCovers
<1>9. CASE UNCHANGED row
  BY <1>1, <1>3, <1>4, <1>5, <1>7, <1>8, <1>9, QuietStep DEF WorkerInv
<1>10. CASE Owns(w) /\ state' = state /\ owner' = owner
  BY <1>1, <1>3, <1>4, <1>5, <1>7, <1>8, <1>10, OwnerStep DEF Owns, WorkerInv
<1> QED
  BY <1>1, <1>9, <1>10

-----------------------------------------------------------------------------
(* The reaper and time.                                                    *)

\* Neither the workers nor their leases are touched by a step of the reaper, unless it
\* takes the row away.
LEMMA ReaperLeavesWorkers ==
    ASSUME ClockInv, NEW v \in Workers, UNCHANGED <<worker, misses, sick>>,
           UNCHANGED row \/ state' = "READY"
    PROVE  WorkerInv(v)'
<1>1. WorkerInv(v) /\ SameWorker(v)
  BY DEF ClockInv, SameWorker, worker
<1>2. Owns(v)' => Owns(v) /\ left' = left
  BY DEF Owns, row
<1> QED
  BY <1>1, <1>2, OthersKeep

\* A sweep begins: from here on, what counts is whether its stamp finds the lease expired.
LEMMA SweepBeginKeeps ==
    ASSUME ClockInv, sweep_begin
    PROVE  ClockInv'
<1>1. /\ UNCHANGED <<row, worker, sweep, skew, failed, misses, sick, dead_for>>
      /\ sweep = 0 /\ sweeping = NoSweep /\ sweeping' = 0
  BY DEF sweep_begin
<1>2. TypeInv
  BY DEF ClockInv
<1>3. TypeInv'
  BY <1>1, <1>2, Settings DEF TypeInv, row, worker
<1>4. \A v \in Workers : WorkerInv(v)'
  BY <1>1, ReaperLeavesWorkers
<1>5. Recovery'
  <2> SUFFICES ASSUME DeadOwner' PROVE Recovery'
    BY DEF Recovery
  <2>1. /\ DeadOwner /\ left' = left /\ dead_for' = dead_for /\ skew' = skew
        /\ failed' = failed /\ Floor' = Floor
    BY <1>1 DEF DeadOwner, row, worker, Floor
  <2>2. left \in Int /\ dead_for \in Nat /\ skew \in Int
    BY <1>2 DEF TypeInv
  <2>3. left > Floor => dead_for + left <= Lease
    BY <2>1 DEF ClockInv, Recovery
  <2>4. ASSUME ExpiredAt(sweeping)' PROVE InTime(dead_for + SlowSweep - sweeping)'
    <3>1. Expired
      BY <1>1, <2>1, <2>2, <2>4 DEF ExpiredAt, Expired
    <3>2. InTime(dead_for + sweep + SlowSweep)
      BY <1>1, <2>1, <3>1 DEF ClockInv, Recovery
    <3>3. /\ dead_for + sweep + SlowSweep = dead_for + SlowSweep
          /\ (dead_for + SlowSweep - sweeping)' = dead_for + SlowSweep
      BY <1>1, <2>1, <2>2, Settings
    <3> QED
      BY <2>1, <3>2, <3>3 DEF InTime, Extra
  <2>5. sweeping' # NoSweep
    BY <1>1 DEF NoSweep
  <2> QED
    BY <2>1, <2>3, <2>4, <2>5 DEF Recovery
<1> QED
  BY <1>3, <1>4, <1>5 DEF ClockInv

\* A sweep whose stamp came too early for a dead worker's lease ends in time for another.
LEMMA TooEarly ==
    ASSUME ClockInv, DeadOwner, sweeping # NoSweep, ~ExpiredAt(sweeping)
    PROVE  dead_for <= Lease - skew + SlowSweep
<1>1. /\ left \in Int /\ dead_for \in Nat /\ skew \in Int /\ -Skew <= skew
      /\ sweeping \in Nat /\ sweeping <= SlowSweep
  BY Settings DEF ClockInv, TypeInv, NoSweep
<1>2. left + sweeping >= skew
  BY <1>1 DEF ExpiredAt
<1>3. left > Floor
  BY <1>1, <1>2, Settings DEF Floor
<1>4. dead_for + left <= Lease
  BY <1>3 DEF ClockInv, Recovery
<1> QED
  BY <1>1, <1>2, <1>4, Settings

\* A sweep takes an expired lease back, or the next one begins after an interval.
LEMMA ReapKeeps ==
    ASSUME ClockInv, reap_expired_leases
    PROVE  ClockInv'
<1>1. /\ UNCHANGED <<worker, skew, misses, sick>> /\ sweep' = Interval
      /\ sweeping # NoSweep /\ sweeping' = NoSweep
      /\ \/ state' = "READY" /\ left' = 0 /\ dead_for' = 0 /\ failed' = 0
         \/ ~Matched /\ UNCHANGED <<row, dead_for, failed>>
  BY DEF reap_expired_leases, Requeued, NextSweep
<1>2. TypeInv
  BY DEF ClockInv
<1>3. TypeInv'
  <2>1. /\ sweep' \in Nat /\ sweep' <= 2 * Interval
        /\ sweeping' \in Int /\ -1 <= sweeping' /\ sweeping' <= SlowSweep
    BY <1>1, Settings DEF NoSweep
  <2>2. /\ state' \in {"READY", "RUNNING", "DONE"}
        /\ state' = "RUNNING" => owner' \in Workers
        /\ left' \in Int /\ left' <= Lease /\ dead_for' \in Nat /\ failed' \in Nat
    BY <1>1, <1>2, Settings DEF TypeInv, row
  <2> QED
    BY <1>1, <1>2, <2>1, <2>2 DEF TypeInv, worker
<1>4. \A v \in Workers : WorkerInv(v)'
  BY <1>1, ReaperLeavesWorkers
<1>5. Recovery'
  <2> SUFFICES ASSUME DeadOwner' PROVE Recovery'
    BY DEF Recovery
  <2>1. UNCHANGED <<row, dead_for, failed>> /\ DeadOwner /\ ~ExpiredAt(sweeping)
    BY <1>1 DEF DeadOwner, Matched, row, worker
  <2>2. left' = left /\ dead_for' = dead_for /\ skew' = skew /\ Floor' = Floor
    BY <1>1, <2>1 DEF row, Floor
  <2>3. left > Floor => dead_for + left <= Lease
    BY <2>1 DEF ClockInv, Recovery
  <2>4. InTime(dead_for + sweep + SlowSweep)'
    <3>1. dead_for <= Lease - skew + SlowSweep
      BY <1>1, <2>1, TooEarly
    <3>2. dead_for \in Nat /\ skew \in Int /\ failed \in Nat
      BY <1>2 DEF TypeInv
    <3>3. Extra' = Extra /\ Extra \in Nat
      BY <2>1, <3>2, ExtraOf DEF Extra
    <3> HIDE DEF Interval
    <3> QED
      BY <1>1, <2>2, <3>1, <3>2, <3>3, Settings DEF InTime
  <2>5. sweep' <= Interval
    BY <1>1, Settings
  <2> QED
    BY <1>1, <2>2, <2>3, <2>4, <2>5 DEF Recovery
<1> QED
  BY <1>3, <1>4, <1>5 DEF ClockInv

\* A sweep that fails, and did not take the row back, puts the next one off by two
\* intervals.
LEMMA SweepFailedKeeps ==
    ASSUME ClockInv, sweep_failed
    PROVE  ClockInv'
<1>1. /\ UNCHANGED <<worker, skew, misses, sick>> /\ sweep' = 2 * Interval
      /\ sweeping # NoSweep /\ sweeping' = NoSweep
      /\ \/ state' = "READY" /\ left' = 0 /\ dead_for' = 0 /\ failed' = 0
         \/ /\ failed' = IF DeadOwner THEN failed + 1 ELSE 0
            /\ UNCHANGED <<row, dead_for>>
  BY DEF sweep_failed, Requeued, NextSweep
<1>2. TypeInv
  BY DEF ClockInv
<1>3. TypeInv'
  <2>1. /\ sweep' \in Nat /\ sweep' <= 2 * Interval
        /\ sweeping' \in Int /\ -1 <= sweeping' /\ sweeping' <= SlowSweep
    BY <1>1, Settings DEF NoSweep
  <2>2. /\ state' \in {"READY", "RUNNING", "DONE"}
        /\ state' = "RUNNING" => owner' \in Workers
        /\ left' \in Int /\ left' <= Lease /\ dead_for' \in Nat /\ failed' \in Nat
    BY <1>1, <1>2, Settings DEF TypeInv, row
  <2> QED
    BY <1>1, <1>2, <2>1, <2>2 DEF TypeInv, worker
<1>4. \A v \in Workers : WorkerInv(v)'
  BY <1>1, ReaperLeavesWorkers DEF row
<1>5. Recovery'
  <2> SUFFICES ASSUME DeadOwner' PROVE Recovery'
    BY DEF Recovery
  <2>1. /\ DeadOwner /\ left' = left /\ dead_for' = dead_for /\ skew' = skew
        /\ failed' = failed + 1 /\ Floor' = Floor
    BY <1>1 DEF DeadOwner, row, worker, Floor
  <2>2. /\ dead_for \in Nat /\ failed \in Nat /\ skew \in Int /\ sweeping \in Int
        /\ sweeping <= SlowSweep
    BY <1>2 DEF TypeInv
  <2>3. Extra' = Extra + SlowSweep + 2 * Interval /\ Extra \in Nat
    BY <2>1, <2>2, ExtraOf DEF Extra
  <2>4. InTime(dead_for)
    <3>1. CASE ExpiredAt(sweeping)
      <4>1. InTime(dead_for + SlowSweep - sweeping)
        BY <1>1, <2>1, <3>1 DEF ClockInv, Recovery
      <4> HIDE DEF Interval
      <4> QED
        BY <2>2, <2>3, <4>1, Settings DEF InTime
    <3>2. CASE ~ExpiredAt(sweeping)
      <4>1. dead_for <= Lease - skew + SlowSweep
        BY <1>1, <2>1, <3>2, TooEarly
      <4> HIDE DEF Interval
      <4> QED
        BY <2>2, <2>3, <4>1, Settings DEF InTime
    <3> QED
      BY <3>1, <3>2
  <2>5. InTime(dead_for + sweep + SlowSweep)'
    <3>1. (dead_for + sweep + SlowSweep)' = dead_for + 2 * Interval + SlowSweep
      BY <1>1, <2>1
    <3> HIDE DEF Interval
    <3> QED
      BY <2>1, <2>2, <2>3, <2>4, <3>1, Settings DEF InTime
  <2>6. failed' >= 1
    BY <2>1, <2>2
  <2>7. left > Floor => dead_for + left <= Lease
    BY <2>1 DEF ClockInv, Recovery
  <2> QED
    BY <1>1, <2>1, <2>5, <2>6, <2>7 DEF Recovery
<1> QED
  BY <1>3, <1>4, <1>5 DEF ClockInv

\* What a tick does to one worker, when nothing is urgent.
LEMMA TickOfWorker ==
    ASSUME TypeInv, tick, NEW w \in Workers
    PROVE  /\ pc'[w] = pc[w] /\ lost'[w] = lost[w] /\ misses'[w] = misses[w]
           /\ timer'[w] = IF pc[w] \in {"claiming", "reporting", "joining"}
                            THEN timer[w] + 1 ELSE 0
           /\ beat'[w].phase = beat[w].phase
           /\ beat[w].phase # "off" => beat'[w].t = beat[w].t + 1
           /\ straggler'[w] # NoStraggler <=> straggler[w] # NoStraggler
           /\ beat[w].phase = "waiting" => beat[w].t # Beat
           /\ ~(pc[w] = "joining" /\ beat[w].phase = "off")
           /\ ~sick'[w] => /\ ~sick[w]
                           /\ ~(pc[w] = "reporting" /\ timer[w] = Latency)
                           /\ ~(beat[w].phase = "renewing" /\ beat[w].t = Latency)
                           /\ pc[w] # "waiting"
<1>1. /\ pc'[w] = pc[w] /\ lost'[w] = lost[w] /\ misses'[w] = misses[w]
      /\ timer'[w] = IF pc[w] \in {"claiming", "reporting", "joining"}
                       THEN timer[w] + 1 ELSE 0
  BY DEF tick, Calling
<1>2. /\ beat'[w].phase = beat[w].phase
      /\ beat[w].phase # "off" => beat'[w].t = beat[w].t + 1
  BY DEF tick, TypeInv
<1>3. straggler'[w] # NoStraggler <=> straggler[w] # NoStraggler
  BY DEF tick, TypeInv, NoStraggler
<1>4. /\ beat[w].phase = "waiting" => beat[w].t # Beat
      /\ ~(pc[w] = "joining" /\ beat[w].phase = "off")
  BY DEF tick, Urgent
<1>5. ~sick'[w] => /\ ~sick[w]
                   /\ ~(pc[w] = "reporting" /\ timer[w] = Latency)
                   /\ ~(beat[w].phase = "renewing" /\ beat[w].t = Latency)
                   /\ pc[w] # "waiting"
  BY DEF tick
<1> QED
  BY <1>1, <1>2, <1>3, <1>4, <1>5

\* A tick keeps the types: the reaper's timers could leave their ranges, but a wait that is
\* over and a sweep that is given up are urgent.
LEMMA TickType ==
    ASSUME TypeInv, tick
    PROVE  TypeInv'
<1>1. /\ UNCHANGED <<state, owner, pc, lost, skew, misses, failed>>
      /\ left' = IF state = "RUNNING" /\ left > Floor THEN left - 1 ELSE left
      /\ dead_for' = IF DeadOwner THEN dead_for + 1 ELSE 0
      /\ sweeping # SlowSweep
      /\ sweeping = NoSweep => sweep # 0 /\ sweep' = sweep - 1 /\ sweeping' = sweeping
      /\ sweeping # NoSweep => sweeping' = sweeping + 1 /\ sweep' = sweep
  BY DEF tick, Urgent
<1>2. /\ sweep' \in Nat /\ sweep' <= 2 * Interval
      /\ sweeping' \in Int /\ -1 <= sweeping' /\ sweeping' <= SlowSweep
      /\ sweeping' # NoSweep => sweep' = 0
  <2>1. CASE sweeping = NoSweep
    BY <1>1, <2>1, Settings DEF TypeInv
  <2>2. CASE sweeping # NoSweep
    BY <1>1, <2>2, Settings DEF TypeInv
  <2> QED
    BY <2>1, <2>2
<1>3. left' \in Int /\ left' <= Lease /\ dead_for' \in Nat
  BY <1>1, Settings DEF TypeInv
<1>4. timer' \in [Workers -> Nat]
  BY DEF tick, TypeInv
<1>5. beat' \in [Workers -> [phase : Phases, t : Nat]]
  BY DEF tick, TypeInv
<1>6. straggler' \in [Workers -> Nat \cup {NoStraggler}]
  BY DEF tick, TypeInv, NoStraggler
<1>7. sick' \in [Workers -> BOOLEAN]
  BY Zenon DEF tick, TypeInv
<1> QED
  BY <1>1, <1>2, <1>3, <1>4, <1>5, <1>6, <1>7 DEF TypeInv

\* A tick takes one of the lease and adds one to what the bound on it subtracts.
LEMMA TickWorkerKeeps ==
    ASSUME ClockInv, tick, NEW w \in Workers
    PROVE  WorkerInv(w)'
<1>1. TypeInv /\ WorkerInv(w)
  BY DEF ClockInv
<1>2. /\ pc'[w] = pc[w] /\ lost'[w] = lost[w] /\ misses'[w] = misses[w]
      /\ timer'[w] = IF pc[w] \in {"claiming", "reporting", "joining"}
                       THEN timer[w] + 1 ELSE 0
      /\ beat'[w].phase = beat[w].phase
      /\ beat[w].phase # "off" => beat'[w].t = beat[w].t + 1
      /\ straggler'[w] # NoStraggler <=> straggler[w] # NoStraggler
      /\ beat[w].phase = "waiting" => beat[w].t # Beat
      /\ ~(pc[w] = "joining" /\ beat[w].phase = "off")
      /\ ~sick'[w] => /\ ~sick[w]
                      /\ ~(pc[w] = "reporting" /\ timer[w] = Latency)
                      /\ ~(beat[w].phase = "renewing" /\ beat[w].t = Latency)
                      /\ pc[w] # "waiting"
  BY <1>1, TickOfWorker
<1>3. beat[w].t \in Nat /\ timer[w] \in Nat /\ left \in Int /\ misses[w] \in {0, 1}
  BY <1>1 DEF TypeInv
<1>4. state' = state /\ owner' = owner /\ left' \in Int /\ left' >= left - 1
  BY <1>3 DEF tick
<1>5. Owns(w)' <=> Owns(w)
  BY <1>4 DEF Owns
<1>6. BeatRuns(w)'
  BY <1>1, <1>2, <1>3, <1>5, Settings DEF WorkerInv, BeatRuns
<1>7. SickIsKnown(w)'
  BY <1>1, <1>2, <1>3, Settings DEF WorkerInv, SickIsKnown
<1>8. LeaseCovers(w)'
  <2> SUFFICES ASSUME Owns(w), ~sick'[w] PROVE LeaseCovers(w)'
    BY <1>5 DEF LeaseCovers
  <2>1. LeaseCovers(w) /\ ~sick[w]
    BY <1>1, <1>2 DEF WorkerInv
  <2>2. Behind(w)' = Behind(w) /\ Behind(w) \in Nat
    BY <1>2, <1>3, Settings DEF Behind
  <2>3. CASE beat[w].phase = "waiting"
    <3>1. left >= Lease - Behind(w) - beat[w].t /\ pc[w] = "executing"
      BY <1>1, <2>1, <2>3 DEF WorkerInv, BeatRuns, LeaseCovers
    <3>2. left' >= Lease - Behind(w)' - beat'[w].t
      BY <1>2, <1>3, <1>4, <2>2, <2>3, <3>1, Settings
    <3> QED
      BY <1>2, <2>3, <3>1, <3>2 DEF LeaseCovers
  <2>4. CASE beat[w].phase = "renewing"
    <3>1. /\ left >= Lease - Behind(w) - Beat - beat[w].t
          /\ pc[w] \in {"executing", "joining"}
      BY <1>1, <2>1, <2>4 DEF WorkerInv, BeatRuns, LeaseCovers
    <3>2. left' >= Lease - Behind(w)' - Beat - beat'[w].t
      BY <1>2, <1>3, <1>4, <2>2, <2>4, <3>1, Settings
    <3> QED
      BY <1>2, <2>4, <3>1, <3>2 DEF LeaseCovers
  <2>5. CASE beat[w].phase = "off"
    <3>1. pc[w] # "waiting" /\ pc[w] # "joining"
      BY <1>2, <2>5
    <3>2. ASSUME pc[w] = "reporting"
          PROVE  left' >= Lease - 2 * Latency - 2 * Beat - timer'[w]
      <4>1. left >= Lease - 2 * Latency - 2 * Beat - timer[w]
        BY <2>1, <3>2 DEF LeaseCovers
      <4> QED
        BY <1>2, <1>3, <1>4, <3>2, <4>1, Settings
    <3> QED
      BY <1>2, <2>5, <3>1, <3>2 DEF LeaseCovers
  <2>6. beat[w].phase \in Phases
    BY <1>1 DEF TypeInv
  <2> QED
    BY <2>3, <2>4, <2>5, <2>6 DEF Phases
<1> QED
  BY <1>6, <1>7, <1>8 DEF WorkerInv

\* Time runs against a dead worker's lease and towards the end of the next sweep.
LEMMA TickKeeps ==
    ASSUME ClockInv, tick
    PROVE  ClockInv'
<1>1. TypeInv /\ TypeInv'
  BY TickType DEF ClockInv
<1>2. \A w \in Workers : WorkerInv(w)'
  BY TickWorkerKeeps
<1>3. Recovery'
  <2> SUFFICES ASSUME DeadOwner' PROVE Recovery'
    BY DEF Recovery
  <2>1. /\ UNCHANGED <<state, owner, pc, skew, failed>>
        /\ left' = IF state = "RUNNING" /\ left > Floor THEN left - 1 ELSE left
        /\ dead_for' = IF DeadOwner THEN dead_for + 1 ELSE 0
        /\ sweeping = NoSweep => sweep # 0 /\ sweep' = sweep - 1 /\ sweeping' = sweeping
        /\ sweeping # NoSweep => sweeping' = sweeping + 1 /\ sweep' = sweep
    BY DEF tick, Urgent
  <2>2. DeadOwner /\ state = "RUNNING" /\ dead_for' = dead_for + 1
    BY <2>1 DEF DeadOwner
  <2>3. /\ left \in Int /\ dead_for \in Nat /\ sweep \in Nat /\ sweep <= 2 * Interval
        /\ failed \in Nat /\ skew \in Int /\ -Skew <= skew
        /\ sweeping \in Int /\ -1 <= sweeping
    BY <1>1, Settings DEF TypeInv
  <2>5. /\ Extra' = Extra /\ Extra \in Nat
        /\ failed >= 1 => Extra >= SlowSweep + 2 * Interval
    BY <2>1, <2>3, ExtraOf DEF Extra
  <2>6. Floor \in Int /\ Floor = -Skew - SlowSweep - 1 /\ Floor' = Floor
    BY Settings DEF Floor
  <2>7. left' > Floor => dead_for' + left' <= Lease
    <3>1. left > Floor => dead_for + left <= Lease
      BY <2>2 DEF ClockInv, Recovery
    <3> QED
      BY <2>1, <2>2, <2>3, <2>6, <3>1
  <2>8. CASE sweeping # NoSweep
    <3>1. sweeping' = sweeping + 1 /\ sweeping' # NoSweep
      BY <2>1, <2>3, <2>8 DEF NoSweep
    <3>2. ASSUME ExpiredAt(sweeping)' PROVE InTime(dead_for + SlowSweep - sweeping)'
      <4>1. ExpiredAt(sweeping)
        BY <2>1, <2>3, <3>1, <3>2 DEF ExpiredAt
      <4>2. InTime(dead_for + SlowSweep - sweeping)
        BY <2>2, <2>8, <4>1 DEF ClockInv, Recovery
      <4>3. (dead_for + SlowSweep - sweeping)' = dead_for + SlowSweep - sweeping
        BY <2>2, <2>3, <3>1, Settings
      <4> QED
        BY <2>1, <2>5, <4>2, <4>3 DEF InTime
    <3> QED
      BY <2>6, <2>7, <3>1, <3>2 DEF Recovery
  <2>9. CASE sweeping = NoSweep
    <3>1. sweep' = sweep - 1 /\ sweeping' = NoSweep /\ dead_for' + sweep' = dead_for + sweep
      BY <2>1, <2>2, <2>3, <2>9
    <3>2. ASSUME Expired PROVE Recovery'
      <4>1. InTime(dead_for + sweep + SlowSweep)
        BY <2>2, <2>9, <3>2 DEF ClockInv, Recovery
      <4>2. InTime(dead_for + sweep + SlowSweep)'
        BY <2>1, <2>5, <3>1, <4>1 DEF InTime
      <4>3. Expired'
        BY <2>1, <2>3, <3>2 DEF Expired
      <4> QED
        BY <2>6, <2>7, <3>1, <4>2, <4>3 DEF Recovery
    <3>3. ASSUME ~Expired PROVE Recovery'
      <4>1. left >= skew /\ left > Floor
        BY <2>3, <2>6, <3>3, Settings DEF Expired
      <4>2. /\ dead_for + left <= Lease
            /\ sweep <= Interval \/ failed >= 1 \/ dead_for + sweep <= 2 * Interval
        BY <2>2, <2>9, <3>3, <4>1 DEF ClockInv, Recovery
      <4>3. dead_for <= Lease - skew
        BY <2>3, <4>1, <4>2, Settings
      <4>4. InTime(dead_for + sweep + SlowSweep)
        <5> HIDE DEF Interval
        <5> QED
          BY <2>3, <2>5, <4>2, <4>3, Settings DEF InTime
      <4>5. InTime(dead_for + sweep + SlowSweep)'
        BY <2>1, <2>5, <3>1, <4>4 DEF InTime
      <4>6. sweep' <= Interval \/ failed' >= 1 \/ dead_for' + sweep' <= 2 * Interval
        BY <2>1, <2>3, <3>1, <4>2, Settings
      <4> QED
        BY <2>6, <2>7, <3>1, <4>5, <4>6 DEF Recovery
    <3> QED
      BY <3>2, <3>3
  <2> QED
    BY <2>8, <2>9
<1> QED
  BY <1>1, <1>2, <1>3 DEF ClockInv

-----------------------------------------------------------------------------
(* The theorems.                                                           *)

\* Nothing is claimed at first.
LEMMA ClockInit == Init => ClockInv
<1> SUFFICES ASSUME Init PROVE ClockInv
  OBVIOUS
<1>1. TypeInv
  BY Settings DEF Init, TypeInv, Places, Phases, Off, NoSweep
<1>2. ASSUME NEW w \in Workers PROVE WorkerInv(w)
  BY DEF Init, WorkerInv, BeatRuns, SickIsKnown, LeaseCovers, Owns, Off
<1>3. Recovery
  BY DEF Init, Recovery, DeadOwner
<1> QED
  BY <1>1, <1>2, <1>3 DEF ClockInv

\* Every step keeps the invariant.
LEMMA ClockNext == ClockInv /\ [Next]_vars => ClockInv'
<1> SUFFICES ASSUME ClockInv, [Next]_vars PROVE ClockInv'
  OBVIOUS
<1>1. CASE UNCHANGED vars
  <2>1. TypeInv'
    BY <1>1 DEF ClockInv, TypeInv, vars, row, worker, reaper
  <2>2. ASSUME NEW v \in Workers PROVE WorkerInv(v)'
    <3>1. WorkerInv(v) /\ SameWorker(v) /\ (Owns(v)' => Owns(v) /\ left' = left)
      BY <1>1 DEF ClockInv, SameWorker, Owns, vars, row, worker
    <3> QED
      BY <3>1, OthersKeep
  <2>3. UNCHANGED <<row, reaper, dead_for>> /\ (DeadOwner' => DeadOwner)
    BY <1>1 DEF vars, row, worker, DeadOwner
  <2>4. Recovery'
    BY <2>3, RecoveryQuiet DEF ClockInv
  <2> QED
    BY <2>1, <2>2, <2>4 DEF ClockInv
<1>2. ASSUME NEW w \in Workers,
             \/ claim_batch(w) \/ claim_commit(w) \/ claim_nothing(w) \/ start_task(w)
             \/ execute(w) \/ join(w) \/ join_timeout(w)
             \/ report(w, "DONE") \/ report(w, "READY") \/ report_rejected(w) \/ crash(w)
      PROVE  ClockInv'
  BY <1>2, ClaimingKeeps, ClaimKeeps, StartKeeps, ExecuteKeeps, JoinKeeps, ReportKeeps,
     CrashKeeps
<1>3. ASSUME NEW w \in Workers,
             \/ renew_begin(w) \/ renew_lease(w) \/ renew_lost(w) \/ renew_failed(w)
             \/ straggler_renews(w) \/ straggler_lost(w)
      PROVE  ClockInv'
  BY <1>3, RenewBeginKeeps, RenewKeeps, RenewLostKeeps, RenewFailedKeeps, StragglerKeeps
<1> QED
  BY <1>1, <1>2, <1>3, SweepBeginKeeps, ReapKeeps, SweepFailedKeeps, TickKeeps DEF Next

\* The invariant holds throughout.
LEMMA ClockAlways == Spec => []ClockInv
BY ClockInit, ClockNext, PTL DEF Spec

\* For every Lease, Beat, Latency and Skew that the validator and the budget
\* 2 * Beat + 3 * Latency + Skew <= Lease allow: a worker that met nothing slow, and
\* at most one failed renewal in a row, owns a lease that no reaper sees expired.
THEOREM HealthyKeeps == Spec => []HealthyKeepsLease
<1>1. ASSUME ClockInv PROVE HealthyKeepsLease
  <2> SUFFICES ASSUME NEW w \in Workers, Owns(w), ~sick[w],
                      pc[w] \in {"executing", "joining", "reporting"}
               PROVE  ~Expired
    BY DEF HealthyKeepsLease
  <2>1. TypeInv /\ BeatRuns(w) /\ SickIsKnown(w) /\ LeaseCovers(w)
    BY <1>1 DEF ClockInv, WorkerInv
  <2>2. /\ beat[w].phase \in Phases /\ beat[w].t \in Nat /\ timer[w] \in Nat
        /\ left \in Int /\ misses[w] \in {0, 1} /\ skew \in Int /\ skew <= Skew
    BY <2>1, Settings DEF TypeInv
  <2>3. Behind(w) \in Nat /\ Behind(w) <= 2 * Latency + Beat
    BY <2>2, Settings DEF Behind
  <2>4. left >= Lease - 3 * Latency - 2 * Beat
    <3>1. CASE beat[w].phase = "waiting"
      <4>1. left >= Lease - Behind(w) - beat[w].t /\ beat[w].t <= Beat
        BY <2>1, <3>1 DEF BeatRuns, LeaseCovers
      <4> QED
        BY <2>2, <2>3, <4>1, Settings
    <3>2. CASE beat[w].phase = "renewing"
      <4>1. left >= Lease - Behind(w) - Beat - beat[w].t /\ beat[w].t <= Latency
        BY <2>1, <3>2 DEF SickIsKnown, LeaseCovers
      <4> QED
        BY <2>2, <2>3, <4>1, Settings
    <3>3. CASE beat[w].phase = "off" /\ pc[w] = "joining"
      <4>1. left >= Lease - 2 * Latency - 2 * Beat
        BY <2>1, <3>3 DEF LeaseCovers
      <4> QED
        BY <2>2, <4>1, Settings
    <3>4. CASE pc[w] = "reporting"
      <4>1. left >= Lease - 2 * Latency - 2 * Beat - timer[w] /\ timer[w] <= Latency
        BY <2>1, <3>4 DEF SickIsKnown, LeaseCovers
      <4> QED
        BY <2>2, <4>1, Settings
    <3>5. ~(beat[w].phase = "off" /\ pc[w] = "executing")
      BY <2>1 DEF BeatRuns
    <3> QED
      BY <2>2, <3>1, <3>2, <3>3, <3>4, <3>5 DEF Phases
  <2> QED
    BY <2>2, <2>4, Settings DEF Expired
<1> QED
  BY <1>1, ClockAlways, PTL

\* For every number of workers and every setting, however long a sweep takes: the task of
\* a dead worker is back in the queue within the lease, two sweeps, an interval, and what
\* failed sweeps add.
THEOREM RecoveryInTime == Spec => []RecoveryBounded
<1>1. ASSUME ClockInv PROVE RecoveryBounded
  <2> SUFFICES ASSUME DeadOwner PROVE InTime(dead_for)
    BY DEF RecoveryBounded, InTime, Extra
  <2>1. /\ left \in Int /\ dead_for \in Nat /\ sweep \in Nat /\ failed \in Nat
        /\ skew \in Int /\ -Skew <= skew
        /\ sweeping \in Int /\ sweeping <= SlowSweep
    BY <1>1, Settings DEF ClockInv, TypeInv
  <2>2. Extra \in Nat
    BY <2>1, ExtraOf DEF Extra
  <2>3. CASE sweeping # NoSweep /\ ExpiredAt(sweeping)
    <3>1. InTime(dead_for + SlowSweep - sweeping)
      BY <1>1, <2>3 DEF ClockInv, Recovery
    <3> HIDE DEF Interval
    <3> QED
      BY <2>1, <2>2, <3>1, Settings DEF InTime
  <2>4. CASE sweeping # NoSweep /\ ~ExpiredAt(sweeping)
    <3>1. dead_for <= Lease - skew + SlowSweep
      BY <1>1, <2>4, TooEarly
    <3> HIDE DEF Interval
    <3> QED
      BY <2>1, <2>2, <3>1, Settings DEF InTime
  <2>5. CASE sweeping = NoSweep /\ Expired
    <3>1. InTime(dead_for + sweep + SlowSweep)
      BY <1>1, <2>5 DEF ClockInv, Recovery
    <3> HIDE DEF Interval
    <3> QED
      BY <2>1, <2>2, <3>1, Settings DEF InTime
  <2>6. CASE sweeping = NoSweep /\ ~Expired
    <3>1. left >= skew /\ left > Floor
      BY <2>1, <2>6, Settings DEF Expired, Floor
    <3>2. dead_for + left <= Lease
      BY <1>1, <3>1 DEF ClockInv, Recovery
    <3> HIDE DEF Interval
    <3> QED
      BY <2>1, <2>2, <3>1, <3>2, Settings DEF InTime
  <2> QED
    BY <2>3, <2>4, <2>5, <2>6
<1> QED
  BY <1>1, ClockAlways, PTL

\* A worker throws a result away only when the row is not its own any more.
THEOREM DiscardJustified == Spec => []DiscardIsJustified
<1>1. ClockInv => DiscardIsJustified
  BY DEF ClockInv, WorkerInv, BeatRuns, DiscardIsJustified
<1> QED
  BY <1>1, ClockAlways, PTL

-----------------------------------------------------------------------------
(* RowLocks.                                                               *)

Rows == Tasks \cup {Run}

\* A plan ends with the row of the run, or does not meet it.
RunComesLast(p) ==
    \A i \in 1..Len(p) : Run \in p[i] => i = Len(p) /\ p[i] = {Run}

\* A session without a transaction has no locks, waits for none and plans none.
Resting(c) == doing[c] = "none" => plan[c] = <<>> /\ held[c] = {} /\ want[c] = {}

\* It waits for at most one row, which its present statement has still to lock.
WaitsForOne(c) ==
    want[c] # {} => \E x \in Rows : want[c] = {x} /\ plan[c] # <<>> /\ x \in plan[c][1]

\* The row of the run is the last one locked.
RunIsLast(c) == RunComesLast(plan[c]) /\ (Run \in held[c] => plan[c] = <<>>)

\* A claim waits for nothing. A heartbeat has its only row still to lock, and then
\* holds none, or has nothing left to lock.
LightTransactions(c) ==
    /\ doing[c] = "claim" => want[c] = {}
    /\ doing[c] = "renew" => \/ plan[c] = <<>>
                             \/ held[c] = {} /\ \E x \in Tasks : plan[c] = <<{x}>>

LocksType ==
    /\ doing \in [Clients -> Kinds \cup {"none"}]
    /\ plan \in [Clients -> Seq(SUBSET Rows)]
    /\ held \in [Clients -> SUBSET Rows]
    /\ want \in [Clients -> SUBSET Rows]

ClientInv(c) == Resting(c) /\ WaitsForOne(c) /\ RunIsLast(c) /\ LightTransactions(c)

\* The inductive invariant.
LocksInv == LocksType /\ \A c \in Clients : ClientInv(c)

\* The statements of every transaction lock tasks first and the run, if at all,
\* last; those of a heartbeat lock one task.
LEMMA PlansAreOrdered ==
    ASSUME NEW kind \in Kinds, NEW p \in Plans(kind)
    PROVE  /\ p \in Seq(SUBSET Rows)
           /\ RunComesLast(p)
           /\ kind = "renew" => \E x \in Tasks : p = <<{x}>>
<1>0. Run \notin Tasks
  BY RowsAssumption
<1>1. ASSUME NEW xs \in SUBSET Tasks
      PROVE  <<xs>> \in Seq(SUBSET Rows) /\ RunComesLast(<<xs>>)
  BY <1>0, <1>1 DEF Rows, RunComesLast
<1>2. ASSUME NEW own \in SUBSET Tasks, NEW others \in Seq(SUBSET Tasks)
      PROVE  /\ WithRefresh(own, others) \in Seq(SUBSET Rows)
             /\ RunComesLast(WithRefresh(own, others))
  <2> DEFINE t == <<own>> \o others
             u == <<{Run}>>
             q == t \o u
  <2>1. <<own>> \in Seq(SUBSET Tasks)
    OBVIOUS
  <2>2. t \in Seq(SUBSET Tasks)
    BY <2>1, ConcatProperties, Zenon
  <2>3. t \in Seq(SUBSET Rows) /\ \A i \in 1..Len(t) : Run \notin t[i]
    BY <1>0, <2>2 DEF Rows
  <2>4. u \in Seq(SUBSET Rows) /\ Len(u) = 1 /\ u[1] = {Run}
    BY DEF Rows
  <2>5. q = WithRefresh(own, others)
    BY DEF WithRefresh
  <2> HIDE DEF t, u
  <2>6. /\ q \in Seq(SUBSET Rows)
        /\ Len(q) = Len(t) + Len(u)
        /\ \A i \in 1 .. Len(t) + Len(u) :
              q[i] = IF i <= Len(t) THEN t[i] ELSE u[i - Len(t)]
    <3>1. t \in Seq(SUBSET Rows)
      BY <2>3
    <3>2. u \in Seq(SUBSET Rows)
      BY <2>4
    <3> QED
      BY <3>1, <3>2, ConcatProperties, SMTT(30)
  <2> HIDE DEF q
  <2>7. ASSUME NEW i \in 1..Len(q), Run \in q[i]
        PROVE  i = Len(q) /\ q[i] = {Run}
    <3>1. Len(t) \in Nat
      BY <2>3
    <3>2. i \in 1..(Len(t) + 1)
      BY <2>4, <2>6
    <3>3. ~(i <= Len(t))
      BY <2>3, <2>4, <2>6, <2>7, <3>1, <3>2
    <3> QED
      BY <2>4, <2>6, <3>1, <3>2, <3>3
  <2> QED
    BY <2>5, <2>6, <2>7 DEF RunComesLast
<1>5. CASE kind = "report"
  <2>1. PICK x \in Tasks : p \in record_success_locks(x) \cup record_failure_locks(x)
    BY <1>5 DEF Plans
  <2>2. CASE p \in record_success_locks(x)
    <3>1. PICK cs \in SUBSET Tasks : p = WithRefresh({x}, <<cs>>)
      BY <2>2 DEF record_success_locks, ChildrenOf
    <3>2. <<cs>> \in Seq(SUBSET Tasks)
      OBVIOUS
    <3> QED
      BY <1>2, <1>5, <3>1, <3>2
  <2>3. CASE p \in record_failure_locks(x)
    <3>1. PICK layers \in [1..Depth -> SUBSET Tasks] : p = WithRefresh({x}, layers)
      BY <2>3 DEF record_failure_locks
    <3>2. layers \in Seq(SUBSET Tasks)
      BY RowsAssumption
    <3> QED
      BY <1>2, <1>5, <3>1, <3>2
  <2> QED
    BY <2>1, <2>2, <2>3
<1>6. CASE kind = "cancel"
  <2>1. PICK xs \in SUBSET Tasks : p = WithRefresh(xs, <<>>)
    BY <1>6 DEF Plans, cancel_locks
  <2>2. <<>> \in Seq(SUBSET Tasks)
    OBVIOUS
  <2> QED
    BY <1>2, <1>6, <2>1, <2>2
<1>7. CASE kind = "reap"
  BY <1>1, <1>7 DEF Plans, reap_expired_leases_locks
<1>8. CASE kind = "claim"
  BY <1>1, <1>8 DEF Plans, claim_batch_locks
<1>9. CASE kind = "renew"
  <2>1. PICK x \in Tasks : p = <<{x}>>
    BY <1>9 DEF Plans, renew_lease_locks
  <2> QED
    BY <1>1, <1>9, <2>1
<1> QED
  BY <1>5, <1>6, <1>7, <1>8, <1>9 DEF Kinds

\* Dropping the first statement of an ordered plan leaves an ordered plan.
LEMMA TailIsOrdered ==
    ASSUME NEW p \in Seq(SUBSET Rows), p # <<>>, RunComesLast(p)
    PROVE  /\ Tail(p) \in Seq(SUBSET Rows)
           /\ Len(Tail(p)) = Len(p) - 1
           /\ RunComesLast(Tail(p))
<1> DEFINE t == Tail(p)
           n == Len(p)
<1>1. /\ t \in Seq(SUBSET Rows)
      /\ Len(t) = n - 1
      /\ \A i \in 1..Len(t) : t[i] = p[i + 1]
  BY HeadTailProperties
<1>2. n \in Nat
  OBVIOUS
<1>3. \A i \in 1..n : Run \in p[i] => i = n /\ p[i] = {Run}
  BY DEF RunComesLast
<1> HIDE DEF t, n
<1>4. ASSUME NEW i \in 1..Len(t), Run \in t[i]
      PROVE  i = Len(t) /\ t[i] = {Run}
  <2>1. t[i] = p[i + 1]
    BY <1>1
  <2>2. i + 1 \in 1..n
    BY <1>1, <1>2
  <2>3. i + 1 = n /\ p[i + 1] = {Run}
    BY <1>3, <1>4, <2>1, <2>2
  <2> QED
    BY <1>1, <1>2, <2>1, <2>3
<1>5. RunComesLast(t)
  BY <1>4 DEF RunComesLast
<1> QED
  BY <1>1, <1>5 DEF t, n

\* What is left of an ordered plan once its first statement is done with x is
\* ordered, and is nothing when x is the row of the run.
LEMMA RestIsOrdered ==
    ASSUME NEW p \in Seq(SUBSET Rows), p # <<>>, RunComesLast(p), NEW x \in p[1],
           NEW r, r = Without(p, x)
    PROVE  /\ r \in Seq(SUBSET Rows)
           /\ RunComesLast(r)
           /\ x = Run => r = <<>>
<1>1. Len(p) \in Nat /\ Len(p) > 0 /\ p[1] \in SUBSET Rows
  OBVIOUS
<1>2. ASSUME x = Run PROVE p[1] = {x} /\ Len(p) = 1
  <2>1. 1 \in 1..Len(p)
    BY <1>1
  <2>2. Run \in p[1]
    BY <1>2
  <2>3. 1 = Len(p) /\ p[1] = {Run}
    BY <2>1, <2>2 DEF RunComesLast
  <2> QED
    BY <1>2, <2>3
<1>3. CASE p[1] = {x}
  <2>1. r = Tail(p)
    BY <1>3 DEF Without
  <2>2. r \in Seq(SUBSET Rows) /\ Len(r) = Len(p) - 1 /\ RunComesLast(r)
    BY <2>1, TailIsOrdered
  <2>3. ASSUME x = Run PROVE r = <<>>
    <3>1. Len(r) = 0
      BY <1>2, <2>2, <2>3
    <3> QED
      BY <2>2, <3>1, EmptySeq
  <2> QED
    BY <2>2, <2>3
<1>4. CASE p[1] # {x}
  <2> DEFINE e == p[1] \ {x}
  <2>1. r = [p EXCEPT ![1] = e] /\ x # Run
    BY <1>2, <1>4 DEF Without
  <2>2. e \in SUBSET Rows /\ 1 \in 1..Len(p)
    BY <1>1
  <2>3. e \subseteq p[1]
    OBVIOUS
  <2> HIDE DEF e
  <2>4. /\ r \in Seq(SUBSET Rows)
        /\ Len(r) = Len(p)
        /\ \A j \in 1..Len(p) : r[j] = IF j = 1 THEN e ELSE p[j]
    <3>1. p \in [1..Len(p) -> SUBSET Rows]
      OBVIOUS
    <3>2. r \in [1..Len(p) -> SUBSET Rows]
      BY <2>1, <2>2, <3>1
    <3>3. r \in Seq(SUBSET Rows) /\ Len(r) = Len(p)
      BY <1>1, <3>2
    <3>4. \A j \in 1..Len(p) : r[j] = IF j = 1 THEN e ELSE p[j]
      BY <2>1, <2>2, <3>1
    <3> QED
      BY <3>3, <3>4
  <2>5. ASSUME NEW i \in 1..Len(r), Run \in r[i]
        PROVE  i = Len(r) /\ r[i] = {Run}
    <3>1. i \in 1..Len(p) /\ Run \in p[i]
      BY <2>3, <2>4, <2>5
    <3>2. i = Len(p) /\ p[i] = {Run}
      BY <3>1 DEF RunComesLast
    <3>3. CASE i = 1
      BY <2>3, <2>4, <2>5, <3>1, <3>2, <3>3
    <3>4. CASE i # 1
      BY <2>4, <3>1, <3>2, <3>4
    <3> QED
      BY <3>3, <3>4
  <2> QED
    BY <2>1, <2>4, <2>5 DEF RunComesLast
<1> QED
  BY <1>3, <1>4

\* What a step of one session leaves of the others.
Alone(c) ==
    \A d \in Clients \ {c} :
        doing'[d] = doing[d] /\ plan'[d] = plan[d] /\ held'[d] = held[d] /\ want'[d] = want[d]

\* The invariant speaks of one session at a time, so a step has to keep that of the
\* session that takes it.
LEMMA OneSession ==
    ASSUME LocksInv, NEW c \in Clients, LocksType', Alone(c), ClientInv(c)'
    PROVE  LocksInv'
<1>1. ASSUME NEW d \in Clients, d # c PROVE ClientInv(d)'
  <2>1. /\ doing'[d] = doing[d] /\ plan'[d] = plan[d]
        /\ held'[d] = held[d] /\ want'[d] = want[d]
    BY <1>1 DEF Alone
  <2>2. ClientInv(d)
    BY DEF LocksInv
  <2> QED
    BY <2>1, <2>2 DEF ClientInv, Resting, WaitsForOne, RunIsLast, LightTransactions
<1> QED
  BY <1>1 DEF LocksInv

\* A transaction begins with an ordered plan, and from rest.
LEMMA BeginKeeps ==
    ASSUME LocksInv, NEW c \in Clients, begin(c)
    PROVE  LocksInv'
<1>0. PICK kind \in makes[c] :
         /\ doing' = [doing EXCEPT ![c] = kind]
         /\ plan' \in {[plan EXCEPT ![c] = q] : q \in Plans(kind)}
  BY DEF begin
<1>1. PICK p \in Plans(kind) : plan' = [plan EXCEPT ![c] = p]
  BY <1>0
<1>2. kind \in Kinds /\ kind # "none"
  BY RowsAssumption DEF Kinds
<1>3. /\ p \in Seq(SUBSET Rows)
      /\ RunComesLast(p)
      /\ kind = "renew" => \E x \in Tasks : p = <<{x}>>
  BY <1>2, PlansAreOrdered
<1>4. held' = held /\ want' = want /\ held[c] = {} /\ want[c] = {}
  BY DEF begin, LocksInv, ClientInv, Resting
<1>5. doing'[c] = kind /\ plan'[c] = p
  BY <1>0, <1>1 DEF LocksInv, LocksType
<1>6. LocksType'
  BY <1>0, <1>1, <1>2, <1>3, <1>4 DEF LocksInv, LocksType
<1>7. Alone(c)
  BY <1>0, <1>1, <1>4 DEF Alone, LocksInv, LocksType
<1>8. ClientInv(c)'
  BY <1>2, <1>3, <1>4, <1>5
     DEF ClientInv, Resting, WaitsForOne, RunIsLast, LightTransactions
<1> QED
  BY <1>6, <1>7, <1>8, OneSession

\* The row a session turns to is in its present statement.
LEMMA AheadIsPlanned ==
    ASSUME LocksInv, NEW c \in Clients, NEW x \in Ahead(c)
    PROVE  /\ plan[c] \in Seq(SUBSET Rows) /\ plan[c] # <<>> /\ x \in plan[c][1]
           /\ x \in Rows
           /\ RunComesLast(plan[c])
           /\ Run \notin held[c]
           /\ doing[c] \in Kinds
<1>1. /\ plan[c] \in Seq(SUBSET Rows)
      /\ Resting(c) /\ WaitsForOne(c) /\ RunIsLast(c)
      /\ doing[c] \in Kinds \cup {"none"}
  BY DEF LocksInv, LocksType, ClientInv
<1>2. plan[c] # <<>> /\ x \in plan[c][1]
  BY <1>1 DEF Ahead, WaitsForOne
<1>3. x \in Rows
  BY <1>1, <1>2
<1> QED
  BY <1>1, <1>2, <1>3 DEF Resting, RunIsLast

\* Going past a row, with its lock or without, keeps the plan ordered; the row of the
\* run is passed last, and the row of a heartbeat is its only one.
LEMMA RestKeeps ==
    ASSUME LocksInv, NEW c \in Clients, NEW x \in Ahead(c), plan' = Rest(c, x)
    PROVE  /\ plan' \in [Clients -> Seq(SUBSET Rows)]
           /\ \A d \in Clients \ {c} : plan'[d] = plan[d]
           /\ RunComesLast(plan'[c])
           /\ x = Run => plan'[c] = <<>>
           /\ doing[c] = "renew" => plan'[c] = <<>>
<1> DEFINE p == plan[c]
           r == Without(p, x)
<1>1. p \in Seq(SUBSET Rows) /\ p # <<>> /\ x \in p[1] /\ RunComesLast(p)
  BY AheadIsPlanned
<1>2. plan \in [Clients -> Seq(SUBSET Rows)]
  BY DEF LocksInv, LocksType
<1>3. plan' = [plan EXCEPT ![c] = r]
  BY DEF Rest
<1>4. r \in Seq(SUBSET Rows) /\ RunComesLast(r) /\ (x = Run => r = <<>>)
  BY <1>1, RestIsOrdered
<1>5. ASSUME doing[c] = "renew" PROVE r = <<>>
  <2>1. PICK y \in Tasks : p = <<{y}>>
    BY <1>1, <1>5 DEF LocksInv, ClientInv, LightTransactions
  <2>2. p[1] = {x}
    BY <1>1, <2>1
  <2>3. r = Tail(<<{y}>>)
    BY <2>1, <2>2 DEF Without
  <2> QED
    BY <2>3
<1> HIDE DEF r
<1> QED
  BY <1>2, <1>3, <1>4, <1>5

\* A row is locked.
LEMMA LockKeeps ==
    ASSUME LocksInv, NEW c \in Clients, NEW x \in Rows, lock(c, x)
    PROVE  LocksInv'
<1>1. /\ x \in Ahead(c) /\ plan' = Rest(c, x) /\ doing' = doing
      /\ held' = [held EXCEPT ![c] = @ \cup {x}]
      /\ want' = [want EXCEPT ![c] = {}]
  BY DEF lock
<1>2. /\ plan' \in [Clients -> Seq(SUBSET Rows)]
      /\ \A d \in Clients \ {c} : plan'[d] = plan[d]
      /\ RunComesLast(plan'[c])
      /\ x = Run => plan'[c] = <<>>
      /\ doing[c] = "renew" => plan'[c] = <<>>
  BY <1>1, RestKeeps
<1>3. Run \notin held[c] /\ doing[c] \in Kinds
  BY <1>1, AheadIsPlanned
<1>4. held'[c] = held[c] \cup {x} /\ want'[c] = {} /\ doing'[c] = doing[c]
  BY <1>1 DEF LocksInv, LocksType
<1>5. LocksType'
  BY <1>1, <1>2 DEF LocksInv, LocksType
<1>6. Alone(c)
  BY <1>1, <1>2 DEF Alone, LocksInv, LocksType
<1>7. ClientInv(c)'
  BY <1>2, <1>3, <1>4
     DEF ClientInv, Resting, WaitsForOne, RunIsLast, LightTransactions, Kinds
<1> QED
  BY <1>5, <1>6, <1>7, OneSession

\* A claim goes past a row that another transaction has locked.
LEMMA SkipKeeps ==
    ASSUME LocksInv, NEW c \in Clients, NEW x \in Rows, skip(c, x)
    PROVE  LocksInv'
<1>1. /\ x \in Ahead(c) /\ plan' = Rest(c, x) /\ UNCHANGED <<doing, held, want>>
      /\ doing[c] = "claim"
  BY DEF skip, SkipsLocked
<1>2. /\ plan' \in [Clients -> Seq(SUBSET Rows)]
      /\ \A d \in Clients \ {c} : plan'[d] = plan[d]
      /\ RunComesLast(plan'[c])
  BY <1>1, RestKeeps
<1>3. Run \notin held[c]
  BY <1>1, AheadIsPlanned
<1>4. want[c] = {}
  BY <1>1 DEF LocksInv, ClientInv, LightTransactions
<1>5. LocksType'
  BY <1>1, <1>2 DEF LocksInv, LocksType
<1>6. Alone(c)
  BY <1>1, <1>2 DEF Alone
<1>7. ClientInv(c)'
  BY <1>1, <1>2, <1>3, <1>4
     DEF ClientInv, Resting, WaitsForOne, RunIsLast, LightTransactions
<1> QED
  BY <1>5, <1>6, <1>7, OneSession

\* Any other transaction waits for it, and it is never a claim that does.
LEMMA WaitKeeps ==
    ASSUME LocksInv, NEW c \in Clients, NEW x \in Rows, wait(c, x)
    PROVE  LocksInv'
<1>1. /\ x \in Ahead(c) /\ UNCHANGED <<doing, plan, held>>
      /\ doing[c] # "claim"
      /\ want' = [want EXCEPT ![c] = {x}]
  BY DEF wait, SkipsLocked
<1>2. plan[c] # <<>> /\ x \in plan[c][1] /\ doing[c] \in Kinds
  BY <1>1, AheadIsPlanned
<1>3. ClientInv(c)
  BY DEF LocksInv
<1>4. want'[c] = {x}
  BY <1>1 DEF LocksInv, LocksType
<1>5. LocksType'
  BY <1>1 DEF LocksInv, LocksType
<1>6. Alone(c)
  BY <1>1 DEF Alone, LocksInv, LocksType
<1>7. WaitsForOne(c)'
  BY <1>1, <1>2, <1>4 DEF WaitsForOne
<1>8. Resting(c)' /\ RunIsLast(c)' /\ LightTransactions(c)'
  BY <1>1, <1>2, <1>3 DEF ClientInv, Resting, RunIsLast, LightTransactions, Kinds
<1> QED
  BY <1>5, <1>6, <1>7, <1>8, OneSession DEF ClientInv

\* A statement that matches no row locks none.
LEMMA NothingKeeps ==
    ASSUME LocksInv, NEW c \in Clients, match_nothing(c)
    PROVE  LocksInv'
<1>1. /\ plan[c] # <<>> /\ plan[c][1] = {} /\ plan' = [plan EXCEPT ![c] = Tail(@)]
      /\ UNCHANGED <<doing, held, want>>
  BY DEF match_nothing
<1>2. ClientInv(c) /\ plan \in [Clients -> Seq(SUBSET Rows)]
  BY DEF LocksInv, LocksType
<1>3. Tail(plan[c]) \in Seq(SUBSET Rows) /\ RunComesLast(Tail(plan[c]))
  BY <1>1, <1>2, TailIsOrdered DEF ClientInv, RunIsLast
<1>4. plan'[c] = Tail(plan[c]) /\ plan' \in [Clients -> Seq(SUBSET Rows)]
  BY <1>1, <1>2, <1>3
<1>5. want[c] = {} /\ Run \notin held[c] /\ doing[c] # "none"
  BY <1>1, <1>2 DEF ClientInv, Resting, WaitsForOne, RunIsLast
<1>6. doing[c] # "renew"
  <2> SUFFICES ASSUME doing[c] = "renew" PROVE FALSE
    OBVIOUS
  <2>1. PICK y \in Tasks : plan[c] = <<{y}>>
    BY <1>1, <1>2 DEF ClientInv, LightTransactions
  <2> QED
    BY <1>1, <2>1
<1>7. LocksType'
  BY <1>1, <1>4 DEF LocksInv, LocksType
<1>8. Alone(c)
  BY <1>1, <1>2 DEF Alone
<1>9. ClientInv(c)'
  BY <1>1, <1>3, <1>4, <1>5, <1>6
     DEF ClientInv, Resting, WaitsForOne, RunIsLast, LightTransactions
<1> QED
  BY <1>7, <1>8, <1>9, OneSession

\* The end of a transaction gives back everything.
LEMMA EndKeeps ==
    ASSUME LocksInv, NEW c \in Clients, End(c)
    PROVE  LocksInv'
<1>1. /\ doing' = [doing EXCEPT ![c] = "none"] /\ plan' = [plan EXCEPT ![c] = <<>>]
      /\ held' = [held EXCEPT ![c] = {}] /\ want' = [want EXCEPT ![c] = {}]
  BY DEF End
<1>2. doing'[c] = "none" /\ plan'[c] = <<>> /\ held'[c] = {} /\ want'[c] = {}
  BY <1>1 DEF LocksInv, LocksType
<1>3. LocksType'
  BY <1>1 DEF LocksInv, LocksType
<1>4. Alone(c)
  BY <1>1 DEF Alone, LocksInv, LocksType
<1>5. ClientInv(c)'
  BY <1>2 DEF ClientInv, Resting, WaitsForOne, RunIsLast, LightTransactions, RunComesLast
<1> QED
  BY <1>3, <1>4, <1>5, OneSession

\* The invariant holds throughout.
LEMMA LocksAlways == LocksSpec => []LocksInv
<1>1. LocksInit => LocksInv
  BY DEF LocksInit, LocksInv, LocksType, ClientInv, Resting, WaitsForOne, RunIsLast,
         LightTransactions, RunComesLast
<1>2. LocksInv /\ [LocksNext]_lock_vars => LocksInv'
  <2> SUFFICES ASSUME LocksInv, [LocksNext]_lock_vars PROVE LocksInv'
    OBVIOUS
  <2>1. CASE UNCHANGED lock_vars
    BY <2>1 DEF lock_vars, LocksInv, LocksType, ClientInv, Resting, WaitsForOne, RunIsLast,
                LightTransactions
  <2>2. ASSUME NEW c \in Clients, begin(c) PROVE LocksInv'
    BY <2>2, BeginKeeps
  <2>3. ASSUME NEW c \in Clients, match_nothing(c) PROVE LocksInv'
    BY <2>3, NothingKeeps
  <2>4. ASSUME NEW c \in Clients, commit(c) \/ rollback(c) PROVE LocksInv'
    BY <2>4, EndKeeps DEF commit, rollback
  <2>5. ASSUME NEW c \in Clients, NEW x \in Tasks \cup {Run},
               lock(c, x) \/ skip(c, x) \/ wait(c, x)
        PROVE  LocksInv'
    BY <2>5, LockKeeps, SkipKeeps, WaitKeeps DEF Rows
  <2> QED
    BY <2>1, <2>2, <2>3, <2>4, <2>5 DEF LocksNext
<1> QED
  BY <1>1, <1>2, PTL DEF LocksSpec

\* For any number of sessions and any graph: no circle of waits goes through the
\* row of the run. refresh_run_state is the last statement of a report and of a
\* cancellation, so who has locked that row waits for nothing.
THEOREM RunRowSafe == LocksSpec => []RunRowIsSafe
<1>1. ASSUME LocksInv PROVE RunRowIsSafe
  <2> SUFFICES ASSUME NEW c \in Clients, InCircle(c), Run \in want[c]
               PROVE  FALSE
    BY DEF RunRowIsSafe
  <2>1. PICK S \in SUBSET Clients :
           c \in S /\ \A d \in S : \E e \in S : WaitsFor(d, e)
    BY DEF InCircle
  <2>2. PICK e \in S : WaitsFor(c, e)
    BY <2>1
  <2>3. want[c] = {Run}
    BY <1>1 DEF LocksInv, ClientInv, WaitsForOne
  <2>4. Run \in held[e]
    BY <2>2, <2>3 DEF WaitsFor
  <2>5. plan[e] = <<>> /\ want[e] = {}
    BY <1>1, <2>4 DEF LocksInv, ClientInv, RunIsLast, WaitsForOne
  <2> QED
    BY <2>1, <2>5 DEF WaitsFor
<1> QED
  BY <1>1, LocksAlways, PTL

\* For any number of sessions and any graph: a claim and a heartbeat are never in a
\* circle of waits. FOR UPDATE SKIP LOCKED never waits, and a renewal has no lock
\* when it does.
THEOREM LightTransactionsSafe == LocksSpec => []ClaimsAndHeartbeatsAreSafe
<1>1. ASSUME LocksInv PROVE ClaimsAndHeartbeatsAreSafe
  <2> SUFFICES ASSUME NEW c \in Clients, InCircle(c), doing[c] \in {"claim", "renew"}
               PROVE  FALSE
    BY DEF ClaimsAndHeartbeatsAreSafe
  <2>1. PICK S \in SUBSET Clients :
           /\ c \in S
           /\ \A d \in S : (\E e \in S : WaitsFor(d, e)) /\ (\E e \in S : WaitsFor(e, d))
    BY DEF InCircle
  <2>2. want[c] # {} /\ held[c] # {}
    BY <2>1 DEF WaitsFor
  <2>3. WaitsForOne(c) /\ LightTransactions(c)
    BY <1>1 DEF LocksInv, ClientInv
  <2> QED
    BY <2>2, <2>3 DEF WaitsForOne, LightTransactions
<1> QED
  BY <1>1, LocksAlways, PTL
=============================================================================
