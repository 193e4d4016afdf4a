---------------------------- MODULE RateLimiter ----------------------------
(***************************************************************************)
(* conductor/core/ratelimit.py, as the rate_limit dependency of api/deps.py*)
(* uses it: check() runs in the threads of the server's pool, without a    *)
(* lock. CPython switches threads only at calls, so the code between two   *)
(* calls is one step. One key is followed, since keys share nothing.       *)
(*                                                                         *)
(* Tokens are counted in units: a request costs Cost units, and Refill     *)
(* units accrue per tick, so that fractions of a token occur.              *)
(***************************************************************************)
EXTENDS Integers

CONSTANTS
    Threads,
    Capacity,   \* capacity, in units
    Cost,       \* the cost of a request, in units
    Refill,     \* refill_rate, in units per tick
    IdleTtl,    \* idle_ttl
    RateTime,   \* bound: the clock stops here
    None

\* What the constructors and try_acquire insist on.
ASSUME BucketAssumption ==
    /\ {Capacity, Cost, Refill, IdleTtl, RateTime} \subseteq Nat
    /\ 1 <= Cost /\ Cost <= Capacity
    /\ Refill > 0
    /\ None \notin Threads

VARIABLES
    now,        \* the monotonic clock
    bucket,     \* _buckets.get(key): the bucket, named by its creator, or None
    tokens,     \* _tokens of each bucket
    updated_at, \* _updated_at of each bucket
    last_seen,  \* _last_seen[key]
    place,      \* of each thread: where it is in check
    mine,       \* of each thread: the bucket it holds
    read,       \* of each thread: what _refill's clock call returned
    accrued,    \* of each thread: the new number of tokens, before it is stored
    allowed,    \* the last decision
    credit,     \* history: a bucket that a timer refills, debited with the code's
    blurred,    \* history: two checks, or a check and a tick, overlapped
    doubled,    \* history: two buckets were made at once
    promise,    \* history: when the last refused client was told to come back
    entitled    \* history: the thread that checks alone after that wait, or None

clock == <<now, credit, blurred, doubled>>
shared == <<bucket, tokens, updated_at, last_seen>>
local == <<mine, read, accrued>>
told == <<allowed, promise, entitled>>
rate_vars == <<clock, shared, place, local, told>>

\* More was granted than there was; how much more is not counted.
Overdrawn == -1

NoPromise == [at |-> 0, deficit |-> -1]

AtMostFull(n) == IF n <= Capacity THEN n ELSE Capacity

Idle == \A t \in Threads : place[t] = "idle"

Others(t) == \E u \in Threads \ {t} : place[u] # "idle"

RateInit ==
    /\ now = 0
    /\ bucket = None
    /\ tokens = [t \in Threads |-> Capacity]
    /\ updated_at = [t \in Threads |-> 0]
    /\ last_seen = 0
    /\ place = [t \in Threads |-> "idle"]
    /\ mine = [t \in Threads |-> None]
    /\ read = [t \in Threads |-> 0]
    /\ accrued = [t \in Threads |-> 0]
    /\ allowed = TRUE
    /\ credit = Capacity
    /\ blurred = FALSE
    /\ doubled = FALSE
    /\ promise = NoPromise
    /\ entitled = None

Goto(t, there) == place' = [place EXCEPT ![t] = there]

\* The wait that was promised is over.
PromiseDue == promise # NoPromise /\ (now - promise.at) * Refill >= promise.deficit

-----------------------------------------------------------------------------
(* check(), and try_acquire and _refill inside it.                         *)

\* self._buckets.get(key).
check(t) ==
    /\ place[t] = "idle"
    /\ mine' = [mine EXCEPT ![t] = bucket]
    /\ Goto(t, IF bucket = None THEN "creating" ELSE "seen")
    /\ blurred' = (blurred \/ Others(t))
    /\ entitled' = IF PromiseDue /\ ~Others(t) THEN t ELSE None
    /\ promise' = NoPromise
    /\ UNCHANGED <<now, credit, doubled, shared, read, accrued, allowed>>

\* TokenBucket.__init__, up to its reading of the clock.
new_bucket(t) ==
    /\ place[t] = "creating"
    /\ tokens' = [tokens EXCEPT ![t] = Capacity]
    /\ updated_at' = [updated_at EXCEPT ![t] = now]
    /\ Goto(t, "created")
    /\ UNCHANGED <<clock, bucket, last_seen, local, told>>

\* self._buckets[key] = bucket, whatever is there by now.
install(t) ==
    /\ place[t] = "created"
    /\ bucket' = t
    /\ mine' = [mine EXCEPT ![t] = t]
    /\ doubled' = (doubled \/ bucket # None)
    /\ Goto(t, "seen")
    /\ UNCHANGED <<now, credit, blurred, tokens, updated_at, last_seen, read, accrued, told>>

see(t) ==
    /\ place[t] = "seen"
    /\ last_seen' = now
    /\ Goto(t, "reading")
    /\ UNCHANGED <<clock, bucket, tokens, updated_at, local, told>>

\* now = self._clock().
read_clock(t) ==
    /\ place[t] = "reading"
    /\ read' = [read EXCEPT ![t] = now]
    /\ Goto(t, "refilling")
    /\ UNCHANGED <<clock, shared, mine, accrued, told>>

\* A mistake: retry_after is cut to whole ticks.
DeficitWhole(n) == ((Cost - n) \div Refill) * Refill

\* What retry_after times the rate is.
Deficit(n) == Cost - n

\* The decision on a bucket b that holds n tokens: no call, so one step.
Decide(t, b, n, stamp) ==
    /\ tokens' = [tokens EXCEPT ![b] = IF n >= Cost THEN n - Cost ELSE n]
    /\ updated_at' = [updated_at EXCEPT ![b] = stamp]
    /\ allowed' = (n >= Cost)
    /\ credit' = IF n < Cost THEN credit
                 ELSE IF credit >= Cost THEN credit - Cost ELSE Overdrawn
    /\ promise' = IF n >= Cost \/ Others(t) THEN NoPromise
                  ELSE [at |-> now, deficit |-> Deficit(n)]
    /\ Goto(t, "idle")
    /\ mine' = [mine EXCEPT ![t] = None]
    /\ read' = [read EXCEPT ![t] = 0]
    /\ accrued' = [accrued EXCEPT ![t] = 0]
    /\ UNCHANGED <<now, blurred, doubled, bucket, last_seen, entitled>>

\* A mistake: only whole tokens accrue, and the fraction is forgotten.
AccruedWhole(n, elapsed) == AtMostFull(n + ((elapsed * Refill) \div Cost) * Cost)

Accrued(n, elapsed) == AtMostFull(n + elapsed * Refill)

Elapsed(t) == read[t] - updated_at[mine[t]]

\* elapsed <= 0: another thread has stored a later reading, or no time has passed.
no_refill(t) ==
    /\ place[t] = "refilling"
    /\ Elapsed(t) <= 0
    /\ Decide(t, mine[t], tokens[mine[t]], updated_at[mine[t]])

\* The call of min, with what the bucket holds now.
refill(t) ==
    /\ place[t] = "refilling"
    /\ Elapsed(t) > 0
    /\ accrued' = [accrued EXCEPT ![t] = Accrued(tokens[mine[t]], Elapsed(t))]
    /\ Goto(t, "storing")
    /\ UNCHANGED <<clock, shared, mine, read, told>>

\* The stores, over whatever others have stored meanwhile, and the decision.
acquire(t) ==
    /\ place[t] = "storing"
    /\ Decide(t, mine[t], accrued[t], read[t])

-----------------------------------------------------------------------------

\* Nothing in the service calls evict_idle; a caller would do so between checks.
evict_idle ==
    /\ Idle
    /\ bucket # None
    /\ last_seen < now - IdleTtl
    /\ bucket' = None
    /\ UNCHANGED <<clock, tokens, updated_at, last_seen, place, local, told>>

tick ==
    /\ now < RateTime
    /\ now' = now + 1
    /\ credit' = IF credit = Overdrawn THEN Overdrawn ELSE AtMostFull(credit + Refill)
    /\ blurred' = (blurred \/ \E t \in Threads : place[t] \in {"reading", "refilling", "storing"})
    /\ UNCHANGED <<doubled, shared, place, local, told>>

RateNext ==
    \/ \E t \in Threads :
         \/ check(t) \/ new_bucket(t) \/ install(t) \/ see(t) \/ read_clock(t)
         \/ no_refill(t) \/ refill(t) \/ acquire(t)
    \/ evict_idle
    \/ tick

RateSpec == RateInit /\ [][RateNext]_rate_vars

-----------------------------------------------------------------------------
(* Properties.                                                             *)

\* "The bucket is lazy", and "a fully-refilled bucket is indistinguishable from a
\* brand new one": while checks come one at a time, what the limiter would grant is
\* what a bucket refilled by a timer holds, through evictions and recreations. So it
\* admits at most a burst of the capacity and the accrued rate in any interval.
LazyIsExact ==
    ~blurred /\ Idle /\ IdleTtl * Refill >= Capacity =>
        credit = IF bucket = None THEN Capacity
                 ELSE AtMostFull(tokens[bucket] + (now - updated_at[bucket]) * Refill)

\* "Telling a client exactly when to come back": the next request of a key, made
\* after the wait a refusal named, is allowed. Threads that race for one bucket
\* err only in the client's favour; two buckets made at once are excepted.
RetryAfterIsHonest ==
    \A t \in Threads :
        entitled = t /\ place[t] = "idle" /\ ~doubled => allowed

-----------------------------------------------------------------------------
(* What a comment says, and the code does not do.                          *)

\* "While still bounding the sustained rate": the debit of one thread is lost when
\* another stores a sum it computed before.
RateIsBounded == credit # Overdrawn
=============================================================================
