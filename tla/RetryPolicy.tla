---------------------------- MODULE RetryPolicy ----------------------------
(***************************************************************************)
(* conductor/core/retry.py: a retry specification, from the request that   *)
(* names it (RetryPolicySpec of api/schemas.py, or a caller inside the     *)
(* service, who may write anything) through build_policy to the delays a   *)
(* failing task gets. One behaviour follows one specification. Delays are  *)
(* whole ticks.                                                            *)
(***************************************************************************)
EXTENDS Integers, Functions

CONSTANTS
    Types,              \* values of "type": the wire names and others
    Amounts,            \* values of delay, base, factor and max_delay
    Attempts,           \* values of max_attempts
    Unset,              \* the value of an option that is not given
    MAX_DELAY_SECONDS,
    ExponentCap         \* the code's 64

ASSUME AmountsAssumption ==
    /\ Amounts \subseteq Int /\ Attempts \subseteq Int
    /\ {MAX_DELAY_SECONDS, ExponentCap} \subseteq Nat

VARIABLES
    request,    \* what was asked for, with Unset options
    policy,     \* the policy object, Unbuilt, or Rejected by a ValueError
    attempt,    \* attempts that have failed
    delay       \* what next_delay returned last

retry_vars == <<request, policy, attempt, delay>>

Unbuilt == [type |-> "unbuilt"]
Rejected == [type |-> "rejected"]
NoDelay == -1       \* None

Request ==
    [type : Types \cup {Unset}, max_attempts : Attempts \cup {Unset},
     delay : Amounts \cup {Unset}, base : Amounts \cup {Unset},
     factor : Amounts \cup {Unset}, max_delay : Amounts \cup {Unset},
     jitter : BOOLEAN \cup {Unset}]

-----------------------------------------------------------------------------
(* Building a policy.                                                      *)

\* The dataclass fields with their defaults, by wire name.
Fields ==
    [none        |-> [x \in {} |-> 0],
     fixed       |-> [delay |-> 5, attempts |-> 3],
     exponential |-> [base |-> 1, factor |-> 2, attempts |-> 5, max_delay |-> 300,
                      jitter |-> TRUE]]

\* to_spec drops the options that are not set.
to_spec(q) == Restrict(q, {f \in DOMAIN q : q[f] # Unset})

\* The keyword arguments: all but the type, max_attempts under its field's name.
Argument(f) == IF f = "max_attempts" THEN "attempts" ELSE f

Kwargs(spec) ==
    LET given == DOMAIN spec \ {"type"}
    IN  [a \in {Argument(f) : f \in given} |->
           spec[CHOOSE f \in given : Argument(f) = a]]

\* A mistake: an option the type does not have is passed over.
HasUnknownIgnored(kind, kwargs) == FALSE

HasUnknown(kind, kwargs) == ~(DOMAIN kwargs \subseteq DOMAIN Fields[kind])

\* A mistake: the factor only has to be no less than 0.
ValidExponentialAnyFactor(p) ==
    p.attempts >= 1 /\ p.base >= 0 /\ p.factor >= 0 /\ p.max_delay > 0

\* __post_init__ of the two classes.
ValidFixed(p) == p.attempts >= 1 /\ p.delay >= 0
ValidExponential(p) ==
    p.attempts >= 1 /\ p.base >= 0 /\ p.factor >= 1 /\ p.max_delay > 0

Valid(kind, p) ==
    CASE kind = "fixed" -> ValidFixed(p)
      [] kind = "exponential" -> ValidExponential(p)
      [] OTHER -> TRUE

Constructed(kind, kwargs) ==
    [f \in DOMAIN Fields[kind] \cup {"type"} |->
        IF f = "type" THEN kind
        ELSE IF f \in DOMAIN kwargs THEN kwargs[f] ELSE Fields[kind][f]]

\* str(...).lower(); Types has one name that is not in lower case.
lower(name) == IF name = "Fixed" THEN "fixed" ELSE name

build_policy(spec) ==
    LET kind   == IF "type" \in DOMAIN spec THEN lower(spec.type) ELSE "exponential"
        kwargs == Kwargs(spec)
    IN  IF kind \notin DOMAIN Fields THEN Rejected
        ELSE IF HasUnknown(kind, kwargs) THEN Rejected
        ELSE IF ~Valid(kind, Constructed(kind, kwargs)) THEN Rejected
        ELSE Constructed(kind, kwargs)

-----------------------------------------------------------------------------
(* Using it.                                                               *)

MaxAttempts(p) == IF p.type = "none" THEN 1 ELSE p.attempts

should_retry(p, n) == n < MaxAttempts(p)

\* b ** 0 up to b ** 64.
Powers(b) ==
    LET power[e \in 0..ExponentCap] == IF e = 0 THEN 1 ELSE b * power[e - 1]
    IN  power

AtMost(a, b) == IF a <= b THEN a ELSE b

\* The backoff before jitter.
Raw(p, n) == AtMost(p.base * Powers(p.factor)[AtMost(n - 1, ExponentCap)], p.max_delay)

\* The values compute_delay may return: full jitter draws from 0 to raw.
compute_delay(p, n) ==
    CASE p.type = "fixed" -> {p.delay}
      [] p.type = "exponential" /\ p.jitter -> 0..Raw(p, n)
      [] p.type = "exponential" /\ ~p.jitter -> {Raw(p, n)}

next_delay(p, n) ==
    IF should_retry(p, n)
      THEN {AtMost(IF d < 0 THEN 0 ELSE d, MAX_DELAY_SECONDS) : d \in compute_delay(p, n)}
      ELSE {NoDelay}

RetryStart == policy = Unbuilt /\ attempt = 0 /\ delay = NoDelay

RetryInit == request \in Request /\ RetryStart

\* create validates every specification before the workflow is stored.
publish ==
    /\ policy = Unbuilt
    /\ policy' = build_policy(to_spec(request))
    /\ UNCHANGED <<request, attempt, delay>>

\* record_failure asks for the next delay, and gives up without one.
fail ==
    /\ policy \notin {Unbuilt, Rejected}
    /\ attempt = 0 \/ delay # NoDelay
    /\ attempt' = attempt + 1
    /\ delay' \in next_delay(policy, attempt + 1)
    /\ UNCHANGED <<request, policy>>

RetryNext == publish \/ fail

RetrySpec == RetryInit /\ [][RetryNext]_retry_vars

-----------------------------------------------------------------------------
(* Properties.                                                             *)

\* No option is silently lost between the request and the retries: a task whose
\* request names max_attempts fails that many times, no fewer and no more, before
\* next_delay gives up, and a type that has no such field is refused.
BudgetIsAsked ==
    attempt # 0 /\ request.max_attempts # Unset =>
        (delay = NoDelay <=> attempt >= request.max_attempts)

\* Of a policy that was accepted, each delay without jitter is at least the one
\* before it, also where the exponent or the delay reaches its cap.
BackoffNeverShrinks ==
    [][fail /\ delay # NoDelay /\ delay' # NoDelay =>
         delay' >= delay \/ (policy.type = "exponential" /\ policy.jitter)]_retry_vars
=============================================================================
