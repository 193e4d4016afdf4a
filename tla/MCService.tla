----------------------------- MODULE MCService -----------------------------
(***************************************************************************)
(* What the API process does for its clients, one part in each behaviour:  *)
(* subject is "submission" (publishing workflows and starting runs),       *)
(* "limiter" (the rate limit of one key) or "listing" (the pages of runs). *)
(* They share no variable, so their interleavings would add no case.       *)
(***************************************************************************)
EXTENDS Submission, RateLimiter, RunListing, TLC

CONSTANTS newest, second    \* bodies: the latest version, or version 2

Wanted == newest :> 0 @@ second :> 2

VARIABLE subject

service_vars == <<subject, vars, rate_vars, list_vars>>

\* Requests of a kind, and threads, are interchangeable.
RequestSymmetry ==
    Permutations(Publishers) \cup Permutations(Submitters) \cup Permutations(Threads)

ServiceInit ==
    /\ subject \in {"submission", "limiter", "listing"}
    /\ IF subject = "submission" THEN Init
       ELSE /\ key = [q \in Submitters |-> NoKey]
            /\ body = [q \in Submitters |-> newest]
            /\ Start
    /\ RateInit
    /\ IF subject = "listing" THEN ListInit ELSE filtered = FALSE /\ ListStart

ServiceNext ==
    \/ subject = "submission" /\ Next /\ UNCHANGED <<subject, rate_vars, list_vars>>
    \/ subject = "limiter" /\ RateNext /\ UNCHANGED <<subject, vars, list_vars>>
    \/ subject = "listing" /\ ListNext /\ UNCHANGED <<subject, vars, rate_vars>>

ServiceSpec == ServiceInit /\ [][ServiceNext]_service_vars
=============================================================================
