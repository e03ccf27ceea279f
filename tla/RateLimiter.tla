------------------------------ MODULE RateLimiter ------------------------------
(***************************************************************************)
(* The token bucket of one client address: IPRateLimiter (internal/        *)
(* middleware/ratelimit.go).  A request first takes the address's bucket   *)
(* out of the map, under the mutex, then asks that bucket for a token: the *)
(* bucket it asks may have been dropped from the map in between.           *)
(*                                                                         *)
(* CleanupPeriodically drops every bucket, not only idle ones; nothing in  *)
(* the repository starts it, so the map only grows.  A bucket itself is    *)
(* golang.org/x/time/rate's, refilled a token at a time up to its burst.   *)
(***************************************************************************)
EXTENDS Requests

CONSTANTS
    Burst,    \* the bucket's size
    Buckets,  \* 1, 2, ...: buckets the address may get, one more than cleanups
    Refills   \* refills of a bucket: the bound on how long it is observed

ASSUME RateLimiterAssumption ==
    /\ Burst \in Nat /\ Refills \in Nat
    /\ Buckets \subseteq Nat \ {0}

VARIABLES
    current,  \* the bucket the map holds for the address, 0 for none
    bucket    \* the tokens each bucket has, was given and has admitted

limiterTables == <<current, bucket>>
limiterVars == <<requests, limiterTables>>

Bucket == [made : BOOLEAN, tokens : Nat, refilled : Nat, admitted : Nat]

NoBucket == [made |-> FALSE, tokens |-> 0, refilled |-> 0, admitted |-> 0]

RateLimiterInit ==
    /\ RequestsInit
    /\ current = 0
    /\ bucket = [b \in Buckets |-> NoBucket]

\* get, under the mutex: one bucket for the address, made full.
GetBucket(w) ==
    /\ Idle(w)
    /\ \/ /\ current # 0
          /\ Hold(w, "limiter.allow", current)
          /\ UNCHANGED limiterTables
       \/ /\ current = 0
          /\ \E b \in Buckets :
                /\ ~bucket[b].made
                /\ bucket' = [bucket EXCEPT ![b] = [NoBucket EXCEPT !.made = TRUE,
                                                                    !.tokens = Burst]]
                /\ current' = b
                /\ Hold(w, "limiter.allow", b)

\* As if the bucket could go one token below none.
AllowOnCredit(w) ==
    /\ At(w, "limiter.allow")
    /\ LET b == loc[w] IN
       bucket' = IF bucket[b].tokens < 0 THEN bucket
                 ELSE [bucket EXCEPT ![b].tokens = @ - 1, ![b].admitted = @ + 1]
    /\ Finish(w)
    /\ UNCHANGED current

\* Allow, of the bucket that was taken out: without a token the request is
\* answered 429.
Allow(w) ==
    /\ At(w, "limiter.allow")
    /\ LET b == loc[w] IN
       bucket' = IF bucket[b].tokens = 0 THEN bucket
                 ELSE [bucket EXCEPT ![b].tokens = @ - 1, ![b].admitted = @ + 1]
    /\ Finish(w)
    /\ UNCHANGED current

\* A token's worth of time passes for a bucket, in use or dropped.
Refill(b) ==
    /\ bucket[b].made /\ bucket[b].tokens < Burst
    /\ bucket[b].refilled < Refills
    /\ bucket' = [bucket EXCEPT ![b].tokens = @ + 1, ![b].refilled = @ + 1]
    /\ UNCHANGED <<requests, current>>

\* CleanupPeriodically's tick
Cleanup ==
    /\ current # 0
    /\ \E b \in Buckets : ~bucket[b].made
    /\ current' = 0
    /\ UNCHANGED <<requests, bucket>>

RateLimiterNext ==
    \/ \E w \in setting.workers : GetBucket(w) \/ Allow(w)
    \/ \E b \in Buckets : Refill(b)
    \/ Cleanup

RateLimiterSpec == RateLimiterInit /\ [][RateLimiterNext]_limiterVars

-------------------------------------------------------------------------------
(* Properties                                                              *)

\* The map holds a bucket that was made, and a worker one it once held.
RateLimiterTypeOK ==
    /\ bucket \in [Buckets -> Bucket]
    /\ current = 0 \/ (current \in Buckets /\ bucket[current].made)
    /\ \A w \in setting.workers :
        \/ pc[w] = "idle" /\ loc[w] = Nothing
        \/ pc[w] = "limiter.allow" /\ loc[w] \in Buckets /\ bucket[loc[w]].made

\* "limits requests per client IP using a token bucket" (ratelimit.go:14): with
\* any number of requests between get and Allow, and cleanups in between, a
\* bucket admits no more than its burst and what time has given it since.
AdmittedWithinBudget ==
    \A b \in Buckets : bucket[b].admitted <= Burst + bucket[b].refilled
===============================================================================
