---------------------------- MODULE RateLimiter ----------------------------
(***************************************************************************)
(* RateLimiterManager and TokenBucket of src/pqc_bench/gateway/ratelimit.py*)
(* for one identifier: every identifier has a bucket of its own, and no    *)
(* operation but reset touches two.                                        *)
(*                                                                         *)
(* time.time() is the wall clock, which may be set back, so each reading   *)
(* is any time.  Rates, capacities and times are integers where the code   *)
(* has floats: tokens then stay integers, with the same comparisons.  The  *)
(* one division, of retry_after, stays a numerator and a denominator.      *)
(***************************************************************************)
EXTENDS Integers

CONSTANTS Limits,        \* [rate, capacity] pairs set_tenant_limit and set_ip_limit are given
          Default,       \* default_rate and default_capacity
          Requests,      \* the numbers of tokens asked for
          Time,          \* readings of the wall clock
          MaxSpent,      \* bound of the tokens granted since the limits changed
          MaxDebt,       \* bound of the tokens a clock set back takes below zero
          None           \* Python's None

Limit == [rate : Nat, capacity : Nat]
ASSUME LimitsAssumption == Limits \subseteq Limit /\ Default \in Limit
ASSUME NumbersAssumption == Requests \subseteq Nat /\ Time \subseteq Int /\ {MaxSpent, MaxDebt} \subseteq Nat
ASSUME NoneAssumption == None \notin Limit

Bucket == [rate : Nat, capacity : Nat, tokens : Int, last_refill : Time]
ASSUME NoBucketAssumption == None \notin Bucket

VARIABLES bucket,          \* buckets[identifier], None if absent
          tenant_limit,    \* tenant_limits[identifier]
          ip_limit,        \* ip_limits[identifier]
          spent,           \* tokens granted since the bucket's limits changed
          asked,           \* every request since then: when, and spent before it
          granted,         \* every grant since then: when, and spent with it
          promise          \* what the last answer said of trying again

vars == <<bucket, tenant_limit, ip_limit, spent, asked, granted, promise>>

Asked == [at : Time, before : Nat]
Granted == [at : Time, after : Nat]
Promise == [tokens : Nat, at : Time, retry_after : [num : Int, den : Nat]]
ASSUME NoPromiseAssumption == None \notin Promise

TypeOK == /\ bucket \in Bucket \cup {None}
          /\ tenant_limit \in Limits \cup {None}
          /\ ip_limit \in Limits \cup {None}
          /\ spent \in Nat
          /\ asked \subseteq Asked
          /\ granted \subseteq Granted
          /\ promise \in Promise \cup {None}

Init == /\ bucket = None
        /\ tenant_limit = None
        /\ ip_limit = None
        /\ spent = 0
        /\ asked = {}
        /\ granted = {}
        /\ promise = None

-----------------------------------------------------------------------------
(* TokenBucket.                                                            *)

AtMost(n, limit) == IF n <= limit THEN n ELSE limit

NewBucket(l, now) == [rate |-> l.rate, capacity |-> l.capacity,
                      tokens |-> l.capacity, last_refill |-> now]

\* The tokens at some time, less than before if the clock was set back.
Available(b, now) == AtMost(b.tokens + (now - b.last_refill) * b.rate, b.capacity)

\* Mutant: the time of the last refill is never moved.
RefillWithoutTime(b, now) == [b EXCEPT !.tokens = Available(b, now)]

Refill(b, now) == [b EXCEPT !.tokens = Available(b, now), !.last_refill = now]

Grants(b, n) == b.tokens >= n

\* Mutant: what is missing is rounded down.
NeededRounded(b, n, later) == n - Available(b, later) - 1

\* What a refused request is short of, in get_info's reading of the tokens.
Needed(b, n, later) == n - Available(b, later)

\* The seconds a refusal answers: 0.0 for a bucket that is never refilled.
RetryAfter(rate, needed) == IF rate > 0 THEN [num |-> needed, den |-> rate] ELSE [num |-> 0, den |-> 1]

-----------------------------------------------------------------------------
(* RateLimiterManager.                                                     *)

SetTenantLimit(l) == /\ tenant_limit' = l
                     /\ UNCHANGED <<bucket, ip_limit, spent, asked, granted, promise>>

SetIpLimit(l) == /\ ip_limit' = l
                 /\ UNCHANGED <<bucket, tenant_limit, spent, asked, granted, promise>>

\* The limit a check applies; None leaves a bucket with the limits it has.
CustomLimit(is_tenant) == IF is_tenant THEN tenant_limit ELSE ip_limit

\* A bucket whose limits changed keeps its tokens up to the new capacity.
Update(b, l) == [b EXCEPT !.rate = l.rate, !.capacity = l.capacity,
                          !.tokens = AtMost(b.tokens, l.capacity)]

Changed(b, l) == b.rate # l.rate \/ b.capacity # l.capacity

\* _get_or_create_bucket
Current(custom, created) ==
  IF bucket = None
  THEN NewBucket(IF custom = None THEN Default ELSE custom, created)
  ELSE IF custom # None /\ Changed(bucket, custom) THEN Update(bucket, custom) ELSE bucket

\* A bucket that is new or has new limits starts the account of what it grants.
Restarts(custom) == bucket = None \/ (custom # None /\ Changed(bucket, custom))

\* check_rate_limit: the clock is read when a bucket is made, when it is
\* refilled and when the answer is computed.
CheckRateLimit(is_tenant, n, created, now, later) ==
  LET custom == CustomLimit(is_tenant)
      refilled == Refill(Current(custom, created), now)
      allowed == Grants(refilled, n)
      before == IF Restarts(custom) THEN 0 ELSE spent
      taken == IF allowed THEN [refilled EXCEPT !.tokens = @ - n] ELSE refilled
  IN  /\ before + n <= MaxSpent /\ Available(taken, later) >= -MaxDebt
      /\ bucket' = taken
      /\ spent' = IF allowed THEN before + n ELSE before
      /\ asked' = (IF Restarts(custom) THEN {} ELSE asked) \cup {[at |-> now, before |-> before]}
      /\ granted' = (IF Restarts(custom) THEN {} ELSE granted)
                      \cup {[at |-> now, after |-> before + n] : g \in {TRUE} \cap {allowed}}
      /\ promise' = IF allowed THEN None
                    ELSE [tokens |-> n, at |-> later,
                          retry_after |-> RetryAfter(taken.rate, Needed(taken, n, later))]
      /\ UNCHANGED <<tenant_limit, ip_limit>>

Reset == /\ bucket' = None
         /\ tenant_limit' = None
         /\ ip_limit' = None
         /\ spent' = 0
         /\ asked' = {}
         /\ granted' = {}
         /\ promise' = None

Next == \/ \E l \in Limits : SetTenantLimit(l) \/ SetIpLimit(l)
        \/ \E is_tenant \in BOOLEAN, n \in Requests, now, later \in Time :
             \E created \in IF bucket = None THEN Time ELSE {now} :
               CheckRateLimit(is_tenant, n, created, now, later)
        \/ Reset

Spec == Init /\ [][Next]_vars

-----------------------------------------------------------------------------
(* Properties.                                                             *)

\* In any window that starts with a request and ends with a grant, no more
\* is granted than the capacity and what the rate yields over the window,
\* wherever the clock jumps to meanwhile.
RateConforms ==
  \A a \in asked, g \in granted : g.after > a.before =>
    g.after - a.before <= bucket.capacity + bucket.rate * (g.at - a.at)

\* A bucket never holds more than it may, also after its limits are lowered.
WithinCapacity == bucket # None => bucket.tokens <= bucket.capacity

\* The last refusal's retry_after is over.
Waited(now) == (now - promise.at) * promise.retry_after.den >= promise.retry_after.num

\* The bucket can ever hold n tokens again.
Servable(n) == n <= bucket.capacity /\ bucket.rate > 0

\* What retry_after is worth.  Who asks again for no more tokens, under the
\* same limits and with no other request in between, once retry_after is over,
\* is served, if the bucket refills and can hold as many.  Else the answer
\* misleads: a bucket that never refills says 0.0, not to wait at all, and
\* the request is refused again however long the caller waits, as is one
\* above the capacity, for which the code computes a time all the same.
RetryAfterHonest ==
  [][\A is_tenant \in BOOLEAN, n \in Requests, now, later \in Time :
       /\ promise # None /\ ~Restarts(CustomLimit(is_tenant))
       /\ CheckRateLimit(is_tenant, n, now, now, later)
       => /\ n <= promise.tokens /\ Waited(now) /\ Servable(n) => promise' = None
          /\ n >= promise.tokens /\ ~Servable(n) => promise' # None
          /\ bucket.rate = 0 => Waited(promise.at)]_vars
=============================================================================
