--------------------------- MODULE Gateway_proofs ---------------------------
(***************************************************************************)
(* The two gatekeepers.  A bucket grants no more than its capacity and     *)
(* rate allow over any window, and who waits as long as a refusal said is  *)
(* served if the bucket can serve at all and refused again if it cannot,   *)
(* for any limits, requests and clock.  Whoever is let in by a key or a    *)
(* token holds a role that was granted, and a user's key and token agree,  *)
(* for any tenants, keys, users and grants.                                *)
(***************************************************************************)
EXTENDS RateLimiter, GatewayAuth, TLAPS

-----------------------------------------------------------------------------
(* The rate limiter.  What makes its promise inductive is a potential: the *)
(* tokens that are left plus those granted since a request never exceed    *)
(* what that request's window allows, whichever way the clock went.        *)

\* The tokens left and those granted since request a.
Potential(a) == bucket.tokens + (spent - a.before)

BucketInv ==
  bucket # None =>
    /\ bucket.tokens <= bucket.capacity
    /\ \A a \in asked :
         /\ a.before <= spent
         /\ Potential(a) <= bucket.capacity + bucket.rate * (bucket.last_refill - a.at)
    /\ \A g \in granted : g.after <= spent

LimiterInv == /\ TypeOK
              /\ BucketInv
              /\ bucket = None => asked = {} /\ granted = {}
              /\ RateConforms

\* The rate over two consecutive intervals, of either sign.
LEMMA Windows ==
  ASSUME NEW r \in Nat, NEW u \in Int, NEW v \in Int, NEW w \in Int
  PROVE  /\ r * (u - v) + r * (v - w) = r * (u - w)
         /\ r * (u - v) \in Int
OBVIOUS

LEMMA AtMostBounds ==
  ASSUME NEW n \in Int, NEW limit \in Int
  PROVE  AtMost(n, limit) \in Int /\ AtMost(n, limit) <= n /\ AtMost(n, limit) <= limit
BY DEF AtMost

\* Refilling a bucket caps its tokens and moves its time.
LEMMA RefillBounds ==
  ASSUME NEW b \in Bucket, NEW now \in Time
  PROVE  /\ Refill(b, now) \in Bucket
         /\ Refill(b, now).rate = b.rate /\ Refill(b, now).capacity = b.capacity
         /\ Refill(b, now).last_refill = now
         /\ Refill(b, now).tokens <= b.capacity
         /\ Refill(b, now).tokens <= b.tokens + b.rate * (now - b.last_refill)
<1>1. /\ b.tokens \in Int /\ b.rate \in Nat /\ b.capacity \in Nat
      /\ now \in Int /\ b.last_refill \in Int
  BY NumbersAssumption DEF Bucket
<1> DEFINE yield == (now - b.last_refill) * b.rate
<1>2. yield \in Int /\ yield = b.rate * (now - b.last_refill)
  BY <1>1
<1> HIDE DEF yield
<1>3. /\ Available(b, now) \in Int /\ Available(b, now) <= b.capacity
      /\ Available(b, now) <= b.tokens + yield
  <2>1. Available(b, now) = AtMost(b.tokens + yield, b.capacity)
    BY DEF Available, yield
  <2>2. b.tokens + yield \in Int /\ b.capacity \in Int
    BY <1>1, <1>2
  <2>3. /\ AtMost(b.tokens + yield, b.capacity) \in Int
        /\ AtMost(b.tokens + yield, b.capacity) <= b.tokens + yield
        /\ AtMost(b.tokens + yield, b.capacity) <= b.capacity
    BY <2>2, AtMostBounds
  <2> QED BY <2>1, <2>3
<1>4. /\ Refill(b, now).tokens = Available(b, now)
      /\ Refill(b, now).rate = b.rate /\ Refill(b, now).capacity = b.capacity
      /\ Refill(b, now).last_refill = now
      /\ Refill(b, now) \in Bucket
  BY <1>3 DEF Refill, Bucket
<1> QED BY <1>2, <1>3, <1>4

\* The bucket a check works on.
LEMMA CurrentType ==
  ASSUME TypeOK, NEW is_tenant \in BOOLEAN, NEW created \in Time
  PROVE  /\ Current(CustomLimit(is_tenant), created) \in Bucket
         /\ ~Restarts(CustomLimit(is_tenant)) =>
              bucket # None /\ Current(CustomLimit(is_tenant), created) = bucket
<1> DEFINE custom == CustomLimit(is_tenant)
<1>1. custom \in Limit \cup {None} /\ Default \in Limit /\ bucket \in Bucket \cup {None}
  BY LimitsAssumption DEF CustomLimit, TypeOK
<1> HIDE DEF custom
<1>2. \A l \in Limit : NewBucket(l, created) \in Bucket
  BY DEF NewBucket, Bucket, Limit
<1>3. ASSUME NEW l \in Limit, NEW b \in Bucket PROVE Update(b, l) \in Bucket
  <2>1. AtMost(b.tokens, l.capacity) \in Int
    BY AtMostBounds DEF Bucket, Limit
  <2> QED BY <2>1 DEF Update, Bucket, Limit
<1>4. Current(custom, created) \in Bucket
  BY <1>1, <1>2, <1>3 DEF Current
<1>5. ~Restarts(custom) => bucket # None /\ Current(custom, created) = bucket
  BY DEF Restarts, Current
<1> QED BY <1>4, <1>5 DEF custom

LEMMA CheckStep ==
  ASSUME LimiterInv, NEW is_tenant \in BOOLEAN, NEW n \in Requests,
         NEW created \in Time, NEW now \in Time, NEW later \in Time,
         CheckRateLimit(is_tenant, n, created, now, later)
  PROVE  LimiterInv'
<1> DEFINE custom == CustomLimit(is_tenant)
           current == Current(custom, created)
           refilled == Refill(current, now)
           allowed == Grants(refilled, n)
           restarts == Restarts(custom)
           before == IF restarts THEN 0 ELSE spent
           taken == IF allowed THEN [refilled EXCEPT !.tokens = @ - n] ELSE refilled
           earlier == IF restarts THEN {} ELSE asked
           mark == [at |-> now, before |-> before]
           grant == [at |-> now, after |-> before + n]
<1>1. /\ bucket' = taken
      /\ spent' = IF allowed THEN before + n ELSE before
      /\ asked' = earlier \cup {mark}
      /\ granted' = (IF restarts THEN {} ELSE granted) \cup {grant : g \in {TRUE} \cap {allowed}}
      /\ promise' = IF allowed THEN None
                    ELSE [tokens |-> n, at |-> later,
                          retry_after |-> RetryAfter(taken.rate, Needed(taken, n, later))]
      /\ UNCHANGED <<tenant_limit, ip_limit>>
  BY DEF CheckRateLimit
<1>2. /\ current \in Bucket
      /\ ~restarts => bucket # None /\ current = bucket
  BY CurrentType DEF LimiterInv
<1> HIDE DEF custom, current, restarts
<1>3. /\ refilled \in Bucket
      /\ refilled.rate = current.rate /\ refilled.capacity = current.capacity
      /\ refilled.last_refill = now
      /\ refilled.tokens <= current.capacity
      /\ refilled.tokens <= current.tokens + current.rate * (now - current.last_refill)
  BY <1>2, RefillBounds
<1>4. allowed <=> refilled.tokens >= n
  BY DEF Grants
<1> HIDE DEF refilled, allowed
<1>5. /\ n \in Nat /\ now \in Int /\ spent \in Nat /\ before \in Nat
      /\ asked \subseteq Asked /\ granted \subseteq Granted
      /\ refilled.tokens \in Int /\ refilled.rate \in Nat /\ refilled.capacity \in Nat
  BY <1>3, NumbersAssumption DEF LimiterInv, TypeOK, Bucket
<1>6. /\ taken \in Bucket
      /\ taken.rate = refilled.rate /\ taken.capacity = refilled.capacity
      /\ taken.last_refill = now
      /\ taken.tokens = IF allowed THEN refilled.tokens - n ELSE refilled.tokens
  BY <1>3, <1>5 DEF Bucket
<1>7. bucket' # None
  BY <1>1, <1>6, NoBucketAssumption
<1> HIDE DEF taken
<1>8. spent' \in Nat /\ before <= spent' /\ taken.tokens + spent' = refilled.tokens + before
  BY <1>1, <1>5, <1>6
<1>9. mark \in Asked /\ mark.at = now /\ mark.before = before
  BY <1>5 DEF Asked
<1>10. grant \in Granted /\ grant.at = now /\ grant.after = before + n
  BY <1>5 DEF Granted
<1>11. before = IF restarts THEN 0 ELSE spent
  OBVIOUS
<1> HIDE DEF mark, grant, before
<1>12. granted' \subseteq granted \cup {grant} /\ (grant \in granted' \ granted => allowed)
       /\ (restarts => granted' \subseteq {grant}) /\ (~allowed /\ restarts => granted' = {})
       /\ (~allowed => granted' \subseteq granted)
  BY <1>1
<1>13. TypeOK'
  <2>1. asked' \subseteq Asked
    BY <1>1, <1>5, <1>9
  <2>2. granted' \subseteq Granted
    BY <1>5, <1>10, <1>12
  <2>3. promise' \in Promise \cup {None}
    <3>1. Needed(taken, n, later) \in Int
      <4>1. /\ taken.tokens \in Int /\ taken.rate \in Nat /\ taken.capacity \in Int
            /\ later \in Int /\ taken.last_refill \in Int
        BY <1>6, NumbersAssumption DEF Bucket
      <4>2. (later - taken.last_refill) * taken.rate \in Int
        BY <4>1
      <4>3. taken.tokens + (later - taken.last_refill) * taken.rate \in Int
        BY <4>1, <4>2
      <4>4. Available(taken, later) \in Int
        BY <4>1, <4>3, AtMostBounds DEF Available
      <4> QED BY <1>5, <4>4 DEF Needed
    <3>2. RetryAfter(taken.rate, Needed(taken, n, later)) \in [num : Int, den : Nat]
      BY <1>5, <1>6, <3>1 DEF RetryAfter
    <3> QED BY <1>1, <1>5, <3>2 DEF Promise
  <2> QED BY <1>1, <1>6, <1>8, <2>1, <2>2, <2>3 DEF LimiterInv, TypeOK
<1>14. ASSUME NEW a \in asked'
       PROVE  /\ a \in Asked /\ a.before \in Nat /\ a.at \in Int /\ a.before <= before
              /\ refilled.tokens + (before - a.before) <= refilled.capacity + refilled.rate * (now - a.at)
  <2>1. a \in Asked /\ a.before \in Nat /\ a.at \in Int
    BY <1>1, <1>5, <1>9, NumbersAssumption DEF Asked
  <2>2. CASE a = mark
    <3>1. refilled.rate * (now - a.at) = 0
      BY <1>5, <1>9, <2>2
    <3> QED BY <1>3, <1>5, <1>9, <2>1, <2>2, <3>1
  <2>3. CASE a \in asked /\ ~restarts
    <3>1. current = bucket /\ bucket # None /\ before = spent
      BY <1>2, <1>11, <2>3
    <3>2. /\ bucket.tokens \in Int /\ bucket.rate \in Nat /\ bucket.capacity \in Nat
          /\ bucket.last_refill \in Int
      BY <1>2, <3>1, NumbersAssumption DEF Bucket
    <3>3. bucket.tokens + (spent - a.before) <=
            bucket.capacity + bucket.rate * (bucket.last_refill - a.at)
      BY <2>3, <3>1 DEF LimiterInv, BucketInv, Potential
    <3> DEFINE p == bucket.rate * (now - bucket.last_refill)
               q == bucket.rate * (bucket.last_refill - a.at)
    <3>4. p \in Int /\ q \in Int /\ bucket.rate * (now - a.at) = p + q
      BY <1>5, <2>1, <3>2, Windows
    <3>5. refilled.tokens <= bucket.tokens + p
      BY <1>3, <3>1
    <3>6. bucket.tokens + (spent - a.before) <= bucket.capacity + q
      BY <3>3
    <3> HIDE DEF p, q
    <3>7. refilled.tokens + (spent - a.before) <= bucket.capacity + (p + q)
      BY <1>5, <2>1, <3>2, <3>4, <3>5, <3>6
    <3>8. a.before <= spent
      BY <2>3, <3>1 DEF LimiterInv, BucketInv
    <3> QED BY <1>3, <2>1, <3>1, <3>4, <3>7, <3>8
  <2> QED BY <1>1, <2>2, <2>3
<1>15. BucketInv'
  <2>1. bucket'.tokens <= bucket'.capacity
    BY <1>1, <1>3, <1>5, <1>6
  <2>2. ASSUME NEW a \in asked'
        PROVE  /\ a.before <= spent'
               /\ bucket'.tokens + (spent' - a.before) <=
                    bucket'.capacity + bucket'.rate * (bucket'.last_refill - a.at)
    <3>1. /\ a.before \in Nat /\ a.before <= before
          /\ refilled.tokens + (before - a.before) <= refilled.capacity + refilled.rate * (now - a.at)
      BY <1>14
    <3>2. taken.tokens \in Int
      BY <1>6 DEF Bucket
    <3>3. taken.tokens + (spent' - a.before) = refilled.tokens + (before - a.before)
      BY <1>5, <1>8, <3>1, <3>2
    <3>4. a.before <= spent'
      BY <1>5, <1>8, <3>1
    <3> QED BY <1>1, <1>6, <3>1, <3>3, <3>4
  <2>3. ASSUME NEW g \in granted' PROVE g.after <= spent'
    <3>1. CASE g = grant /\ allowed
      BY <1>1, <1>5, <1>10, <3>1
    <3>2. CASE g \in granted /\ ~restarts
      <4>1. g.after <= spent /\ before = spent /\ g.after \in Nat
        BY <1>2, <1>5, <1>11, <3>2 DEF LimiterInv, BucketInv, Granted
      <4> QED BY <1>5, <1>8, <4>1
    <3> QED BY <1>1, <3>1, <3>2
  <2> QED BY <2>1, <2>2, <2>3 DEF BucketInv, Potential
<1>16. RateConforms'
  <2> SUFFICES ASSUME NEW a \in asked', NEW g \in granted', g.after > a.before
               PROVE  g.after - a.before <= bucket'.capacity + bucket'.rate * (g.at - a.at)
    BY DEF RateConforms
  <2>1. CASE g = grant /\ allowed
    <3>1. /\ a.before \in Nat /\ a.at \in Int
          /\ refilled.tokens + (before - a.before) <= refilled.capacity + refilled.rate * (now - a.at)
      BY <1>14
    <3> DEFINE q == refilled.rate * (now - a.at)
    <3>2. q \in Int
      BY <1>5, <3>1, Windows
    <3>3. refilled.tokens + (before - a.before) <= refilled.capacity + q
      BY <3>1
    <3> HIDE DEF q
    <3>4. refilled.tokens >= n
      BY <1>4, <2>1
    <3>5. (before + n) - a.before <= refilled.capacity + q
      BY <1>5, <3>1, <3>2, <3>3, <3>4
    <3> QED BY <1>1, <1>6, <1>10, <2>1, <3>5 DEF q
  <2>2. CASE g \in granted /\ ~restarts
    <3>1. current = bucket /\ bucket # None /\ before = spent
      BY <1>2, <1>11, <2>2
    <3>2. g.after <= spent /\ g.after \in Nat
      BY <1>5, <2>2, <3>1 DEF LimiterInv, BucketInv, Granted
    <3>3. a # mark
      BY <1>5, <1>9, <3>1, <3>2
    <3>4. a \in asked
      BY <1>1, <2>2, <3>3
    <3>5. g.after - a.before <= bucket.capacity + bucket.rate * (g.at - a.at)
      BY <2>2, <3>4 DEF LimiterInv, RateConforms
    <3> QED BY <1>1, <1>3, <1>6, <3>1, <3>5
  <2> QED BY <1>1, <2>1, <2>2
<1> QED BY <1>7, <1>13, <1>15, <1>16 DEF LimiterInv

LEMMA LimiterInit == Init => LimiterInv
BY NoBucketAssumption DEF Init, LimiterInv, TypeOK, BucketInv, RateConforms

LEMMA LimiterStep == LimiterInv /\ [Next]_vars => LimiterInv'
<1> SUFFICES ASSUME LimiterInv, [Next]_vars PROVE LimiterInv'
  OBVIOUS
<1>1. ASSUME NEW l \in Limits, SetTenantLimit(l) \/ SetIpLimit(l) PROVE LimiterInv'
  <2>1. UNCHANGED <<bucket, spent, asked, granted, promise>>
    BY <1>1 DEF SetTenantLimit, SetIpLimit
  <2>2. TypeOK'
    BY <1>1, <2>1 DEF SetTenantLimit, SetIpLimit, LimiterInv, TypeOK
  <2>3. BucketInv' /\ RateConforms'
    BY <2>1 DEF LimiterInv, BucketInv, Potential, RateConforms
  <2> QED BY <2>1, <2>2, <2>3 DEF LimiterInv
<1>2. CASE Reset
  BY <1>2, NoBucketAssumption DEF Reset, LimiterInv, TypeOK, BucketInv, RateConforms
<1>3. CASE UNCHANGED vars
  BY <1>3 DEF vars, LimiterInv, TypeOK, BucketInv, Potential, RateConforms
<1> QED BY <1>1, <1>2, <1>3, CheckStep DEF Next

LEMMA LimiterAlways == Spec => []LimiterInv
BY LimiterInit, LimiterStep, PTL DEF Spec

\* The bucket, the limits and the account of the limiter stay typed.
THEOREM TypeCorrect == Spec => []TypeOK
<1>1. LimiterInv => TypeOK
  BY DEF LimiterInv
<1> QED BY <1>1, LimiterAlways, PTL

\* Over any window the limiter grants at most the capacity plus the yield of
\* the rate (TokenBucket.consume), for any limits and a clock that may jump.
THEOREM GrantsConform == Spec => []RateConforms
<1>1. LimiterInv => RateConforms
  BY DEF LimiterInv
<1> QED BY <1>1, LimiterAlways, PTL

\* Lowering a limit also takes the tokens above it (_get_or_create_bucket).
THEOREM CapacityHolds == Spec => []WithinCapacity
<1>1. LimiterInv => WithinCapacity
  BY DEF LimiterInv, BucketInv, WithinCapacity
<1> QED BY <1>1, LimiterAlways, PTL

-----------------------------------------------------------------------------
(* What a refusal promises.  The promise was computed from the bucket as   *)
(* the refused check left it, and no later step changes the bucket without *)
(* replacing the promise.                                                  *)

PromiseInv ==
  promise # None =>
    /\ bucket # None
    /\ bucket.tokens < promise.tokens
    /\ promise.retry_after = RetryAfter(bucket.rate, promise.tokens - Available(bucket, promise.at))

LEMMA PromiseInit == Init => PromiseInv
BY DEF Init, PromiseInv

LEMMA PromiseStep == LimiterInv /\ PromiseInv /\ [Next]_vars => PromiseInv'
<1> SUFFICES ASSUME LimiterInv, PromiseInv, [Next]_vars PROVE PromiseInv'
  OBVIOUS
<1>1. ASSUME NEW is_tenant \in BOOLEAN, NEW n \in Requests,
             NEW created \in Time, NEW now \in Time, NEW later \in Time,
             CheckRateLimit(is_tenant, n, created, now, later)
      PROVE  PromiseInv'
  <2> DEFINE refilled == Refill(Current(CustomLimit(is_tenant), created), now)
             taken == IF Grants(refilled, n) THEN [refilled EXCEPT !.tokens = @ - n] ELSE refilled
  <2>1. /\ bucket' = taken
        /\ promise' = IF Grants(refilled, n) THEN None
                      ELSE [tokens |-> n, at |-> later,
                            retry_after |-> RetryAfter(taken.rate, Needed(taken, n, later))]
    BY <1>1 DEF CheckRateLimit
  <2>2. refilled \in Bucket
    BY CurrentType, RefillBounds DEF LimiterInv
  <2> HIDE DEF refilled
  <2>3. ASSUME promise' # None PROVE PromiseInv'
    <3>1. /\ bucket' = refilled /\ ~Grants(refilled, n)
          /\ promise' = [tokens |-> n, at |-> later,
                         retry_after |-> RetryAfter(refilled.rate, Needed(refilled, n, later))]
      BY <2>1, <2>3
    <3>2. bucket' # None
      BY <2>2, <3>1, NoBucketAssumption
    <3>3. refilled.tokens < n
      BY <2>2, <3>1, NumbersAssumption DEF Grants, Bucket
    <3> QED BY <3>1, <3>2, <3>3 DEF PromiseInv, Needed
  <2> QED BY <2>3 DEF PromiseInv
<1>2. CASE Reset
  BY <1>2 DEF Reset, PromiseInv
<1>3. ASSUME UNCHANGED <<bucket, promise>> PROVE PromiseInv'
  BY <1>3 DEF PromiseInv, Available
<1> QED BY <1>1, <1>2, <1>3 DEF Next, vars, SetTenantLimit, SetIpLimit

\* A bucket that was short of some tokens at one time has them once its rate
\* yielded as many, unless they exceed its capacity.
LEMMA Yielded ==
  ASSUME NEW b \in Bucket, NEW at \in Time, NEW now \in Time, NEW n \in Int, NEW wanted \in Int,
         n <= wanted, n <= b.capacity,
         (now - at) * b.rate >= wanted - Available(b, at)
  PROVE  Available(b, now) >= n
<1> DEFINE since(t) == (t - b.last_refill) * b.rate
           yield == (now - at) * b.rate
<1>1. /\ b.tokens \in Int /\ b.rate \in Nat /\ b.capacity \in Nat /\ b.last_refill \in Int
      /\ at \in Int /\ now \in Int
  BY NumbersAssumption DEF Bucket
<1>2. since(now) = since(at) + yield /\ {since(now), since(at), yield} \subseteq Int
  BY <1>1, Windows
<1> DEFINE then == b.tokens + since(at)
<1>3. Available(b, at) = AtMost(then, b.capacity)
      /\ Available(b, now) = AtMost(b.tokens + since(now), b.capacity)
      /\ yield >= wanted - Available(b, at)
  BY DEF Available
<1>4. then \in Int /\ then = b.tokens + since(at)
  BY <1>1, <1>2
<1> HIDE DEF since, yield, then
<1>5. Available(b, at) \in Int /\ Available(b, at) <= then
  BY <1>1, <1>3, <1>4 DEF AtMost
<1>6. b.tokens + since(now) >= n
  BY <1>1, <1>2, <1>3, <1>4, <1>5
<1> QED BY <1>1, <1>2, <1>3, <1>6 DEF AtMost

\* A bucket that is never refilled has at no time more than it has, and no
\* bucket more than its capacity.
LEMMA NeverMore ==
  ASSUME NEW b \in Bucket, NEW now \in Time
  PROVE  /\ Available(b, now) \in Int
         /\ Available(b, now) <= b.capacity
         /\ b.rate = 0 => Available(b, now) <= b.tokens
<1>1. /\ b.tokens \in Int /\ b.rate \in Nat /\ b.capacity \in Nat
      /\ now \in Int /\ b.last_refill \in Int
  BY NumbersAssumption DEF Bucket
<1> DEFINE yield == (now - b.last_refill) * b.rate
<1>2. yield \in Int /\ (b.rate = 0 => yield = 0)
  BY <1>1
<1>3. Available(b, now) = AtMost(b.tokens + yield, b.capacity)
  BY DEF Available
<1>4. b.tokens + yield \in Int /\ b.capacity \in Int
  BY <1>1, <1>2
<1> HIDE DEF yield
<1>5. /\ AtMost(b.tokens + yield, b.capacity) \in Int
      /\ AtMost(b.tokens + yield, b.capacity) <= b.tokens + yield
      /\ AtMost(b.tokens + yield, b.capacity) <= b.capacity
  BY <1>4, AtMostBounds
<1> QED BY <1>1, <1>2, <1>3, <1>5

\* What a refusal's retry_after is worth (check_rate_limit, get_info), for any
\* limits, requests and readings of the clock.  A caller that waits as long,
\* with no other request in between, is served if the bucket refills and can
\* hold what it asks; if not, it is refused again whenever it comes, though a
\* bucket that never refills told it not to wait.
THEOREM RetryHonest == Spec => RetryAfterHonest
<1> DEFINE Kept == \A is_tenant \in BOOLEAN, n \in Requests, now, later \in Time :
                     /\ promise # None /\ ~Restarts(CustomLimit(is_tenant))
                     /\ CheckRateLimit(is_tenant, n, now, now, later)
                     => /\ n <= promise.tokens /\ Waited(now) /\ Servable(n) => promise' = None
                        /\ n >= promise.tokens /\ ~Servable(n) => promise' # None
                        /\ bucket.rate = 0 => Waited(promise.at)
<1>1. LimiterInv /\ PromiseInv => Kept
  <2> SUFFICES ASSUME LimiterInv, PromiseInv,
                      NEW is_tenant \in BOOLEAN, NEW n \in Requests,
                      NEW now \in Time, NEW later \in Time,
                      promise # None, ~Restarts(CustomLimit(is_tenant)),
                      CheckRateLimit(is_tenant, n, now, now, later)
               PROVE  /\ n <= promise.tokens /\ Waited(now) /\ Servable(n) => promise' = None
                      /\ n >= promise.tokens /\ ~Servable(n) => promise' # None
                      /\ bucket.rate = 0 => Waited(promise.at)
    OBVIOUS
  <2> DEFINE short == promise.tokens - Available(bucket, promise.at)
  <2>1. /\ bucket \in Bucket /\ Current(CustomLimit(is_tenant), now) = bucket
        /\ promise.tokens \in Nat /\ promise.at \in Time /\ n \in Nat
        /\ promise.retry_after = RetryAfter(bucket.rate, short)
        /\ bucket.tokens < promise.tokens
    BY CurrentType, NumbersAssumption DEF LimiterInv, TypeOK, Promise, PromiseInv
  <2>2. /\ bucket.rate \in Nat /\ bucket.capacity \in Nat /\ bucket.tokens \in Int
        /\ now \in Int /\ promise.at \in Int
    BY <2>1, NumbersAssumption DEF Bucket
  <2>3. Available(bucket, now) \in Int /\ Available(bucket, promise.at) \in Int
    BY <2>1, NeverMore
  <2>4. /\ Refill(bucket, now).tokens = Available(bucket, now)
        /\ Grants(Refill(bucket, now), n) <=> Available(bucket, now) >= n
    BY <2>1 DEF Refill, Grants, Bucket
  <2>5. promise' = None <=> Available(bucket, now) >= n
    <3> DEFINE refilled == Refill(bucket, now)
    <3>1. /\ Grants(refilled, n) => promise' = None
          /\ ~Grants(refilled, n) => promise' = [tokens |-> n, at |-> later,
                retry_after |-> RetryAfter(refilled.rate, Needed(refilled, n, later))]
      BY <2>1 DEF CheckRateLimit
    <3>2. refilled \in Bucket
      BY <2>1, RefillBounds
    <3> HIDE DEF refilled
    <3>3. Needed(refilled, n, later) \in Int /\ refilled.rate \in Nat
      BY <2>1, <3>2, NeverMore DEF Needed, Bucket
    <3>4. RetryAfter(refilled.rate, Needed(refilled, n, later)) \in [num : Int, den : Nat]
      BY <3>3 DEF RetryAfter
    <3>5. [tokens |-> n, at |-> later,
           retry_after |-> RetryAfter(refilled.rate, Needed(refilled, n, later))] # None
      BY <2>1, <3>4, NoPromiseAssumption DEF Promise
    <3> QED BY <2>4, <3>1, <3>5 DEF refilled
  <2>6. ASSUME n <= promise.tokens, Waited(now), Servable(n) PROVE promise' = None
    <3>1. bucket.rate > 0 /\ n <= bucket.capacity
      BY <2>6 DEF Servable
    <3>2. promise.retry_after.num = short /\ promise.retry_after.den = bucket.rate
      BY <2>1, <3>1 DEF RetryAfter
    <3>3. (now - promise.at) * bucket.rate >= promise.tokens - Available(bucket, promise.at)
      BY <2>6, <3>2 DEF Waited
    <3>4. n \in Int /\ promise.tokens \in Int
      BY <2>1
    <3>5. Available(bucket, now) >= n
      BY <2>1, <2>6, <3>1, <3>3, <3>4, Yielded
    <3> QED BY <2>5, <3>5
  <2>7. ASSUME n >= promise.tokens, ~Servable(n) PROVE promise' # None
    <3>1. CASE n > bucket.capacity
      <4>1. Available(bucket, now) <= bucket.capacity
        BY <2>1, NeverMore
      <4> QED BY <2>1, <2>2, <2>3, <2>5, <3>1, <4>1
    <3>2. CASE bucket.rate = 0
      <4>1. Available(bucket, now) <= bucket.tokens
        BY <2>1, <3>2, NeverMore
      <4> QED BY <2>1, <2>2, <2>3, <2>5, <2>7, <4>1
    <3> QED BY <2>1, <2>2, <2>7, <3>1, <3>2 DEF Servable
  <2>8. ASSUME bucket.rate = 0 PROVE Waited(promise.at)
    <3>1. promise.retry_after.num = 0 /\ promise.retry_after.den = 1
      BY <2>1, <2>8 DEF RetryAfter
    <3> QED BY <2>2, <3>1 DEF Waited
  <2> QED BY <2>6, <2>7, <2>8
<1>2. Spec => []PromiseInv
  BY PromiseInit, PromiseStep, LimiterAlways, PTL DEF Spec
<1>3. LimiterInv /\ PromiseInv /\ [Next]_vars => [Kept]_vars
  BY <1>1
<1> QED BY <1>2, <1>3, LimiterAlways, PTL DEF Spec, RetryAfterHonest

-----------------------------------------------------------------------------
(* Authentication.  Keys and users are two tables of a tenant: the role of *)
(* every entry of either is defined and claimed, and the key on record for *)
(* a user exists, with the user's role unless it went to somebody else.    *)

Dict(S, V) == UNION {[K -> V] : K \in SUBSET S}

\* Assigning to a key of a dictionary gives a dictionary.
LEMMA PutType ==
  ASSUME NEW S, NEW V, NEW d \in Dict(S, V), NEW k \in S, NEW v \in V
  PROVE  Put(d, k, v) \in Dict(S, V)
<1>1. PICK K \in SUBSET S : d \in [K -> V]
  BY DEF Dict
<1>2. Put(d, k, v) \in [K \cup {k} -> V]
  BY <1>1 DEF Put
<1>3. K \cup {k} \in SUBSET S /\ DOMAIN d = K
  BY <1>1
<1>4. Put(d, k, v) \in Dict(S, V)
  BY <1>2, <1>3 DEF Dict
<1> QED BY <1>4

\* A token that expires some seconds after it was issued does so within a
\* second before that many seconds have passed.
LEMMA WholeSeconds ==
  ASSUME NEW issued \in Nat, NEW expiry \in Int, NEW exp, exp = issued \div Second + expiry
  PROVE  LET end == issued + expiry * Second
         IN  /\ end \in Int /\ exp * Second \in Int
             /\ exp * Second <= end /\ exp * Second >= end - (Second - 1)
<1> DEFINE q == issued \div Second
<1>1. Second \in Nat \ {0}
  BY SecondAssumption
<1>2. q \in Int /\ exp = q + expiry /\ q * Second <= issued /\ q * Second >= issued - (Second - 1)
  BY <1>1
<1> HIDE DEF q
<1>3. exp * Second = q * Second + expiry * Second /\ {q * Second, expiry * Second} \subseteq Int
  BY <1>1, <1>2
<1> QED BY <1>1, <1>2, <1>3 DEF q

Claimed(C, t, u, r) == [tenant_id |-> t, username |-> u, role |-> r] \in C

TenantInv(t) ==
  /\ \A k \in DOMAIN api_keys[t] : /\ api_keys[t][k].role \in DOMAIN roles[t]
                                   /\ Claimed(claims, t, api_keys[t][k].username, api_keys[t][k].role)
  /\ \A u \in DOMAIN users[t] :
       LET account == users[t][u]
       IN  /\ account.role \in DOMAIN roles[t] /\ Claimed(claims, t, u, account.role)
           /\ account.api_key \in DOMAIN api_keys[t]
           /\ api_keys[t][account.api_key].username = u => api_keys[t][account.api_key].role = account.role

TokenInv == \A token \in tokens : token.entitled /\ token.exp = token.issued \div Second + token.expiry

AuthInv == AuthTypeOK /\ TokenInv /\ \A t \in DOMAIN roles : TenantInv(t)

LEMMA AuthInitInv == AuthInit => AuthInv
<1> SUFFICES ASSUME AuthInit PROVE AuthInv
  OBVIOUS
<1> DEFINE Held0(t) == {g.api_key : g \in Of(DefaultKeys, t)}
           Known(t) == {g.username : g \in Of(DefaultKeys, t)}
           WithKey(t, k) == CHOOSE g \in Of(DefaultKeys, t) : g.api_key = k
           WithName(t, u) == CHOOSE g \in Of(DefaultKeys, t) : g.username = u
<1>1. /\ roles = DefaultTables /\ claims = {ClaimOf(g) : g \in DefaultKeys}
      /\ api_keys = [t \in DOMAIN roles |-> [k \in Held0(t) |->
                       [username |-> WithKey(t, k).username, role |-> WithKey(t, k).role]]]
      /\ users = [t \in DOMAIN roles |-> [u \in Known(t) |->
                    [role |-> WithName(t, u).role, api_key |-> WithName(t, u).api_key]]]
      /\ time = 0 /\ tokens = {}
  BY DEF AuthInit
<1>2. \A t : \A k \in Held0(t) : WithKey(t, k) \in Of(DefaultKeys, t) /\ WithKey(t, k).api_key = k
  OBVIOUS
<1>3. \A t : \A u \in Known(t) : WithName(t, u) \in Of(DefaultKeys, t) /\ WithName(t, u).username = u
  OBVIOUS
<1> HIDE DEF WithKey, WithName
<1>4. \A g \in DefaultKeys : /\ g \in Grant /\ g.role \in DOMAIN DefaultTables[g.tenant_id]
                             /\ g.tenant_id \in DOMAIN DefaultTables
  BY TableAssumption
<1>5. \A t : \A g \in Of(DefaultKeys, t) : g \in DefaultKeys /\ g.tenant_id = t
  BY DEF Of
<1>6. AuthTypeOK
  <2>1. roles \in UNION {[T -> RoleTables] : T \in SUBSET Tenants}
    <3>1. DefaultTables \in [DOMAIN DefaultTables -> RoleTables]
      BY TableAssumption
    <3> QED BY <1>1, <3>1, TableAssumption
  <2>2. \A t \in DOMAIN roles : api_keys[t] \in UNION {[K -> Identity] : K \in SUBSET Keys}
    <3> SUFFICES ASSUME NEW t \in DOMAIN roles
                 PROVE  api_keys[t] \in UNION {[K -> Identity] : K \in SUBSET Keys}
      OBVIOUS
    <3>1. Held0(t) \in SUBSET Keys
      BY <1>4, <1>5 DEF Grant
    <3>2. \A k \in Held0(t) : [username |-> WithKey(t, k).username, role |-> WithKey(t, k).role] \in Identity
      BY <1>2, <1>4, <1>5 DEF Grant, Identity
    <3>3. api_keys[t] \in [Held0(t) -> Identity]
      BY <1>1, <3>2
    <3> QED BY <3>1, <3>3
  <2>3. \A t \in DOMAIN roles : users[t] \in UNION {[U -> Account] : U \in SUBSET Users}
    <3> SUFFICES ASSUME NEW t \in DOMAIN roles
                 PROVE  users[t] \in UNION {[U -> Account] : U \in SUBSET Users}
      OBVIOUS
    <3>1. Known(t) \in SUBSET Users
      BY <1>4, <1>5 DEF Grant
    <3>2. \A u \in Known(t) : [role |-> WithName(t, u).role, api_key |-> WithName(t, u).api_key] \in Account
      BY <1>3, <1>4, <1>5 DEF Grant, Account
    <3>3. users[t] \in [Known(t) -> Account]
      BY <1>1, <3>2
    <3> QED BY <3>1, <3>3
  <2>4. claims \subseteq Claim
    BY <1>1, <1>4 DEF ClaimOf, Claim, Grant
  <2>5. api_keys = [t \in DOMAIN roles |-> api_keys[t]] /\ users = [t \in DOMAIN roles |-> users[t]]
    BY <1>1
  <2>6. /\ api_keys \in [DOMAIN roles -> UNION {[K -> Identity] : K \in SUBSET Keys}]
        /\ users \in [DOMAIN roles -> UNION {[U -> Account] : U \in SUBSET Users}]
    BY <2>2, <2>3, <2>5
  <2>7. time \in 0..LastTime /\ tokens \subseteq Token
    BY <1>1, SecondAssumption
  <2> QED BY <2>1, <2>4, <2>6, <2>7 DEF AuthTypeOK
<1>7. ASSUME NEW t \in DOMAIN roles PROVE TenantInv(t)
  <2>1. ASSUME NEW k \in DOMAIN api_keys[t]
        PROVE  api_keys[t][k].role \in DOMAIN roles[t] /\ Claimed(claims, t, api_keys[t][k].username, api_keys[t][k].role)
    <3> DEFINE g == WithKey(t, k)
    <3>1. k \in Held0(t) /\ api_keys[t][k] = [username |-> g.username, role |-> g.role]
      BY <1>1, <1>7, <2>1
    <3>2. g \in DefaultKeys /\ g.tenant_id = t
      BY <1>2, <1>5, <3>1
    <3>3. ClaimOf(g) \in claims
      BY <1>1, <3>2
    <3> QED BY <1>1, <1>4, <3>1, <3>2, <3>3 DEF Claimed, ClaimOf
  <2>2. ASSUME NEW u \in DOMAIN users[t]
        PROVE  /\ users[t][u].role \in DOMAIN roles[t] /\ Claimed(claims, t, u, users[t][u].role)
               /\ users[t][u].api_key \in DOMAIN api_keys[t]
               /\ api_keys[t][users[t][u].api_key].role = users[t][u].role
    <3> DEFINE g == WithName(t, u)
    <3>1. u \in Known(t) /\ users[t][u] = [role |-> g.role, api_key |-> g.api_key]
      BY <1>1, <1>7, <2>2
    <3>2. g \in Of(DefaultKeys, t) /\ g \in DefaultKeys /\ g.tenant_id = t /\ g.username = u
      BY <1>3, <1>5, <3>1
    <3>3. ClaimOf(g) \in claims
      BY <1>1, <3>2
    <3>4. g.api_key \in Held0(t) /\ WithKey(t, g.api_key) \in DefaultKeys
          /\ WithKey(t, g.api_key).tenant_id = t /\ WithKey(t, g.api_key).api_key = g.api_key
      BY <1>2, <1>5, <3>2
    <3>5. WithKey(t, g.api_key) = g
      BY <3>2, <3>4, KeyAssumption
    <3>6. g.api_key \in DOMAIN api_keys[t] /\ api_keys[t][g.api_key].role = g.role
      BY <1>1, <1>7, <3>4, <3>5
    <3> QED BY <1>1, <1>4, <3>1, <3>2, <3>3, <3>6 DEF Claimed, ClaimOf
  <2> QED BY <2>1, <2>2 DEF TenantInv
<1>8. TokenInv
  BY <1>1 DEF TokenInv
<1> QED BY <1>6, <1>7, <1>8 DEF AuthInv

KeyTable == Dict(Keys, Identity)
UserTable == Dict(Users, Account)

\* The tables of a manager that is typed.
LEMMA AuthTypes ==
  ASSUME AuthTypeOK
  PROVE  /\ roles \in Dict(Tenants, RoleTables) /\ DOMAIN roles \subseteq Tenants
         /\ api_keys \in Dict(Tenants, KeyTable) /\ DOMAIN api_keys = DOMAIN roles
         /\ users \in Dict(Tenants, UserTable) /\ DOMAIN users = DOMAIN roles
<1>1. PICK T \in SUBSET Tenants : roles \in [T -> RoleTables]
  BY DEF AuthTypeOK
<1>2. DOMAIN roles = T
  BY <1>1
<1>3. api_keys \in [T -> KeyTable] /\ users \in [T -> UserTable]
  BY <1>2 DEF AuthTypeOK, KeyTable, UserTable, Dict
<1> QED BY <1>1, <1>2, <1>3 DEF Dict

\* A tenant whose tables are as before is as before if its claims are kept.
LEMMA OtherTenant ==
  ASSUME NEW t, TenantInv(t),
         roles'[t] = roles[t], api_keys'[t] = api_keys[t], users'[t] = users[t],
         \A c \in claims : c.tenant_id = t => c \in claims'
  PROVE  TenantInv(t)'
<1>1. \A u, r : Claimed(claims, t, u, r) => Claimed(claims', t, u, r)
  BY DEF Claimed
<1> QED BY <1>1 DEF TenantInv

LEMMA AuthRegister ==
  ASSUME AuthInv, NEW t \in Tenants, NEW table \in RoleTables, RegisterTenant(t, table)
  PROVE  AuthInv'
<1>1. /\ roles' = Put(roles, t, table) /\ api_keys' = Put(api_keys, t, Empty)
      /\ users' = Put(users, t, Empty) /\ claims' = claims \ Of(claims, t)
      /\ UNCHANGED <<time, tokens>>
  BY DEF RegisterTenant
<1>2. AuthTypeOK
  BY DEF AuthInv
<1>3. Empty \in KeyTable /\ Empty \in UserTable /\ DOMAIN Empty = {}
  <2>1. Empty \in [{} -> Identity] /\ Empty \in [{} -> Account] /\ {} \in SUBSET Keys /\ {} \in SUBSET Users
    BY DEF Empty
  <2> QED BY <2>1 DEF KeyTable, UserTable, Dict
<1>4. /\ roles' \in Dict(Tenants, RoleTables)
      /\ DOMAIN roles' = DOMAIN roles \cup {t}
      /\ \A s \in DOMAIN roles \ {t} : roles'[s] = roles[s]
  BY <1>1, <1>2, AuthTypes, PutType DEF Put
<1>5. /\ api_keys' \in Dict(Tenants, KeyTable)
      /\ DOMAIN api_keys' = DOMAIN roles \cup {t} /\ api_keys'[t] = Empty
      /\ \A s \in DOMAIN roles \ {t} : api_keys'[s] = api_keys[s]
  <2>1. api_keys \in Dict(Tenants, KeyTable) /\ Empty \in KeyTable /\ DOMAIN api_keys = DOMAIN roles
    BY <1>2, <1>3, AuthTypes
  <2>2. /\ Put(api_keys, t, Empty) \in Dict(Tenants, KeyTable)
        /\ DOMAIN Put(api_keys, t, Empty) = DOMAIN api_keys \cup {t}
        /\ Put(api_keys, t, Empty)[t] = Empty
        /\ \A s \in DOMAIN api_keys \ {t} : Put(api_keys, t, Empty)[s] = api_keys[s]
    BY <2>1, PutType DEF Put
  <2> QED BY <1>1, <2>1, <2>2
<1>6. /\ users' \in Dict(Tenants, UserTable)
      /\ DOMAIN users' = DOMAIN roles \cup {t} /\ users'[t] = Empty
      /\ \A s \in DOMAIN roles \ {t} : users'[s] = users[s]
  <2>1. users \in Dict(Tenants, UserTable) /\ Empty \in UserTable /\ DOMAIN users = DOMAIN roles
    BY <1>2, <1>3, AuthTypes
  <2>2. /\ Put(users, t, Empty) \in Dict(Tenants, UserTable)
        /\ DOMAIN Put(users, t, Empty) = DOMAIN users \cup {t}
        /\ Put(users, t, Empty)[t] = Empty
        /\ \A s \in DOMAIN users \ {t} : Put(users, t, Empty)[s] = users[s]
    BY <2>1, PutType DEF Put
  <2> QED BY <1>1, <2>1, <2>2
<1>7. AuthTypeOK'
  <2>1. api_keys' \in [DOMAIN roles' -> KeyTable]
    BY <1>4, <1>5 DEF Dict
  <2>2. users' \in [DOMAIN roles' -> UserTable]
    BY <1>4, <1>6 DEF Dict
  <2> QED BY <1>1, <1>2, <1>4, <2>1, <2>2 DEF AuthTypeOK, KeyTable, UserTable, Dict
<1>8. ASSUME NEW s \in DOMAIN roles' PROVE TenantInv(s)'
  <2>1. CASE s = t
    BY <1>3, <1>5, <1>6, <2>1 DEF TenantInv
  <2>2. CASE s # t
    <3>1. s \in DOMAIN roles \ {t}
      BY <1>4, <2>2
    <3>2. TenantInv(s)
      BY <3>1 DEF AuthInv
    <3>3. \A c \in claims : c.tenant_id = s => c \in claims'
      BY <1>1, <2>2 DEF Of
    <3> QED BY <1>4, <1>5, <1>6, <3>1, <3>2, <3>3, OtherTenant
  <2> QED BY <2>1, <2>2
<1>9. TokenInv'
  BY <1>1 DEF AuthInv, TokenInv
<1> QED BY <1>7, <1>8, <1>9 DEF AuthInv

LEMMA AuthAddKey ==
  ASSUME AuthInv, NEW g \in KeyGrants, AddApiKey(g)
  PROVE  AuthInv'
<1> DEFINE t == g.tenant_id
           identity == [username |-> g.username, role |-> g.role]
           account == [role |-> g.role, api_key |-> g.api_key]
<1>1. /\ t \in DOMAIN roles /\ g.role \in DOMAIN roles[t]
      /\ api_keys' = [api_keys EXCEPT ![t] = Put(api_keys[t], g.api_key, identity)]
      /\ users' = [users EXCEPT ![t] = Put(users[t], g.username, account)]
      /\ claims' = claims \cup {ClaimOf(g)}
      /\ UNCHANGED <<roles, time, tokens>>
  BY DEF AddApiKey, KeyEntry
<1>2. /\ g.tenant_id \in Tenants /\ g.api_key \in Keys /\ g.username \in Users
      /\ identity \in Identity /\ account \in Account /\ ClaimOf(g) \in Claim
      /\ ClaimOf(g) = [tenant_id |-> t, username |-> g.username, role |-> g.role]
      /\ identity.username = g.username /\ identity.role = g.role
      /\ account.role = g.role /\ account.api_key = g.api_key
  BY TableAssumption DEF Grant, Identity, Account, ClaimOf, Claim
<1> HIDE DEF identity, account, t
<1>3. /\ AuthTypeOK /\ TenantInv(t) /\ api_keys \in [DOMAIN roles -> KeyTable]
      /\ users \in [DOMAIN roles -> UserTable]
  BY <1>1 DEF AuthInv, AuthTypeOK, KeyTable, UserTable, Dict
<1>4. /\ api_keys[t] \in KeyTable /\ users[t] \in UserTable
  BY <1>1, <1>3
<1>5. /\ Put(api_keys[t], g.api_key, identity) \in KeyTable
      /\ DOMAIN Put(api_keys[t], g.api_key, identity) = DOMAIN api_keys[t] \cup {g.api_key}
      /\ Put(api_keys[t], g.api_key, identity)[g.api_key] = identity
      /\ \A k \in DOMAIN api_keys[t] \ {g.api_key} : Put(api_keys[t], g.api_key, identity)[k] = api_keys[t][k]
  <2>1. api_keys[t] \in Dict(Keys, Identity) /\ g.api_key \in Keys /\ identity \in Identity
    BY <1>2, <1>4 DEF KeyTable
  <2>2. Put(api_keys[t], g.api_key, identity) \in KeyTable
    BY <2>1, PutType DEF KeyTable
  <2> QED BY <2>2 DEF Put
<1>6. /\ Put(users[t], g.username, account) \in UserTable
      /\ DOMAIN Put(users[t], g.username, account) = DOMAIN users[t] \cup {g.username}
      /\ Put(users[t], g.username, account)[g.username] = account
      /\ \A u \in DOMAIN users[t] \ {g.username} : Put(users[t], g.username, account)[u] = users[t][u]
  <2>1. users[t] \in Dict(Users, Account) /\ g.username \in Users /\ account \in Account
    BY <1>2, <1>4 DEF UserTable
  <2>2. Put(users[t], g.username, account) \in UserTable
    BY <2>1, PutType DEF UserTable
  <2> QED BY <2>2 DEF Put
<1>7. /\ api_keys'[t] = Put(api_keys[t], g.api_key, identity) /\ users'[t] = Put(users[t], g.username, account)
      /\ \A s \in DOMAIN roles \ {t} : api_keys'[s] = api_keys[s] /\ users'[s] = users[s]
      /\ api_keys' \in [DOMAIN roles -> KeyTable] /\ users' \in [DOMAIN roles -> UserTable]
  BY <1>1, <1>3, <1>5, <1>6
<1>8. AuthTypeOK'
  BY <1>1, <1>2, <1>3, <1>7 DEF AuthTypeOK, KeyTable, UserTable, Dict
<1>9. ASSUME NEW s \in DOMAIN roles' PROVE TenantInv(s)'
  <2>1. CASE s = t
    <3>1. \A u, r : Claimed(claims, t, u, r) => Claimed(claims', t, u, r)
      BY <1>1 DEF Claimed
    <3>2. Claimed(claims', t, g.username, g.role)
      BY <1>1, <1>2 DEF Claimed
    <3>3. ASSUME NEW k \in DOMAIN api_keys'[t]
          PROVE  /\ api_keys'[t][k].role \in DOMAIN roles'[t]
                 /\ Claimed(claims', t, api_keys'[t][k].username, api_keys'[t][k].role)
      <4>1. CASE k = g.api_key
        BY <1>1, <1>2, <1>5, <1>7, <3>2, <4>1
      <4>2. CASE k # g.api_key
        <5>1. k \in DOMAIN api_keys[t] /\ api_keys'[t][k] = api_keys[t][k]
          BY <1>5, <1>7, <3>3, <4>2
        <5> QED BY <1>1, <1>3, <3>1, <5>1 DEF TenantInv
      <4> QED BY <4>1, <4>2
    <3>4. ASSUME NEW u \in DOMAIN users'[t]
          PROVE  /\ users'[t][u].role \in DOMAIN roles'[t] /\ Claimed(claims', t, u, users'[t][u].role)
                 /\ users'[t][u].api_key \in DOMAIN api_keys'[t]
                 /\ api_keys'[t][users'[t][u].api_key].username = u =>
                      api_keys'[t][users'[t][u].api_key].role = users'[t][u].role
      <4>1. CASE u = g.username
        <5>1. users'[t][u] = account /\ api_keys'[t][g.api_key] = identity /\ g.api_key \in DOMAIN api_keys'[t]
          BY <1>5, <1>6, <1>7, <4>1
        <5> QED BY <1>1, <1>2, <3>2, <4>1, <5>1
      <4>2. CASE u # g.username
        <5>1. u \in DOMAIN users[t] /\ users'[t][u] = users[t][u]
          BY <1>6, <1>7, <3>4, <4>2
        <5>2. /\ users[t][u].role \in DOMAIN roles[t] /\ Claimed(claims, t, u, users[t][u].role)
              /\ users[t][u].api_key \in DOMAIN api_keys[t]
              /\ api_keys[t][users[t][u].api_key].username = u =>
                   api_keys[t][users[t][u].api_key].role = users[t][u].role
          BY <1>3, <5>1 DEF TenantInv
        <5>3. CASE users[t][u].api_key = g.api_key
          <6>1. api_keys'[t][g.api_key] = identity /\ g.api_key \in DOMAIN api_keys'[t]
            BY <1>5, <1>7
          <6>2. identity.username # u
            BY <1>2, <4>2
          <6> QED BY <1>1, <3>1, <5>1, <5>2, <5>3, <6>1, <6>2
        <5>4. CASE users[t][u].api_key # g.api_key
          BY <1>1, <1>5, <1>7, <3>1, <5>1, <5>2, <5>4
        <5> QED BY <5>3, <5>4
      <4> QED BY <4>1, <4>2
    <3> QED BY <2>1, <3>3, <3>4 DEF TenantInv
  <2>2. CASE s # t
    <3>1. s \in DOMAIN roles \ {t} /\ TenantInv(s)
      BY <1>1, <1>9, <2>2 DEF AuthInv
    <3> QED BY <1>1, <1>7, <3>1, OtherTenant
  <2> QED BY <2>1, <2>2
<1>10. TokenInv'
  BY <1>1 DEF AuthInv, TokenInv
<1> QED BY <1>8, <1>9, <1>10 DEF AuthInv

LEMMA AuthToken ==
  ASSUME AuthInv, NEW t \in Tenants, NEW u \in Users, NEW expiry \in Expiries, GenerateJwt(t, u, expiry)
  PROVE  AuthInv'
<1> DEFINE role == users[t][u].role
           token == [tenant_id |-> t, username |-> u, role |-> role,
                     exp |-> Exp(expiry), issued |-> time, expiry |-> expiry,
                     entitled |-> [tenant_id |-> t, username |-> u, role |-> role] \in claims]
<1>1. /\ t \in DOMAIN roles /\ u \in DOMAIN users[t]
      /\ tokens' = tokens \cup {token} /\ UNCHANGED <<roles, api_keys, users, claims, time>>
  BY DEF GenerateJwt, tables
<1>2. Claimed(claims, t, u, role)
  BY <1>1 DEF AuthInv, TenantInv
<1>3. role \in Roles
  <2>1. \A c \in Claim : c.role \in Roles
    BY DEF Claim
  <2>2. claims \subseteq Claim
    BY DEF AuthInv, AuthTypeOK
  <2> HIDE DEF role
  <2> QED BY <1>2, <2>1, <2>2 DEF Claimed
<1>4. Exp(expiry) \in Int
  BY SecondAssumption DEF Exp, AuthInv, AuthTypeOK
<1>5. time \in 0..LastTime
  BY DEF AuthInv, AuthTypeOK
<1> HIDE DEF role
<1>6. token.entitled = TRUE /\ token.exp = token.issued \div Second + token.expiry
  BY <1>2 DEF Claimed, Exp
<1>7. token \in Token
  BY <1>2, <1>3, <1>4, <1>5 DEF Token, Claimed
<1>8. AuthTypeOK'
  BY <1>1, <1>7 DEF AuthInv, AuthTypeOK
<1>9. TokenInv'
  BY <1>1, <1>6 DEF AuthInv, TokenInv
<1>10. \A s \in DOMAIN roles' : TenantInv(s)'
  BY <1>1 DEF AuthInv, TenantInv
<1> QED BY <1>8, <1>9, <1>10 DEF AuthInv

LEMMA AuthStep == AuthInv /\ [AuthNext]_authVars => AuthInv'
<1> SUFFICES ASSUME AuthInv, [AuthNext]_authVars PROVE AuthInv'
  OBVIOUS
<1>1. ASSUME UNCHANGED <<tables, tokens>>, time' \in 0..LastTime PROVE AuthInv'
  BY <1>1 DEF AuthInv, AuthTypeOK, TenantInv, TokenInv, tables
<1>2. CASE UNCHANGED authVars
  BY <1>1, <1>2 DEF authVars, AuthInv, AuthTypeOK
<1> QED BY <1>1, <1>2, AuthRegister, AuthAddKey, AuthToken DEF AuthNext, Clock

LEMMA AuthAlways == AuthSpec => []AuthInv
BY AuthInitInv, AuthStep, PTL DEF AuthSpec

\* Whoever a key or a token lets in holds a role that was granted and that the
\* tenant still defines, no key ends in KeyError, and a token is good until the
\* second its expiry falls in, also if the clock is set back
\* (authenticate_api_key, verify_jwt), for any tenants, role tables and grants.
THEOREM AdmissionsGranted == AuthSpec => []AdmittedAsGranted
<1>1. AuthInv => AdmittedAsGranted
  <2> SUFFICES ASSUME AuthInv PROVE AdmittedAsGranted
    OBVIOUS
  <2>1. ASSUME NEW t \in Tenants, NEW k \in Keys
        PROVE  /\ ~KeyError(t, k)
               /\ \A context \in AuthenticateApiKey(t, k) : ClaimOf(context) \in claims
    <3>1. CASE Held(t, k)
      <4>1. /\ api_keys[t][k].role \in DOMAIN roles[t]
            /\ Claimed(claims, t, api_keys[t][k].username, api_keys[t][k].role)
        BY <3>1 DEF Held, AuthInv, TenantInv
      <4> QED BY <4>1 DEF KeyError, AuthenticateApiKey, Context, ClaimOf, Claimed
    <3>2. CASE ~Held(t, k)
      BY <3>2 DEF KeyError, AuthenticateApiKey
    <3> QED BY <3>1, <3>2
  <2>2. ASSUME NEW token \in tokens
        PROVE  LET end == token.issued + token.expiry * Second
               IN  /\ VerifyJwt(token) # {} => token.entitled /\ time <= end
                   /\ time <= end - (Second - 1) => ~Expired(token)
    <3> DEFINE issued == token.issued
               expiry == token.expiry
               exp == token.exp
               end == issued + expiry * Second
               expires == exp * Second
    <3>1. token \in Token /\ time \in Int
      BY SecondAssumption DEF AuthInv, AuthTypeOK
    <3>2. token.entitled /\ exp = issued \div Second + expiry
      BY DEF AuthInv, TokenInv
    <3>3. issued \in Nat /\ expiry \in Int /\ Second \in Int
      <4>1. issued \in 0..LastTime /\ expiry \in Expiries
        BY <3>1 DEF Token
      <4>2. 0..LastTime \subseteq Nat /\ Expiries \subseteq Int /\ Second \in Int
        BY SecondAssumption
      <4> QED BY <4>1, <4>2
    <3>4. Expired(token) <=> expires < time
      BY DEF Expired
    <3>5. VerifyJwt(token) # {} => ~Expired(token)
      BY DEF VerifyJwt
    <3> HIDE DEF issued, expiry, exp
    <3>6. end \in Int /\ expires \in Int /\ expires <= end /\ expires >= end - (Second - 1)
      BY <3>2, <3>3, WholeSeconds
    <3> HIDE DEF end, expires
    <3>7. (~Expired(token) => time <= end) /\ (time <= end - (Second - 1) => ~Expired(token))
      BY <3>1, <3>3, <3>4, <3>6
    <3>8. /\ VerifyJwt(token) # {} => token.entitled /\ time <= end
          /\ time <= end - (Second - 1) => ~Expired(token)
      BY <3>2, <3>5, <3>7
    <3> QED BY <3>8 DEF end, issued, expiry
  <2> QED BY <2>1, <2>2 DEF AdmittedAsGranted, AuthInv
<1> QED BY <1>1, AuthAlways, PTL

\* A user's key on record and a token issued to the user now open the same
\* doors, however keys were added, moved and reissued (add_api_key keeps two
\* tables), for any tenants, role tables and grants.
THEOREM KeysAndTokensAgree == AuthSpec => []KeyAndTokenAgree
<1>1. AuthInv => KeyAndTokenAgree
  <2> SUFFICES ASSUME AuthInv, NEW t \in DOMAIN roles, NEW u \in DOMAIN users[t]
               PROVE  LET account == users[t][u]
                      IN  /\ account.api_key \in DOMAIN api_keys[t]
                          /\ LET info == api_keys[t][account.api_key]
                             IN  info.username = u =>
                                   /\ info.role = account.role
                                   /\ \A permission \in UNION {roles[t][r] : r \in DOMAIN roles[t]} :
                                        CheckPermission(AuthenticateApiKey(t, account.api_key), permission)
                                          <=> permission \in roles[t][account.role]
    BY DEF KeyAndTokenAgree
  <2> DEFINE account == users[t][u]
             info == api_keys[t][account.api_key]
  <2>1. account.api_key \in DOMAIN api_keys[t] /\ (info.username = u => info.role = account.role)
    BY DEF AuthInv, TenantInv
  <2>2. Held(t, account.api_key)
    BY <2>1 DEF Held
  <2>3. ASSUME NEW permission, info.role = account.role
        PROVE  CheckPermission(AuthenticateApiKey(t, account.api_key), permission)
                 <=> permission \in roles[t][account.role]
    <3>1. AuthenticateApiKey(t, account.api_key) = {Context(t, info.username, info.role)}
      BY <2>2 DEF AuthenticateApiKey
    <3>2. Context(t, info.username, info.role).permissions = roles[t][account.role]
      BY <2>3 DEF Context
    <3> HIDE DEF account, info
    <3> QED BY <3>1, <3>2 DEF CheckPermission
  <2> QED BY <2>1, <2>3
<1> QED BY <1>1, AuthAlways, PTL
=============================================================================
