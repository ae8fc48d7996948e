----------------------------- MODULE TokenBucket -----------------------------
(***************************************************************************)
(* The burst protection of RateLimiterService: one token bucket per tenant *)
(* in Redis, updated by a script that every trigger request of every       *)
(* replica runs, and read by the dashboards.                               *)
(*                                                                         *)
(* Tokens are counted in the time it takes to refill them: a tick of       *)
(* Clocks refills one, a request costs Cost, which is                      *)
(* 60000 / rate_limit_per_minute ms.                                       *)
(*                                                                         *)
(* A definition named Bug... is no part of the specification: it is the    *)
(* definition after it with a plausible mistake in the code.               *)
(***************************************************************************)
EXTENDS Clocks

CONSTANTS
    Cost,        \* ticks that refill what one request takes from the bucket
    Capacity,    \* size of the bucket, in ticks of refill
    BucketTTL,   \* life of an untouched bucket (120 s)
    Patience     \* bound on the backward moves of the clock in an interval

ASSUME CostAssumption == Cost \in Nat \ {0} /\ Capacity \in Nat
ASSUME PatienceAssumption == Patience \in Nat
\* An idle bucket would be full when Redis forgets it.  DefaultCapacityFits in
\* RateLimiterProofs shows it of the capacity the code chooses; BURST_CAPACITY in
\* the environment may say otherwise.
ASSUME BucketTTLAssumption == BucketTTL \in Nat \ {0} /\ BucketTTL >= Capacity + MaxDelay

VARIABLES
    bucket,   \* the hash tenant:<id>:burst, until the end of its life
    watch     \* history: what the bucket let through since watch.start

bucketVars == <<now, bucket, watch>>

BucketTypeOK ==
    /\ now \in Nat
    /\ bucket \in [tokens : Nat, last : Nat, until : Nat]
    /\ watch \in [start : Nat, spent : Nat, slips : Nat]

-----------------------------------------------------------------------------
(* Helpers *)

Smaller(a, b) == IF a <= b THEN a ELSE b

BucketLives == now < bucket.until

-----------------------------------------------------------------------------
(* The script, executed atomically *)

BugSignedElapsed(at) == IF BucketLives THEN at - bucket.last ELSE 0
\* max(0, nowMs - lastRefillMs), with lastRefillMs of an absent bucket = nowMs.
Elapsed(at) == IF BucketLives /\ at >= bucket.last THEN at - bucket.last ELSE 0

Refilled(at) == IF BucketLives THEN Smaller(Capacity, bucket.tokens + Elapsed(at)) ELSE Capacity

Allows(at) == Refilled(at) >= Cost

BugShortLife(at, tokens) ==
    bucket' = [tokens |-> tokens, last |-> at, until |-> now + Cost]
\* HMSET stores this reading, even if an earlier script came with a later one.
SaveBucket(at, tokens) ==
    bucket' = [tokens |-> tokens, last |-> at, until |-> now + BucketTTL]

\* How far the script moves lastRefillMs back.
Slip(at) == IF BucketLives /\ at < bucket.last THEN bucket.last - at ELSE 0

\* What is left is saved, after a refusal too.
RunScript(at) ==
    /\ SaveBucket(at, IF Allows(at) THEN Refilled(at) - Cost ELSE Refilled(at))
    /\ watch' = [watch EXCEPT !.spent = IF Allows(at) THEN @ + Cost ELSE @,
                              !.slips = @ + Slip(at)]

\* The script of some request.  A request that dies or loses its connection
\* after the script has taken its tokens all the same, and so does a copy that
\* ioredis sends again.
CheckBurstLimit ==
    \E at \in Readings :
        /\ watch.slips + Slip(at) <= Patience
        /\ RunScript(at)
        /\ UNCHANGED now

Refill ==
    /\ Advance
    /\ UNCHANGED <<bucket, watch>>

\* Start to count what the bucket lets through: any interval can be looked at.
Watch ==
    /\ watch' = [start |-> now, spent |-> 0, slips |-> 0]
    /\ UNCHANGED <<now, bucket>>

BucketInit ==
    /\ now = 0
    /\ bucket = [tokens |-> 0, last |-> 0, until |-> 0]
    /\ watch = [start |-> 0, spent |-> 0, slips |-> 0]

BucketNext == CheckBurstLimit \/ Refill \/ Watch

BucketSpec == BucketInit /\ [][BucketNext]_bucketVars

-----------------------------------------------------------------------------
(* What getStats shows of the bucket *)

\* computeBurstRemaining, with a clock reading of its own.
BurstRemaining(at) ==
    IF BucketLives
    THEN Smaller(Capacity \div Cost, (bucket.tokens + Elapsed(at)) \div Cost)
    ELSE Capacity \div Cost

-----------------------------------------------------------------------------
(* Properties *)

\* In no interval does the bucket let through more than its capacity and the
\* refill of the interval, plus what old readings may add: at most MaxDelay at its
\* beginning, and the time by which lastRefillMs moved back, which refills again
\* (rate-limiter.service.ts:114-129).  Expiry of the bucket grants nothing more.
BurstIsEarned ==
    watch.spent <= Capacity + (now - watch.start) + MaxDelay + watch.slips

\* The dashboards' own computation of the bucket agrees with the script: a burst
\* is shown as available exactly when the next request would pass
\* (rate-limiter.service.ts:274-291 against 111-124).
StatsAgree == \A at \in Readings : BurstRemaining(at) >= 1 <=> Allows(at)

==============================================================================
