----------------------------- MODULE RateLimiter -----------------------------
(***************************************************************************)
(* RateLimiterService.checkLimit for the trigger requests of one tenant:   *)
(* after the token bucket (TokenBucket: here it may answer either way) the *)
(* counter of the minute, then the counter of the day, both in Redis and   *)
(* incremented by every replica of the worker.                             *)
(*                                                                         *)
(* A definition named Bug... is no part of the specification: it is the    *)
(* definition after it with a plausible mistake in the code.               *)
(***************************************************************************)
EXTENDS Clocks, FiniteSets

CONSTANTS
    Requests,      \* trigger requests of the tenant
    Length,        \* Length["minute"], Length["day"]: length of a counter's period
    Limit,         \* rate_limit_per_minute and daily_notification_cap
    CounterTTL,    \* life given to a counter: 120 s and 86400 s
    Periods,       \* numbers of the minutes and of the days of a behaviour
    RedisFaults,   \* a command may fail, executed or not
    RedisResends,  \* ioredis may send an executed command a second time
    Crashes        \* a replica may die

Windows == {"minute", "day"}

ASSUME WindowAssumption ==
    /\ Length \in [Windows -> Nat \ {0}]
    /\ Limit \in [Windows -> Nat]
    /\ CounterTTL \in [Windows -> Nat]
    /\ \A w \in Windows : CounterTTL[w] >= Length[w]
ASSUME PeriodsAssumption == Periods \subseteq Nat /\ 0 \in Periods
ASSUME EnvironmentAssumption == {RedisFaults, RedisResends, Crashes} \subseteq BOOLEAN

VARIABLES
    counter,    \* counter[w][i]: the counter of period i
    pc,         \* pc[r]: the next Redis command of request r
    slot,       \* slot[r]: the period whose counter r incremented last
    refused,    \* refused[r]: the check that refused r
    attempts,   \* history: attempts[w][i] INCRs executed on counter[w][i]
    passed,     \* history: passed[w][i] of them let their request through
    late,       \* history: late[w][i] of those after period i had ended
    orphans     \* history: counters whose EXPIRE was interrupted or not asked for

vars == <<now, counter, pc, slot, refused, attempts, passed, late, orphans>>

-----------------------------------------------------------------------------
(* Types *)

NoCounter == [count |-> 0, until |-> 0]
\* until = 0: the counter has no time to live.
Counter == [count : Nat, until : Nat]
Step == {"burst", "minute", "minuteTTL", "day", "dayTTL",
         "admitted", "refused", "failed"}
Final == {"admitted", "refused", "failed"}

TypeOK ==
    /\ now \in Nat
    /\ counter \in [Windows -> [Periods -> Counter]]
    /\ pc \in [Requests -> Step]
    /\ slot \in [Requests -> Periods]
    /\ refused \in [Requests -> Windows \cup {"burst", "none"}]
    /\ attempts \in [Windows -> [Periods -> Nat]]
    /\ passed \in [Windows -> [Periods -> Nat]]
    /\ late \in [Windows -> [Periods -> Nat]]
    /\ orphans \in SUBSET (Windows \X Periods)

-----------------------------------------------------------------------------
(* Helpers *)

Goto(r, step) == pc' = [pc EXCEPT ![r] = step]

Begin(w, i) == i * Length[w]
End(w, i) == Begin(w, i) + Length[w]
\* Math.floor(Date.now() / 60000), or the date of toISOString, of the reading.
InPeriod(w, i, at) == Begin(w, i) <= at /\ at < End(w, i)

Alive(c) == c.count > 0 /\ (c.until = 0 \/ now < c.until)
Count(c) == IF Alive(c) THEN c.count ELSE 0

-----------------------------------------------------------------------------
(* checkBurstLimit: the script of TokenBucket lets the request on or not *)

CheckBurst(r) ==
    /\ pc[r] = "burst"
    /\ \/ /\ Goto(r, "minute")
          /\ UNCHANGED refused
       \/ /\ Goto(r, "refused")
          /\ refused' = [refused EXCEPT ![r] = "burst"]
       \/ /\ RedisFaults
          /\ Goto(r, "failed")
          /\ UNCHANGED refused
    /\ UNCHANGED <<now, counter, slot, attempts, passed, late, orphans>>

-----------------------------------------------------------------------------
(* The counters: INCR, and EXPIRE if the answer is 1 *)

TTLStep(w) == IF w = "minute" THEN "minuteTTL" ELSE "dayTTL"
After(w) == IF w = "minute" THEN "day" ELSE "admitted"

BugOneMore(w, n) == n <= Limit[w] + 1
BugOneLess(w, n) == n < Limit[w]
\* The comparison of the INCR's answer n with the limit.
Permits(w, n) == n <= Limit[w]

\* What becomes of the request after it.
Judge(r, w, n) ==
    \/ /\ Permits(w, n)
       /\ Goto(r, After(w))
       /\ UNCHANGED refused
    \/ /\ ~Permits(w, n)
       /\ Goto(r, "refused")
       /\ refused' = [refused EXCEPT ![r] = w]

\* n INCRs of counter[w][i] executed now; an expired counter starts again, with
\* no time to live.
Add(w, i, n) ==
    /\ counter' = [counter EXCEPT ![w][i] =
            [count |-> Count(@) + n, until |-> IF Alive(@) THEN @.until ELSE 0]]
    /\ attempts' = [attempts EXCEPT ![w][i] = @ + n]

\* Bookkeeping of an INCR that let its request through.
Pass(w, i) ==
    /\ passed' = [passed EXCEPT ![w][i] = @ + 1]
    /\ late' = IF now < End(w, i) THEN late ELSE [late EXCEPT ![w][i] = @ + 1]

BugWithoutExpire(r, w, i) ==
    LET n == Count(counter[w][i]) + 1 IN
    /\ Add(w, i, 1)
    /\ IF Permits(w, n) THEN Pass(w, i) ELSE UNCHANGED <<passed, late>>
    /\ Judge(r, w, n)
\* The INCR of checkMinuteLimit and checkDailyCap.
Increment(r, w, i) ==
    LET n == Count(counter[w][i]) + 1 IN
    /\ Add(w, i, 1)
    /\ IF Permits(w, n) THEN Pass(w, i) ELSE UNCHANGED <<passed, late>>
    /\ IF n = 1 THEN Goto(r, TTLStep(w)) /\ UNCHANGED refused ELSE Judge(r, w, n)

\* The periods a request can read now.
Current(w) == {i \in Periods : \E at \in Readings : InPeriod(w, i, at)}

Check(r, w) ==
    /\ pc[r] = w
    /\ \E i \in Current(w) :
        /\ slot' = [slot EXCEPT ![r] = i]
        /\ Increment(r, w, i)
    /\ UNCHANGED <<now, orphans>>

\* The INCR fails, executed or not, or is executed twice and answered once: then
\* the answer is not 1 and nobody asks for the EXPIRE.
CheckFails(r, w) ==
    /\ pc[r] = w
    /\ \E i \in Current(w), n \in 0 .. 2 :
        /\ Add(w, i, n)
        /\ slot' = [slot EXCEPT ![r] = i]
        /\ orphans' = IF n > 0 /\ ~Alive(counter[w][i]) THEN orphans \cup {<<w, i>>} ELSE orphans
        /\ \/ /\ RedisFaults /\ n < 2
              /\ Goto(r, "failed")
              /\ UNCHANGED <<refused, passed, late>>
           \/ /\ RedisResends /\ n = 2
              /\ Judge(r, w, Count(counter[w][i]) + 2)
              /\ IF Permits(w, Count(counter[w][i]) + 2)
                 THEN Pass(w, i) ELSE UNCHANGED <<passed, late>>
    /\ UNCHANGED now

BugExpireAt(w, i) == counter' = [counter EXCEPT ![w][i].until = End(w, i) - now]
SetTTL(w, i) == counter' = [counter EXCEPT ![w][i].until = now + CounterTTL[w]]

\* The EXPIRE that follows an INCR answered with 1.
Expire(r, w) ==
    /\ pc[r] = TTLStep(w)
    /\ SetTTL(w, slot[r])
    /\ Judge(r, w, 1)
    /\ UNCHANGED <<now, slot, attempts, passed, late, orphans>>

ExpireFails(r, w) ==
    /\ RedisFaults
    /\ pc[r] = TTLStep(w)
    /\ \/ SetTTL(w, slot[r]) /\ UNCHANGED orphans
       \/ UNCHANGED counter /\ orphans' = orphans \cup {<<w, slot[r]>>}
    /\ Goto(r, "failed")
    /\ UNCHANGED <<now, slot, refused, attempts, passed, late>>

-----------------------------------------------------------------------------
(* The environment *)

Crash(r) ==
    /\ Crashes
    /\ pc[r] \notin Final
    /\ orphans' = orphans \cup {<<w, slot[r]>> : w \in {w \in Windows : pc[r] = TTLStep(w)}}
    /\ Goto(r, "failed")
    /\ UNCHANGED <<now, counter, slot, refused, attempts, passed, late>>

Tick ==
    /\ Advance
    /\ UNCHANGED <<counter, pc, slot, refused, attempts, passed, late, orphans>>

-----------------------------------------------------------------------------
Init ==
    /\ now = 0
    /\ counter = [w \in Windows |-> [i \in Periods |-> NoCounter]]
    /\ pc = [r \in Requests |-> "burst"]
    /\ slot = [r \in Requests |-> 0]
    /\ refused = [r \in Requests |-> "none"]
    /\ attempts = [w \in Windows |-> [i \in Periods |-> 0]]
    /\ passed = [w \in Windows |-> [i \in Periods |-> 0]]
    /\ late = [w \in Windows |-> [i \in Periods |-> 0]]
    /\ orphans = {}

\* One step of checkLimit for request r.
CheckLimit(r) ==
    \/ CheckBurst(r)
    \/ \E w \in Windows : Check(r, w) \/ CheckFails(r, w) \/ Expire(r, w) \/ ExpireFails(r, w)

Next ==
    \/ \E r \in Requests : CheckLimit(r) \/ Crash(r)
    \/ Tick

Spec == Init /\ [][Next]_vars

-----------------------------------------------------------------------------
(* Properties *)

\* A period's counter lets at most Limit requests through while the period lasts,
\* and ever, if the counter outlives the period by more than the age of a reading.
\* The minute's counter does (120 s); the day's (86400 s) expires with the day, so
\* that requests which read the clock just before midnight may start it again
\* (rate-limiter.service.ts:159-223).
LimitsHold ==
    \A w \in Windows, i \in Periods :
        /\ passed[w][i] - late[w][i] <= Limit[w]
        /\ CounterTTL[w] >= Length[w] + MaxDelay => passed[w][i] <= Limit[w]

\* A request refused by a counter is refused for the commands of its own period:
\* more of them than the limit were executed in that minute or day, whatever
\* counters of other periods are still there.
RefusalIsDue ==
    \A r \in Requests : refused[r] \in Windows =>
        attempts[refused[r]][slot[r]] > Limit[refused[r]]

\* A counter stays without a time to live only if the EXPIRE after its first INCR
\* was interrupted, or not asked for because the INCR was executed twice
\* (rate-limiter.service.ts:165-170, 202-207).
CountersAreCollected ==
    \A w \in Windows, i \in Periods :
        counter[w][i].count > 0 /\ counter[w][i].until = 0 =>
            \/ <<w, i>> \in orphans
            \/ \E r \in Requests : pc[r] = TTLStep(w) /\ slot[r] = i

==============================================================================
