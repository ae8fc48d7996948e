-------------------------- MODULE RateLimiterProofs --------------------------
(***************************************************************************)
(* Proofs about RateLimiter for every number of requests, every limit and  *)
(* every length of the periods, under every fault; and, in the last part,  *)
(* about TokenBucket for every rate, capacity and delay.                   *)
(***************************************************************************)
EXTENDS RateLimiter, TokenBucket, TLAPS

USE WindowAssumption, ClockAssumption, PeriodsAssumption, EnvironmentAssumption

\* Until Reach(w, i) the counter of period i cannot have expired.
Reach(w, i) == Begin(w, i) + CounterTTL[w]

\* A time to live ends at Reach or later; before that the counter has seen all
\* that passed, and afterwards only late requests pass.
CounterOK(w, i) ==
    /\ counter[w][i].until # 0 => counter[w][i].until >= Reach(w, i)
    /\ now < Reach(w, i) =>
          passed[w][i] <= counter[w][i].count /\ passed[w][i] <= Limit[w]
    /\ counter[w][i].count <= attempts[w][i]
    /\ passed[w][i] - late[w][i] <= Limit[w]
    /\ CounterTTL[w] >= Length[w] + MaxDelay => passed[w][i] <= Limit[w]

\* A request that is about to set the time to live read its period before now, and
\* has incremented its counter.
Started ==
    \A r \in Requests, w \in Windows : pc[r] = TTLStep(w) =>
        Begin(w, slot[r]) <= now /\ attempts[w][slot[r]] >= 1

\* A refused request has ended.
RefusedEnds == \A r \in Requests : refused[r] \in Windows => pc[r] = "refused"

LimiterInv ==
    /\ TypeOK
    /\ \A w \in Windows, i \in Periods : CounterOK(w, i)
    /\ Started
    /\ RefusedEnds
    /\ RefusalIsDue
    /\ CountersAreCollected

\* Periods begin, end and expire at natural times.
LEMMA BeginInNat ==
    ASSUME NEW w \in Windows, NEW i \in Periods
    PROVE  Begin(w, i) \in Nat /\ Reach(w, i) \in Nat /\ End(w, i) = Begin(w, i) + Length[w]
    <1>1. i \in Nat /\ Length[w] \in Nat
      OBVIOUS
    <1>2. i * Length[w] \in Nat
      BY <1>1
    <1> QED BY <1>2 DEF Begin, Reach, End

\* What TypeOK says of one period.
LEMMA HistoryTypes ==
    ASSUME TypeOK, NEW w \in Windows, NEW i \in Periods
    PROVE  /\ counter[w][i].count \in Nat /\ counter[w][i].until \in Nat
           /\ passed[w][i] \in Nat /\ late[w][i] \in Nat /\ attempts[w][i] \in Nat
    <1>1. counter[w][i] \in Counter
      BY DEF TypeOK
    <1>2. counter[w][i].count \in Nat /\ counter[w][i].until \in Nat
      BY <1>1 DEF Counter
    <1>3. passed[w][i] \in Nat /\ late[w][i] \in Nat /\ attempts[w][i] \in Nat
      BY DEF TypeOK
    <1> QED BY <1>2, <1>3

\* The period of a command has begun, and ended at most MaxDelay ago.
LEMMA CurrentBound ==
    ASSUME TypeOK, NEW w \in Windows, NEW i \in Current(w)
    PROVE  i \in Periods /\ Begin(w, i) <= now /\ now < End(w, i) + MaxDelay
    <1>1. PICK at \in Readings : InPeriod(w, i, at)
      BY DEF Current
    <1>2. i \in Periods
      BY DEF Current
    <1>3. at \in Nat /\ at <= now /\ now <= at + MaxDelay
      BY <1>1 DEF Readings, TypeOK
    <1> QED BY <1>1, <1>2, <1>3, BeginInNat DEF InPeriod, TypeOK

\* What n INCRs do, to their counter and to no other.
LEMMA AddEffect ==
    ASSUME TypeOK, NEW w \in Windows, NEW i \in Periods, NEW n \in 0 .. 2, Add(w, i, n)
    PROVE  /\ counter' \in [Windows -> [Periods -> Counter]]
           /\ attempts' \in [Windows -> [Periods -> Nat]]
           /\ counter'[w][i].count = Count(counter[w][i]) + n
           /\ counter'[w][i].until = IF Alive(counter[w][i]) THEN counter[w][i].until ELSE 0
           /\ attempts'[w][i] = attempts[w][i] + n
           /\ \A v \in Windows, j \in Periods : (v # w \/ j # i) =>
                 counter'[v][j] = counter[v][j] /\ attempts'[v][j] = attempts[v][j]
    <1> DEFINE c == counter[w][i]
               new == [count |-> Count(c) + n, until |-> IF Alive(c) THEN c.until ELSE 0]
    <1>0. c \in Counter
      BY DEF TypeOK
    <1>1. c \in Counter /\ Count(c) \in Nat
      BY <1>0 DEF Count, Counter
    <1>2. new \in Counter
      BY <1>1 DEF Counter
    <1>3. counter' = [counter EXCEPT ![w][i] = new]
      BY DEF Add
    <1>4. attempts' = [attempts EXCEPT ![w][i] = attempts[w][i] + n]
      BY DEF Add
    <1> HIDE DEF new
    <1>5. counter'[w][i] = new
      BY <1>3 DEF TypeOK
    <1>6. \A v \in Windows, j \in Periods : (v # w \/ j # i) => counter'[v][j] = counter[v][j]
      BY <1>3 DEF TypeOK
    <1>7. counter' \in [Windows -> [Periods -> Counter]]
      BY <1>2, <1>3 DEF TypeOK
    <1>8. /\ attempts' \in [Windows -> [Periods -> Nat]]
          /\ attempts'[w][i] = attempts[w][i] + n
          /\ \A v \in Windows, j \in Periods : (v # w \/ j # i) => attempts'[v][j] = attempts[v][j]
      BY <1>4 DEF TypeOK
    <1> QED BY <1>5, <1>6, <1>7, <1>8 DEF new

\* What the bookkeeping of a passing INCR does.
LEMMA PassEffect ==
    ASSUME TypeOK, NEW w \in Windows, NEW i \in Periods, Pass(w, i)
    PROVE  /\ passed' \in [Windows -> [Periods -> Nat]]
           /\ late' \in [Windows -> [Periods -> Nat]]
           /\ passed'[w][i] = passed[w][i] + 1
           /\ late'[w][i] = IF now < End(w, i) THEN late[w][i] ELSE late[w][i] + 1
           /\ \A v \in Windows, j \in Periods : (v # w \/ j # i) =>
                 passed'[v][j] = passed[v][j] /\ late'[v][j] = late[v][j]
    <1>0. passed' = [passed EXCEPT ![w][i] = passed[w][i] + 1]
      BY DEF Pass
    <1>1. /\ passed' \in [Windows -> [Periods -> Nat]]
          /\ passed'[w][i] = passed[w][i] + 1
          /\ \A v \in Windows, j \in Periods : (v # w \/ j # i) => passed'[v][j] = passed[v][j]
      BY <1>0 DEF TypeOK
    <1>2. CASE now < End(w, i)
      BY <1>1, <1>2 DEF Pass, TypeOK
    <1>3. CASE ~(now < End(w, i))
      <2>1. late' = [late EXCEPT ![w][i] = late[w][i] + 1]
        BY <1>3 DEF Pass
      <2> QED BY <1>1, <1>3, <2>1 DEF TypeOK
    <1> QED BY <1>2, <1>3

\* INCRs of a period that can still be read keep its counter in order, whether
\* their request passes, fails or is refused.
LEMMA CountedStep ==
    ASSUME TypeOK, NEW w \in Windows, NEW i \in Current(w), NEW n \in 0 .. 2,
           \A v \in Windows, j \in Periods : CounterOK(v, j),
           Add(w, i, n), now' = now,
           \/ n >= 1 /\ Permits(w, Count(counter[w][i]) + n) /\ Pass(w, i)
           \/ UNCHANGED <<passed, late>>
    PROVE  /\ \A v \in Windows, j \in Periods : CounterOK(v, j)'
           /\ passed' \in [Windows -> [Periods -> Nat]]
           /\ late' \in [Windows -> [Periods -> Nat]]
    <1>0. i \in Periods /\ Begin(w, i) <= now /\ now < End(w, i) + MaxDelay
      BY CurrentBound
    <1> DEFINE c == counter[w][i]
    <1>1. /\ passed' \in [Windows -> [Periods -> Nat]]
          /\ late' \in [Windows -> [Periods -> Nat]]
          /\ \A v \in Windows, j \in Periods : (v # w \/ j # i) =>
                passed'[v][j] = passed[v][j] /\ late'[v][j] = late[v][j]
          /\ \/ /\ n >= 1 /\ Count(c) + n <= Limit[w]
                /\ passed'[w][i] = passed[w][i] + 1
                /\ late'[w][i] = IF now < End(w, i) THEN late[w][i] ELSE late[w][i] + 1
             \/ passed'[w][i] = passed[w][i] /\ late'[w][i] = late[w][i]
      BY <1>0, PassEffect DEF TypeOK, Permits
    <1>2. /\ counter'[w][i].count = Count(c) + n
          /\ counter'[w][i].until = IF Alive(c) THEN c.until ELSE 0
          /\ attempts'[w][i] = attempts[w][i] + n
          /\ \A v \in Windows, j \in Periods : (v # w \/ j # i) =>
                counter'[v][j] = counter[v][j] /\ attempts'[v][j] = attempts[v][j]
      BY <1>0, AddEffect
    <1>3. /\ Begin(w, i) \in Nat /\ Reach(w, i) \in Nat /\ now \in Nat
          /\ End(w, i) = Begin(w, i) + Length[w] /\ Reach(w, i) = Begin(w, i) + CounterTTL[w]
          /\ Length[w] \in Nat /\ CounterTTL[w] \in Nat /\ CounterTTL[w] >= Length[w]
          /\ Limit[w] \in Nat /\ MaxDelay \in Nat
      BY <1>0, BeginInNat DEF TypeOK, Reach
    <1>4. c.count \in Nat /\ c.until \in Nat /\ passed[w][i] \in Nat /\ late[w][i] \in Nat
          /\ attempts[w][i] \in Nat
      BY <1>0, HistoryTypes
    <1>11. passed'[w][i] \in Nat /\ late'[w][i] \in Nat
      BY <1>0, <1>1
    <1>5. CounterOK(w, i)
      BY <1>0
    <1>6. now < Reach(w, i) => Count(c) = c.count
      <2>1. c.until # 0 => c.until >= Reach(w, i)
        BY <1>5 DEF CounterOK
      <2> HIDE DEF c
      <2> QED BY <1>3, <1>4, <2>1 DEF Alive, Count
    <1>7. Count(c) \in Nat /\ Count(c) <= c.count
      BY <1>4 DEF Count
    <1>8. CounterOK(w, i)'
      <2>1. Reach(w, i)' = Reach(w, i)
        BY DEF Reach, Begin
      <2>2. counter'[w][i].until # 0 => counter'[w][i].until >= Reach(w, i)
        BY <1>2, <1>5 DEF CounterOK
      <2>3. counter'[w][i].count <= attempts'[w][i]
        BY <1>2, <1>4, <1>5, <1>7 DEF CounterOK
      <2>4. now < Reach(w, i) => passed'[w][i] <= counter'[w][i].count /\ passed'[w][i] <= Limit[w]
        BY <1>1, <1>2, <1>3, <1>4, <1>5, <1>6 DEF CounterOK
      <2>5. passed'[w][i] - late'[w][i] <= Limit[w]
        <3>1. CASE now < Reach(w, i)
          BY <1>3, <1>11, <2>4, <3>1
        <3>2. CASE ~(now < Reach(w, i))
          <4>1. ~(now < End(w, i))
            BY <1>3, <3>2
          <4> QED BY <1>1, <1>3, <1>4, <1>5, <4>1 DEF CounterOK
        <3> QED BY <3>1, <3>2
      <2>6. CounterTTL[w] >= Length[w] + MaxDelay => passed'[w][i] <= Limit[w]
        BY <1>0, <1>3, <2>4
      <2> QED BY <2>1, <2>2, <2>3, <2>4, <2>5, <2>6 DEF CounterOK
    <1>9. ASSUME NEW v \in Windows, NEW j \in Periods, v # w \/ j # i
          PROVE  CounterOK(v, j)'
      <2>1. Reach(v, j)' = Reach(v, j)
        BY DEF Reach, Begin
      <2> QED BY <1>1, <1>2, <1>9, <2>1 DEF CounterOK
    <1> QED BY <1>1, <1>8, <1>9

\* The steps of a request other than its INCR leave what was counted alone.
LEMMA CounterKept ==
    ASSUME TypeOK, NEW w \in Windows, NEW i \in Periods, CounterOK(w, i),
           UNCHANGED <<now, passed, late, attempts>>, counter'[w][i] = counter[w][i]
    PROVE  CounterOK(w, i)'
    BY DEF CounterOK, Reach, Begin

\* A request goes to another step, and nothing else of the requests changes
\* but what has refused it.
LEMMA JudgeEffect ==
    ASSUME TypeOK, NEW r \in Requests, NEW w \in Windows, NEW n \in Nat, Judge(r, w, n)
    PROVE  /\ pc' \in [Requests -> Step]
           /\ refused' \in [Requests -> Windows \cup {"burst", "none"}]
           /\ \A q \in Requests : q # r => pc'[q] = pc[q] /\ refused'[q] = refused[q]
           /\ \/ Permits(w, n) /\ pc'[r] = After(w) /\ refused'[r] = refused[r]
              \/ ~Permits(w, n) /\ pc'[r] = "refused" /\ refused'[r] = w
    BY DEF Judge, Goto, After, TypeOK, Step, Windows

\* The INCR of request r, with whatever becomes of the request, keeps the
\* invariant: either the request goes on, or it is refused by a counter that
\* more commands than the limit have incremented.
LEMMA IncrementStep ==
    ASSUME LimiterInv, NEW r \in Requests, NEW w \in Windows, NEW i \in Current(w),
           NEW n \in 0 .. 2, pc[r] = w, Add(w, i, n), now' = now,
           slot' = [slot EXCEPT ![r] = i],
           \/ n >= 1 /\ Permits(w, Count(counter[w][i]) + n) /\ Pass(w, i)
           \/ UNCHANGED <<passed, late>>,
           pc' \in [Requests -> Step],
           refused' \in [Requests -> Windows \cup {"burst", "none"}],
           \A q \in Requests : q # r => pc'[q] = pc[q] /\ refused'[q] = refused[q],
           \/ n = 1 /\ pc'[r] = TTLStep(w) /\ refused'[r] = refused[r]
           \/ pc'[r] \in {"day", "admitted", "failed"} /\ refused'[r] = refused[r]
           \/ pc'[r] = "refused" /\ refused'[r] = w /\ ~Permits(w, Count(counter[w][i]) + n),
           orphans' \in SUBSET (Windows \X Periods), orphans \subseteq orphans',
           n > 0 /\ ~Alive(counter[w][i]) => <<w, i>> \in orphans' \/ pc'[r] = TTLStep(w)
    PROVE  LimiterInv'
    <1>0. /\ TypeOK /\ Started /\ RefusedEnds /\ RefusalIsDue /\ CountersAreCollected
          /\ \A v \in Windows, j \in Periods : CounterOK(v, j)
      BY DEF LimiterInv
    <1>1. i \in Periods /\ Begin(w, i) <= now
      BY <1>0, CurrentBound
    <1>2. /\ \A v \in Windows, j \in Periods : CounterOK(v, j)'
          /\ passed' \in [Windows -> [Periods -> Nat]]
          /\ late' \in [Windows -> [Periods -> Nat]]
      BY <1>0, CountedStep
    <1>3. /\ counter' \in [Windows -> [Periods -> Counter]]
          /\ attempts' \in [Windows -> [Periods -> Nat]]
          /\ counter'[w][i].count = Count(counter[w][i]) + n
          /\ counter'[w][i].until = IF Alive(counter[w][i]) THEN counter[w][i].until ELSE 0
          /\ attempts'[w][i] = attempts[w][i] + n
          /\ \A v \in Windows, j \in Periods : (v # w \/ j # i) =>
                counter'[v][j] = counter[v][j] /\ attempts'[v][j] = attempts[v][j]
      BY <1>0, <1>1, AddEffect
    <1>4. slot' \in [Requests -> Periods] /\ slot'[r] = i
          /\ \A q \in Requests : q # r => slot'[q] = slot[q]
      BY <1>0, <1>1 DEF TypeOK
    <1>5. TypeOK'
      BY <1>0, <1>2, <1>3, <1>4 DEF TypeOK
    <1>6. Started'
      <2> SUFFICES ASSUME NEW q \in Requests, NEW v \in Windows, pc'[q] = TTLStep(v)
                   PROVE  Begin(v, slot'[q]) <= now' /\ attempts'[v][slot'[q]] >= 1
        BY DEF Started, Begin
      <2>0. attempts[w][i] \in Nat /\ attempts'[w][i] = attempts[w][i] + n
        BY <1>0, <1>1, <1>3, HistoryTypes
      <2>1. CASE q # r
        <3>1. PICK j \in Periods : j = slot[q] /\ j = slot'[q]
          BY <1>0, <1>4, <2>1 DEF TypeOK
        <3>2. Begin(v, j) <= now /\ attempts[v][j] >= 1
          BY <1>0, <2>1, <3>1 DEF Started
        <3>3. attempts'[v][j] >= 1
          <4>1. CASE v = w /\ j = i
            BY <2>0, <3>2, <4>1
          <4>2. CASE v # w \/ j # i
            BY <1>3, <3>2, <4>2
          <4> QED BY <4>1, <4>2
        <3> QED BY <3>1, <3>2, <3>3
      <2>2. CASE q = r
        <3>1. v = w /\ n = 1
          BY <2>2 DEF TTLStep, Windows
        <3>2. attempts'[w][i] >= 1
          BY <2>0, <3>1
        <3> QED BY <1>1, <1>4, <2>2, <3>1, <3>2
      <2> QED BY <2>1, <2>2
    <1>7. RefusedEnds'
      <2>1. pc[r] # "refused"
        BY DEF Windows
      <2>2. refused[r] \notin Windows
        BY <1>0, <2>1 DEF RefusedEnds
      <2> QED BY <1>0, <2>2 DEF RefusedEnds
    <1>8. RefusalIsDue'
      <2> SUFFICES ASSUME NEW q \in Requests, refused'[q] \in Windows
                   PROVE  attempts'[refused'[q]][slot'[q]] > Limit[refused'[q]]
        BY DEF RefusalIsDue
      <2>1. CASE q # r
        <3>0. PICK v \in Windows, j \in Periods :
                 v = refused[q] /\ j = slot[q] /\ attempts[v][j] > Limit[v]
          BY <1>0, <2>1 DEF RefusalIsDue, TypeOK
        <3>1. v \in Windows /\ j \in Periods /\ attempts[v][j] > Limit[v]
          BY <3>0
        <3>3. attempts'[v][j] \in Nat /\ attempts[v][j] \in Nat /\ Limit[v] \in Nat
          BY <1>0, <1>3, <3>1 DEF TypeOK
        <3>2. attempts'[v][j] >= attempts[v][j]
          <4>1. CASE v = w /\ j = i
            BY <1>3, <3>3, <4>1
          <4>2. CASE v # w \/ j # i
            BY <1>3, <3>3, <4>2
          <4> QED BY <4>1, <4>2
        <3>4. attempts'[v][j] > Limit[v]
          BY <3>1, <3>2, <3>3
        <3> QED BY <1>4, <2>1, <3>0, <3>4
      <2>2. CASE q = r
        <3>1. refused[r] \notin Windows
          BY <1>0 DEF RefusedEnds, Windows
        <3>2. refused'[r] = w /\ ~Permits(w, Count(counter[w][i]) + n)
          BY <2>2, <3>1
        <3>3. counter'[w][i].count <= attempts'[w][i]
          BY <1>1, <1>2 DEF CounterOK
        <3>4. attempts'[w][i] \in Nat /\ counter'[w][i].count \in Nat /\ Limit[w] \in Nat
          <4>1. counter'[w][i] \in Counter
            BY <1>1, <1>3
          <4> QED BY <1>1, <1>3, <4>1 DEF Counter
        <3>5. attempts'[w][i] > Limit[w]
          BY <1>3, <3>2, <3>3, <3>4 DEF Permits
        <3> QED BY <1>4, <2>2, <3>2, <3>5
      <2> QED BY <2>1, <2>2
    <1>9. CountersAreCollected'
      <2> SUFFICES ASSUME NEW v \in Windows, NEW j \in Periods,
                          counter'[v][j].count > 0, counter'[v][j].until = 0
                   PROVE  \/ <<v, j>> \in orphans'
                          \/ \E q \in Requests : pc'[q] = TTLStep(v) /\ slot'[q] = j
        BY DEF CountersAreCollected
      <2>1. ASSUME counter[v][j].count > 0, counter[v][j].until = 0
            PROVE  \/ <<v, j>> \in orphans'
                   \/ \E q \in Requests : pc'[q] = TTLStep(v) /\ slot'[q] = j
        <3>1. CASE <<v, j>> \in orphans
          BY <3>1
        <3>2. CASE \E q \in Requests : pc[q] = TTLStep(v) /\ slot[q] = j
          <4>1. PICK q \in Requests : pc[q] = TTLStep(v) /\ slot[q] = j
            BY <3>2
          <4>2. q # r
            BY <4>1 DEF TTLStep, Windows
          <4> QED BY <1>4, <4>1, <4>2
        <3> QED BY <1>0, <2>1, <3>1, <3>2 DEF CountersAreCollected
      <2>2. CASE v # w \/ j # i
        BY <1>3, <2>1, <2>2
      <2>3. CASE v = w /\ j = i
        <3>1. CASE Alive(counter[w][i])
          BY <1>3, <2>1, <2>3, <3>1 DEF Alive
        <3>2. CASE ~Alive(counter[w][i])
          <4>1. n > 0
            BY <1>3, <2>3, <3>2 DEF Count
          <4> QED BY <1>4, <2>3, <3>2, <4>1
        <3> QED BY <3>1, <3>2
      <2> QED BY <2>2, <2>3
    <1> QED BY <1>2, <1>5, <1>6, <1>7, <1>8, <1>9 DEF LimiterInv

\* Every action of a request, and every step of its surroundings, keeps the
\* invariant.
LEMMA LimiterStep == LimiterInv /\ [Next]_vars => LimiterInv'
    <1> SUFFICES ASSUME LimiterInv, [Next]_vars PROVE LimiterInv'
      OBVIOUS
    <1>0. /\ TypeOK /\ Started /\ RefusedEnds /\ RefusalIsDue /\ CountersAreCollected
          /\ \A w \in Windows, i \in Periods : CounterOK(w, i)
      BY DEF LimiterInv
    <1>1. ASSUME NEW r \in Requests, CheckBurst(r) PROVE LimiterInv'
      <2>1. TypeOK'
        BY <1>0, <1>1 DEF CheckBurst, Goto, TypeOK, Step, Windows
      <2>2. \A w \in Windows, i \in Periods : CounterOK(w, i)'
        BY <1>0, <1>1, CounterKept DEF CheckBurst
      <2>3. \A q \in Requests : q # r => pc'[q] = pc[q] /\ refused'[q] = refused[q]
        BY <1>0, <1>1 DEF CheckBurst, Goto, TypeOK
      <2>4. /\ pc[r] = "burst" /\ pc'[r] \in {"minute", "refused", "failed"}
            /\ refused'[r] = refused[r] \/ refused'[r] = "burst"
        BY <1>0, <1>1 DEF CheckBurst, Goto, TypeOK
      <2>5. refused[r] \notin Windows
        BY <1>0, <2>4 DEF RefusedEnds
      <2>6. UNCHANGED <<now, counter, slot, attempts, orphans>>
        BY <1>1 DEF CheckBurst
      <2>7. Started'
        BY <1>0, <2>3, <2>4, <2>6 DEF Started, TTLStep, Begin
      <2>8. RefusedEnds' /\ RefusalIsDue'
        BY <1>0, <2>3, <2>4, <2>5, <2>6 DEF RefusedEnds, RefusalIsDue, Windows
      <2>9. CountersAreCollected'
        BY <1>0, <2>3, <2>4, <2>6 DEF CountersAreCollected, TTLStep
      <2> QED BY <2>1, <2>2, <2>7, <2>8, <2>9 DEF LimiterInv
    <1>2. ASSUME NEW r \in Requests, NEW w \in Windows, Check(r, w) PROVE LimiterInv'
      <2>1. PICK i \in Current(w) : slot' = [slot EXCEPT ![r] = i] /\ Increment(r, w, i)
        BY <1>2 DEF Check
      <2>2. i \in Periods
        BY <1>0, <2>1, CurrentBound
      <2> DEFINE n == Count(counter[w][i]) + 1
      <2>3. n \in Nat
        <3>1. counter[w][i] \in Counter
          BY <1>0, <2>2 DEF TypeOK
        <3> QED BY <3>1 DEF Count, Counter
      <2>4. /\ Add(w, i, 1) /\ pc[r] = w /\ now' = now /\ orphans' = orphans
            /\ \/ Permits(w, n) /\ Pass(w, i)
               \/ UNCHANGED <<passed, late>>
            /\ \/ n = 1 /\ Goto(r, TTLStep(w)) /\ UNCHANGED refused
               \/ n # 1 /\ Judge(r, w, n)
        BY <1>2, <2>1 DEF Check, Increment
      <2>5. /\ pc' \in [Requests -> Step]
            /\ refused' \in [Requests -> Windows \cup {"burst", "none"}]
            /\ \A q \in Requests : q # r => pc'[q] = pc[q] /\ refused'[q] = refused[q]
            /\ \/ n = 1 /\ pc'[r] = TTLStep(w) /\ refused'[r] = refused[r]
               \/ n # 1 /\ pc'[r] = After(w) /\ refused'[r] = refused[r]
               \/ n # 1 /\ pc'[r] = "refused" /\ refused'[r] = w /\ ~Permits(w, n)
        <3>1. CASE n = 1 /\ Goto(r, TTLStep(w)) /\ UNCHANGED refused
          BY <1>0, <3>1 DEF Goto, TTLStep, TypeOK, Step
        <3>2. CASE n # 1 /\ Judge(r, w, n)
          <4> HIDE DEF n
          <4> QED BY <1>0, <2>3, <3>2, JudgeEffect
        <3> QED BY <2>4, <3>1, <3>2
      <2>6. ~Alive(counter[w][i]) => n = 1
        BY DEF Count
      <2>7. After(w) \in {"day", "admitted"}
        BY DEF After
      <2>8. /\ 1 \in 0 .. 2 /\ 1 >= 1 /\ slot' = [slot EXCEPT ![r] = i]
            /\ orphans' \in SUBSET (Windows \X Periods) /\ orphans \subseteq orphans'
        BY <1>0, <2>1, <2>4 DEF TypeOK
      <2>9. /\ \/ 1 = 1 /\ pc'[r] = TTLStep(w) /\ refused'[r] = refused[r]
               \/ pc'[r] \in {"day", "admitted", "failed"} /\ refused'[r] = refused[r]
               \/ pc'[r] = "refused" /\ refused'[r] = w /\ ~Permits(w, n)
            /\ ~Alive(counter[w][i]) => pc'[r] = TTLStep(w)
        BY <2>5, <2>6, <2>7
      <2> QED BY <2>4, <2>5, <2>8, <2>9, IncrementStep
    <1>3. ASSUME NEW r \in Requests, NEW w \in Windows, CheckFails(r, w) PROVE LimiterInv'
      <2>1. PICK i \in Current(w), n \in 0 .. 2 :
              /\ Add(w, i, n)
              /\ slot' = [slot EXCEPT ![r] = i]
              /\ orphans' = IF n > 0 /\ ~Alive(counter[w][i])
                            THEN orphans \cup {<<w, i>>} ELSE orphans
              /\ \/ Goto(r, "failed") /\ UNCHANGED <<refused, passed, late>>
                 \/ /\ n = 2 /\ Judge(r, w, Count(counter[w][i]) + 2)
                    /\ IF Permits(w, Count(counter[w][i]) + 2)
                       THEN Pass(w, i) ELSE UNCHANGED <<passed, late>>
        BY <1>3 DEF CheckFails
      <2>2. i \in Periods /\ pc[r] = w /\ now' = now
        BY <1>0, <1>3, <2>1, CurrentBound DEF CheckFails
      <2>3. Count(counter[w][i]) + 2 \in Nat
        <3>1. counter[w][i] \in Counter
          BY <1>0, <2>2 DEF TypeOK
        <3> QED BY <3>1 DEF Count, Counter
      <2>4. /\ pc' \in [Requests -> Step]
            /\ refused' \in [Requests -> Windows \cup {"burst", "none"}]
            /\ \A q \in Requests : q # r => pc'[q] = pc[q] /\ refused'[q] = refused[q]
            /\ \/ pc'[r] = "failed" /\ refused'[r] = refused[r]
               \/ n = 2 /\ pc'[r] = After(w) /\ refused'[r] = refused[r]
               \/ /\ n = 2 /\ pc'[r] = "refused" /\ refused'[r] = w
                  /\ ~Permits(w, Count(counter[w][i]) + 2)
        <3>1. CASE Goto(r, "failed") /\ UNCHANGED <<refused, passed, late>>
          BY <1>0, <3>1 DEF Goto, TypeOK, Step
        <3>2. CASE n = 2 /\ Judge(r, w, Count(counter[w][i]) + 2)
          BY <1>0, <2>3, <3>2, JudgeEffect
        <3> QED BY <2>1, <3>1, <3>2
      <2>5. \/ n >= 1 /\ Permits(w, Count(counter[w][i]) + n) /\ Pass(w, i)
            \/ UNCHANGED <<passed, late>>
        BY <2>1
      <2>6. /\ orphans' \in SUBSET (Windows \X Periods) /\ orphans \subseteq orphans'
            /\ n > 0 /\ ~Alive(counter[w][i]) => <<w, i>> \in orphans'
        BY <1>0, <2>1, <2>2 DEF TypeOK
      <2>7. After(w) \in {"day", "admitted"}
        BY DEF After
      <2> QED BY <2>1, <2>2, <2>4, <2>5, <2>6, <2>7, IncrementStep
    <1>4. ASSUME NEW r \in Requests, NEW w \in Windows,
                 pc[r] = TTLStep(w), SetTTL(w, slot[r]),
                 UNCHANGED <<now, slot, attempts, passed, late, orphans>>,
                 pc' \in [Requests -> Step],
                 refused' \in [Requests -> Windows \cup {"burst", "none"}],
                 \A q \in Requests : q # r => pc'[q] = pc[q] /\ refused'[q] = refused[q],
                 \/ pc'[r] \in {"day", "admitted", "failed"} /\ refused'[r] = refused[r]
                 \/ pc'[r] = "refused" /\ refused'[r] = w /\ ~Permits(w, 1)
          PROVE  LimiterInv'
      <2>0. PICK i \in Periods : i = slot[r]
        BY <1>0 DEF TypeOK
      <2>1. i \in Periods /\ Begin(w, i) <= now /\ now \in Nat /\ attempts[w][i] >= 1
        BY <1>0, <1>4, <2>0 DEF TypeOK, Started
      <2>2. counter' = [counter EXCEPT ![w][i].until = now + CounterTTL[w]]
        BY <1>4, <2>0 DEF SetTTL
      <2>3. counter[w][i] \in Counter /\ counter \in [Windows -> [Periods -> Counter]]
        BY <1>0, <2>1 DEF TypeOK
      <2>4. /\ CounterTTL[w] \in Nat /\ CounterTTL[w] > 0
            /\ now + CounterTTL[w] \in Nat /\ now + CounterTTL[w] > 0
        BY <2>1
      <2>5. /\ counter' \in [Windows -> [Periods -> Counter]]
            /\ counter'[w][i].until = now + CounterTTL[w]
            /\ counter'[w][i].count = counter[w][i].count
            /\ \A v \in Windows, j \in Periods : (v # w \/ j # i) => counter'[v][j] = counter[v][j]
        BY <2>1, <2>2, <2>3, <2>4 DEF Counter
      <2>6. TypeOK'
        BY <1>0, <1>4, <2>5 DEF TypeOK
      <2>7. \A v \in Windows, j \in Periods : CounterOK(v, j)'
        <3> SUFFICES ASSUME NEW v \in Windows, NEW j \in Periods PROVE CounterOK(v, j)'
          OBVIOUS
        <3>1. CASE v # w \/ j # i
          BY <1>0, <1>4, <2>5, <3>1, CounterKept
        <3>2. CASE v = w /\ j = i
          <4>1. Reach(w, i)' = Reach(w, i) /\ now + CounterTTL[w] >= Reach(w, i)
            BY <2>1, <2>4, BeginInNat DEF Reach, Begin
          <4>2. CounterOK(w, i)
            BY <1>0, <2>1
          <4> QED BY <1>4, <2>5, <3>2, <4>1, <4>2 DEF CounterOK
        <3> QED BY <3>1, <3>2
      <2>8. pc[r] # "refused" /\ refused[r] \notin Windows
        BY <1>0, <1>4 DEF RefusedEnds, TTLStep
      <2>9. Started' /\ RefusedEnds'
        BY <1>0, <1>4, <2>8 DEF Started, RefusedEnds, Begin, TTLStep
      <2>10. CountersAreCollected'
        <3> SUFFICES ASSUME NEW v \in Windows, NEW j \in Periods,
                            counter'[v][j].count > 0, counter'[v][j].until = 0
                     PROVE  \/ <<v, j>> \in orphans'
                            \/ \E q \in Requests : pc'[q] = TTLStep(v) /\ slot'[q] = j
          BY DEF CountersAreCollected
        <3>1. v # w \/ j # i
          BY <2>4, <2>5
        <3>2. counter[v][j].count > 0 /\ counter[v][j].until = 0
          BY <2>5, <3>1
        <3>3. CASE <<v, j>> \in orphans
          BY <1>4, <3>3
        <3>4. CASE \E q \in Requests : pc[q] = TTLStep(v) /\ slot[q] = j
          <4>1. PICK q \in Requests : pc[q] = TTLStep(v) /\ slot[q] = j
            BY <3>4
          <4>2. q # r
            BY <1>4, <2>0, <3>1, <4>1 DEF TTLStep, Windows
          <4> QED BY <1>4, <4>1, <4>2
        <3> QED BY <1>0, <3>2, <3>3, <3>4 DEF CountersAreCollected
      <2>11. RefusalIsDue'
        <3> SUFFICES ASSUME NEW q \in Requests, refused'[q] \in Windows
                     PROVE  attempts[refused'[q]][slot[q]] > Limit[refused'[q]]
          BY <1>4 DEF RefusalIsDue
        <3>1. CASE q # r
          BY <1>0, <1>4, <3>1 DEF RefusalIsDue
        <3>2. CASE q = r
          <4>1. refused'[r] = w /\ ~(1 <= Limit[w])
            BY <1>4, <2>8, <3>2 DEF Permits
          <4>2. attempts[w][i] >= 1 /\ attempts[w][i] \in Nat /\ Limit[w] \in Nat
            BY <1>0, <2>1, HistoryTypes
          <4> QED BY <2>0, <3>2, <4>1, <4>2
        <3> QED BY <3>1, <3>2
      <2> QED BY <2>6, <2>7, <2>9, <2>10, <2>11 DEF LimiterInv
    <1>5. ASSUME NEW r \in Requests, NEW w \in Windows, Expire(r, w) PROVE LimiterInv'
      <2>1. After(w) \in {"day", "admitted"}
        BY DEF After
      <2>2. /\ pc[r] = TTLStep(w) /\ SetTTL(w, slot[r]) /\ Judge(r, w, 1)
            /\ UNCHANGED <<now, slot, attempts, passed, late, orphans>>
        BY <1>5 DEF Expire
      <2>3. /\ pc' \in [Requests -> Step]
            /\ refused' \in [Requests -> Windows \cup {"burst", "none"}]
            /\ \A q \in Requests : q # r => pc'[q] = pc[q] /\ refused'[q] = refused[q]
            /\ \/ pc'[r] = After(w) /\ refused'[r] = refused[r]
               \/ ~Permits(w, 1) /\ pc'[r] = "refused" /\ refused'[r] = w
        BY <1>0, <2>2, JudgeEffect
      <2> QED BY <1>4, <2>1, <2>2, <2>3
    <1>6. ASSUME NEW r \in Requests, pc[r] # "refused", Goto(r, "failed"),
                 UNCHANGED <<now, counter, slot, refused, attempts, passed, late>>,
                 orphans' \in SUBSET (Windows \X Periods), orphans \subseteq orphans',
                 \A w \in Windows : pc[r] = TTLStep(w) => <<w, slot[r]>> \in orphans'
          PROVE  LimiterInv'
      <2>1. pc' = [pc EXCEPT ![r] = "failed"] /\ pc' \in [Requests -> Step]
        BY <1>0, <1>6 DEF Goto, TypeOK, Step
      <2>2. pc'[r] = "failed" /\ \A q \in Requests : q # r => pc'[q] = pc[q]
        BY <1>0, <2>1 DEF TypeOK
      <2>3. TypeOK'
        BY <1>0, <1>6, <2>1 DEF TypeOK
      <2>4. \A w \in Windows, i \in Periods : CounterOK(w, i)'
        BY <1>0, <1>6, CounterKept
      <2>5. Started' /\ RefusedEnds' /\ RefusalIsDue'
        BY <1>0, <1>6, <2>2 DEF Started, RefusedEnds, RefusalIsDue, TTLStep, Begin
      <2>6. CountersAreCollected'
        BY <1>0, <1>6, <2>2 DEF CountersAreCollected
      <2> QED BY <2>3, <2>4, <2>5, <2>6 DEF LimiterInv
    <1>7. ASSUME NEW r \in Requests, NEW w \in Windows, ExpireFails(r, w) PROVE LimiterInv'
      <2>1. /\ pc[r] = TTLStep(w) /\ Goto(r, "failed")
            /\ UNCHANGED <<now, slot, refused, attempts, passed, late>>
        BY <1>7 DEF ExpireFails
      <2>2. CASE SetTTL(w, slot[r]) /\ UNCHANGED orphans
        <3>1. /\ pc' \in [Requests -> Step] /\ pc'[r] = "failed"
              /\ \A q \in Requests : q # r => pc'[q] = pc[q]
          BY <1>0, <2>1 DEF Goto, TypeOK, Step
        <3>2. refused' \in [Requests -> Windows \cup {"burst", "none"}]
          BY <1>0, <2>1 DEF TypeOK
        <3> QED BY <1>4, <2>1, <2>2, <3>1, <3>2
      <2>3. CASE UNCHANGED counter /\ orphans' = orphans \cup {<<w, slot[r]>>}
        <3>1. \A v \in Windows : pc[r] = TTLStep(v) => v = w
          BY <2>1 DEF TTLStep, Windows
        <3>2. orphans' \in SUBSET (Windows \X Periods) /\ pc[r] # "refused"
          BY <1>0, <2>1, <2>3 DEF TypeOK, TTLStep
        <3> QED BY <1>6, <2>1, <2>3, <3>1, <3>2
      <2> QED BY <1>7, <2>2, <2>3 DEF ExpireFails
    <1>8. ASSUME NEW r \in Requests, Crash(r) PROVE LimiterInv'
      <2>1. orphans' = orphans \cup {<<w, slot[r]>> : w \in {w \in Windows : pc[r] = TTLStep(w)}}
        BY <1>8 DEF Crash
      <2>2. slot[r] \in Periods /\ orphans \in SUBSET (Windows \X Periods)
        BY <1>0 DEF TypeOK
      <2>3. orphans' \in SUBSET (Windows \X Periods)
        BY <2>1, <2>2
      <2> QED BY <1>6, <1>8, <2>1, <2>3 DEF Crash, Final
    <1>9. CASE Tick
      <2>1. now' = now + 1 /\ UNCHANGED <<counter, pc, slot, refused, attempts, passed, late, orphans>>
        BY <1>9 DEF Tick, Advance
      <2>2. TypeOK' /\ RefusedEnds' /\ RefusalIsDue' /\ CountersAreCollected'
        BY <1>0, <2>1 DEF TypeOK, RefusedEnds, RefusalIsDue, CountersAreCollected
      <2>3. \A w \in Windows, i \in Periods : CounterOK(w, i)'
        <3> SUFFICES ASSUME NEW w \in Windows, NEW i \in Periods PROVE CounterOK(w, i)'
          OBVIOUS
        <3>1. CounterOK(w, i) /\ Reach(w, i)' = Reach(w, i) /\ Reach(w, i) \in Nat /\ now \in Nat
          BY <1>0, BeginInNat DEF TypeOK, Reach, Begin
        <3> QED BY <2>1, <3>1 DEF CounterOK
      <2>4. Started'
        <3> SUFFICES ASSUME NEW r \in Requests, NEW w \in Windows, pc[r] = TTLStep(w)
                     PROVE  Begin(w, slot[r]) <= now + 1 /\ attempts[w][slot[r]] >= 1
          BY <2>1 DEF Started, Begin
        <3>1. /\ Begin(w, slot[r]) \in Nat /\ now \in Nat
              /\ Begin(w, slot[r]) <= now /\ attempts[w][slot[r]] >= 1
          BY <1>0, BeginInNat DEF TypeOK, Started
        <3> QED BY <3>1
      <2> QED BY <2>2, <2>3, <2>4 DEF LimiterInv
    <1>10. CASE UNCHANGED vars
      <2>1. UNCHANGED <<now, counter, pc, slot, refused, attempts, passed, late, orphans>>
        BY <1>10 DEF vars
      <2>2. TypeOK' /\ RefusedEnds' /\ RefusalIsDue' /\ CountersAreCollected' /\ Started'
        BY <1>0, <2>1
           DEF TypeOK, RefusedEnds, RefusalIsDue, CountersAreCollected, Started, Begin
      <2>3. \A w \in Windows, i \in Periods : CounterOK(w, i)'
        BY <1>0, <2>1, CounterKept
      <2> QED BY <2>2, <2>3 DEF LimiterInv
    <1> QED BY <1>1, <1>2, <1>3, <1>5, <1>7, <1>8, <1>9, <1>10 DEF Next, CheckLimit

\* The inductive invariant holds in every reachable state.
LEMMA LimiterInvariant == Spec => []LimiterInv
    <1>1. Init => LimiterInv
      <2> SUFFICES ASSUME Init PROVE LimiterInv
        OBVIOUS
      <2>1. TypeOK
        BY DEF Init, TypeOK, NoCounter, Counter, Step, Windows
      <2>2. Started /\ RefusedEnds /\ RefusalIsDue /\ CountersAreCollected
        BY DEF Init, Started, RefusedEnds, RefusalIsDue, CountersAreCollected, TTLStep,
               NoCounter, Windows
      <2>3. \A w \in Windows, i \in Periods : CounterOK(w, i)
        BY DEF Init, CounterOK, NoCounter
      <2> QED BY <2>1, <2>2, <2>3 DEF LimiterInv
    <1> QED BY <1>1, LimiterStep, PTL DEF Spec

\* Counters, requests and bookkeeping keep their types under every fault.
THEOREM LimiterTypeCorrect == Spec => []TypeOK
    <1>1. LimiterInv => TypeOK
      BY DEF LimiterInv
    <1> QED BY <1>1, LimiterInvariant, PTL

\* rate_limit_per_minute and daily_notification_cap hold for every number of
\* requests and replicas, in every period and under every fault, up to requests
\* that enter a day's counter after the day.
THEOREM LimitsNeverExceeded == Spec => []LimitsHold
    <1>1. LimiterInv => LimitsHold
      BY DEF LimiterInv, LimitsHold, CounterOK
    <1> QED BY <1>1, LimiterInvariant, PTL

\* No request is refused for the traffic of another minute or day.
THEOREM NoCarryOver == Spec => []RefusalIsDue
    <1>1. LimiterInv => RefusalIsDue
      BY DEF LimiterInv
    <1> QED BY <1>1, LimiterInvariant, PTL

\* Only an interrupted EXPIRE, or a repeated first INCR, leaves a counter behind.
THEOREM OnlyInterruptionsLeak == Spec => []CountersAreCollected
    <1>1. LimiterInv => CountersAreCollected
      BY DEF LimiterInv
    <1> QED BY <1>1, LimiterInvariant, PTL
-----------------------------------------------------------------------------
(* The token bucket, which a request passes before it comes to the counters *)

USE CostAssumption, BucketTTLAssumption, PatienceAssumption

\* What is known of a bucket that some script has saved: it is at most full, its
\* clock reading lies within MaxDelay of the script that saved it.
BucketOK ==
    /\ bucket.tokens <= Capacity
    /\ bucket.last <= now
    /\ bucket.until > 0 => bucket.last + BucketTTL <= bucket.until
    /\ watch.start <= now

\* Once something passed since watch.start, what passed and what is left were
\* there at the start or have been refilled since, up to the last reading.
Earned ==
    watch.spent > 0 =>
        /\ bucket.until > 0
        /\ watch.spent + bucket.tokens <= Capacity + bucket.last + MaxDelay + watch.slips - watch.start

BucketInv == BucketTypeOK /\ BucketOK /\ Earned

\* A reading is never in the future and at most MaxDelay old.
LEMMA ReadingsBound ==
    ASSUME BucketTypeOK, NEW at \in Readings
    PROVE  at \in Nat /\ at <= now /\ now <= at + MaxDelay
    BY DEF Readings, BucketTypeOK

\* A script finds no more than a full bucket, and in a bucket that lives no more
\* than what was left and what the time since the last reading refills.
LEMMA RefilledBound ==
    ASSUME BucketTypeOK, BucketOK, NEW at \in Readings
    PROVE  /\ Refilled(at) \in Nat
           /\ Refilled(at) <= Capacity
           /\ Slip(at) \in Nat
           /\ BucketLives =>
                  Refilled(at) <= bucket.tokens + (at - bucket.last) + Slip(at)
           /\ ~BucketLives => Refilled(at) = Capacity /\ Slip(at) = 0
    BY ReadingsBound
       DEF Refilled, Elapsed, Slip, Smaller, BucketLives,
           BucketTypeOK, BucketOK

\* Two fields of a record after the update of RunScript.
LEMMA ScriptEffect ==
    ASSUME BucketTypeOK, BucketOK, NEW at \in Readings, RunScript(at)
    PROVE  /\ bucket'.last = at
           /\ bucket'.until = now + BucketTTL
           /\ watch'.start = watch.start
           /\ watch'.slips = watch.slips + Slip(at)
           /\ \/ /\ bucket'.tokens = Refilled(at) - Cost
                 /\ Refilled(at) >= Cost
                 /\ watch'.spent = watch.spent + Cost
              \/ bucket'.tokens = Refilled(at) /\ watch'.spent = watch.spent
           /\ bucket' \in [tokens : Nat, last : Nat, until : Nat]
           /\ watch' \in [start : Nat, spent : Nat, slips : Nat]
    <1>1. /\ at \in Nat
          /\ Refilled(at) \in Nat
          /\ Slip(at) \in Nat
      BY ReadingsBound, RefilledBound
    <1>4. now \in Nat /\ watch \in [start : Nat, spent : Nat, slips : Nat]
      BY DEF BucketTypeOK
    <1>2. CASE Allows(at)
      <2>1. bucket' = [tokens |-> Refilled(at) - Cost, last |-> at, until |-> now + BucketTTL]
        BY <1>2 DEF RunScript, SaveBucket
      <2>2. watch' = [watch EXCEPT !.spent = watch.spent + Cost, !.slips = watch.slips + Slip(at)]
        BY <1>2 DEF RunScript
      <2>3. watch' = [start |-> watch.start, spent |-> watch.spent + Cost,
                      slips |-> watch.slips + Slip(at)]
        BY <1>4, <2>2
      <2>4. Refilled(at) >= Cost
        BY <1>2 DEF Allows
      <2> QED BY <1>1, <1>4, <2>1, <2>3, <2>4
    <1>3. CASE ~Allows(at)
      <2>1. bucket' = [tokens |-> Refilled(at), last |-> at, until |-> now + BucketTTL]
        BY <1>3 DEF RunScript, SaveBucket
      <2>2. watch' = [watch EXCEPT !.spent = watch.spent, !.slips = watch.slips + Slip(at)]
        BY <1>3 DEF RunScript
      <2>3. watch' = [start |-> watch.start, spent |-> watch.spent,
                      slips |-> watch.slips + Slip(at)]
        BY <1>4, <2>2
      <2> QED BY <1>1, <1>4, <2>1, <2>3
    <1> QED BY <1>2, <1>3

\* A script keeps the invariant: in a bucket that lives by what it refills, after
\* an expiry because an idle bucket had time to fill.
LEMMA ScriptStep ==
    ASSUME BucketInv, NEW at \in Readings, RunScript(at), UNCHANGED now
    PROVE  BucketInv'
    <1>0. BucketTypeOK /\ BucketOK /\ Earned
      BY DEF BucketInv
    <1>1. /\ at \in Nat /\ at <= now /\ now <= at + MaxDelay
          /\ Refilled(at) \in Nat /\ Refilled(at) <= Capacity /\ Slip(at) \in Nat
      BY <1>0, ReadingsBound, RefilledBound
    <1>2. BucketTypeOK' /\ BucketOK'
      BY <1>0, <1>1, ScriptEffect DEF BucketTypeOK, BucketOK
    <1>5. /\ bucket'.last = at /\ bucket'.until = now + BucketTTL
          /\ watch'.start = watch.start /\ watch'.slips = watch.slips + Slip(at)
          /\ \/ bucket'.tokens = Refilled(at) - Cost /\ watch'.spent = watch.spent + Cost
             \/ bucket'.tokens = Refilled(at) /\ watch'.spent = watch.spent
      BY <1>0, ScriptEffect
    <1>6. /\ bucket.tokens \in Nat /\ bucket.last \in Nat
          /\ watch.start \in Nat /\ watch.spent \in Nat /\ watch.slips \in Nat /\ now \in Nat
      BY <1>0 DEF BucketTypeOK
    <1>3. CASE watch.spent = 0
      <2>1. bucket'.tokens + watch'.spent <= Capacity
        BY <1>0, <1>1, <1>3, ScriptEffect DEF BucketTypeOK
      <2> QED BY <1>0, <1>1, <1>2, <2>1, ScriptEffect DEF BucketTypeOK, BucketOK, Earned, BucketInv
    <1>4. CASE watch.spent > 0
      <2>1. bucket'.tokens + watch'.spent = watch.spent + Refilled(at)
        BY <1>1, <1>5, <1>6
      <2>3. Refilled(at) <= bucket.tokens + (at - bucket.last) + Slip(at)
        <3>1. CASE BucketLives
          BY <1>0, <3>1, RefilledBound
        <3>2. CASE ~BucketLives
          <4>1. bucket.last + BucketTTL <= now
            BY <1>0, <1>4, <3>2 DEF BucketLives, BucketOK, Earned, BucketTypeOK
          <4> QED BY <1>1, <1>6, <4>1
        <3> QED BY <3>1, <3>2
      <2>4. watch.spent + bucket.tokens
               <= Capacity + bucket.last + MaxDelay + watch.slips - watch.start
        BY <1>0, <1>4 DEF Earned
      <2>5. watch'.spent + bucket'.tokens
               <= Capacity + bucket'.last + MaxDelay + watch'.slips - watch'.start
        BY <1>1, <1>5, <1>6, <2>1, <2>3, <2>4
      <2> QED BY <1>1, <1>2, <1>5, <1>6, <2>5 DEF Earned, BucketInv
    <1> QED BY <1>0, <1>3, <1>4 DEF BucketTypeOK

\* The bound of BurstIsEarned follows, since no reading is in the future.
LEMMA EarnedImpliesBurst == BucketInv => BurstIsEarned
    BY DEF BucketInv, BucketTypeOK, BucketOK, Earned, BurstIsEarned

\* The inductive invariant holds in every reachable state.
LEMMA BucketInvariant == BucketSpec => []BucketInv
    <1>1. BucketInit => BucketInv
      BY DEF BucketInit, BucketInv, BucketTypeOK, BucketOK, Earned
    <1>2. BucketInv /\ [BucketNext]_bucketVars => BucketInv'
      <2> SUFFICES ASSUME BucketInv, [BucketNext]_bucketVars PROVE BucketInv'
        OBVIOUS
      <2>1. CASE CheckBurstLimit
        BY <2>1, ScriptStep DEF CheckBurstLimit
      <2>2. CASE Refill
        BY <2>2 DEF Refill, Advance, BucketInv, BucketTypeOK, BucketOK, Earned
      <2>3. CASE Watch
        BY <2>3 DEF Watch, BucketInv, BucketTypeOK, BucketOK, Earned
      <2>4. CASE UNCHANGED bucketVars
        BY <2>4 DEF bucketVars, BucketInv, BucketTypeOK, BucketOK, Earned
      <2> QED BY <2>1, <2>2, <2>3, <2>4 DEF BucketNext
    <1> QED BY <1>1, <1>2, PTL DEF BucketSpec

\* The bucket, the clock and the bookkeeping keep their types: no order of clock
\* readings makes the number of tokens negative (rate-limiter.service.ts:114-124).
THEOREM BucketTypeCorrect == BucketSpec => []BucketTypeOK
    <1>1. BucketInv => BucketTypeOK
      BY DEF BucketInv
    <1> QED BY <1>1, BucketInvariant, PTL

\* Whatever the order in which readings reach Redis and whenever the bucket
\* expires, no interval sees more requests pass than the bucket's capacity, the
\* refill of the interval and the named slack allow.
THEOREM BurstBound == BucketSpec => []BurstIsEarned
    BY EarnedImpliesBurst, BucketInvariant, PTL

\* The dashboards' computation (floor, then cap) and the script's (cap, then
\* compare) agree about whether a request would pass.
LEMMA FloorOfShare ==
    ASSUME NEW n \in Nat
    PROVE  n \div Cost >= 1 <=> n >= Cost
    OBVIOUS

\* The usage the statistics endpoint shows says whether a request would pass.
THEOREM DashboardAgrees ==
    ASSUME Capacity >= Cost PROVE BucketSpec => []StatsAgree
    <1>1. BucketInv => StatsAgree
      <2> SUFFICES ASSUME BucketInv, NEW at \in Readings
                   PROVE  BurstRemaining(at) >= 1 <=> Allows(at)
        BY DEF StatsAgree
      <2> DEFINE n == bucket.tokens + Elapsed(at)
      <2>1. n \in Nat
        BY ReadingsBound DEF BucketInv, BucketTypeOK, Elapsed
      <2>2. (n \div Cost) \in Int /\ (Capacity \div Cost) \in Int
        BY <2>1
      <2>3. (n \div Cost >= 1 <=> n >= Cost) /\ Capacity \div Cost >= 1
        BY <2>1, FloorOfShare
      <2> HIDE DEF n
      <2>4. CASE BucketLives
        BY <2>1, <2>2, <2>3, <2>4
           DEF BurstRemaining, Allows, Refilled, Smaller, n
      <2>5. CASE ~BucketLives
        BY <2>3, <2>5 DEF BurstRemaining, Allows, Refilled
      <2> QED BY <2>4, <2>5
    <1> QED BY <1>1, BucketInvariant, PTL

\* getBurstCapacity without BURST_CAPACITY: max(10, min(r, ceil(r / 4))) requests
\* for a limit of r per minute.
DefaultCapacity(r) ==
    LET quarter == (r + 3) \div 4
        capped == Smaller(r, quarter)
    IN  IF capped >= 10 THEN capped ELSE 10

\* The bucket of the default capacity refills in at most 100 of the 120 seconds
\* that an idle bucket lives: 60000 * capacity ms of refill for r per minute, or
\* for 6 per minute, the slowest rate of checkBurstLimit (0.1 per second).  So
\* BucketTTLAssumption holds of it for every delay up to 20 seconds.
THEOREM DefaultCapacityFits ==
    ASSUME NEW r \in Nat
    PROVE  LET rate == IF r >= 6 THEN r ELSE 6
           IN  60000 * DefaultCapacity(r) <= 100000 * rate
    <1> DEFINE q == (r + 3) \div 4
    <1>1. q \in Nat /\ 4 * q <= r + 3
      OBVIOUS
    <1> QED BY <1>1 DEF DefaultCapacity, Smaller
==============================================================================
