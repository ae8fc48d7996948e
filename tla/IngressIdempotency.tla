-------------------------- MODULE IngressIdempotency --------------------------
(***************************************************************************)
(* The deduplication of POST /api/v1/events/trigger: what                  *)
(* EventsController.triggerEvent does from checkIdempotency to its answer, *)
(* with the Redis entry of common/ingress-cache.ts, the processed_events   *)
(* row in Postgres and the Kafka producer.                                 *)
(*                                                                         *)
(* Each await of the handler ends a step: a request's steps interleave     *)
(* with those of every other request of every worker replica.  pc[r] names *)
(* the call request r makes next.                                          *)
(*                                                                         *)
(* What may go wrong around the code is chosen by constants, so that a run *)
(* can ask a question of one environment and the theorems can name theirs. *)
(*                                                                         *)
(* A definition named Bug... is no part of the specification: it is what   *)
(* the definition after it would be with a plausible mistake in the code,  *)
(* kept to show that the properties below would notice.                    *)
(***************************************************************************)
EXTENDS Naturals, FiniteSets

CONSTANTS
    Requests,      \* trigger requests; a client's retry is another request
    Keys,          \* (tenant, idempotency key) pairs
    Hashes,        \* payload hashes
    NoHash,        \* the hash field of an absent Redis entry
    KeyOf,         \* KeyOf[r]: x-idempotency-key header, or else the event id
    HashOf,        \* HashOf[r]: hash of the request's payload
    RedisFaults,   \* a Redis command may fail, executed or not
    RedisResends,  \* ioredis may resend a command whose reply was lost
    RedisLoss,     \* Redis may lose an entry (restart without volume, eviction)
    TTLExpiry,     \* entries and rows reach the end of IDEMPOTENCY_TTL_HOURS
    PgFaults,      \* a Postgres transaction may fail
    BrokerLoss,    \* Kafka may refuse the event after emit() returned
    EmitThrows,    \* kafkaClient.emit may throw synchronously
    Crashes        \* the worker replica serving a request may die

ASSUME KeysAssumption == KeyOf \in [Requests -> Keys]
ASSUME HashesAssumption == HashOf \in [Requests -> Hashes] /\ NoHash \notin Hashes
ASSUME EnvironmentAssumption ==
    {RedisFaults, RedisResends, RedisLoss, TTLExpiry,
     PgFaults, BrokerLoss, EmitThrows, Crashes} \subseteq BOOLEAN

VARIABLES
    redis,      \* redis[k]: the idempotency entry of key k
    audit,      \* audit[k]: the processed_events row of key k
    pc,         \* pc[r]: the next call of request r's handler
    reserved,   \* requests whose checkIdempotency returned reservedInRedis
    reply,      \* reply[r]: what the client was answered
    broker,     \* broker[r]: what became of r's tenant.event.received message
    disturbed,  \* history: keys whose Redis entry failed, vanished or was cleared
    resent      \* history: keys of a SET NX that reached Redis twice

history == <<disturbed, resent>>
vars == <<redis, audit, pc, reserved, reply, broker, disturbed, resent>>

-----------------------------------------------------------------------------
(* Types *)

NoEntry == [status |-> "none", hash |-> NoHash]
Entry == {NoEntry} \cup [status : {"processing", "completed"}, hash : Hashes]
BugStoredAsCompleted(r) == [status |-> "completed", hash |-> HashOf[r]]
Processing(r) == [status |-> "processing", hash |-> HashOf[r]]
BugNoPayloadHash(r) == [status |-> "completed", hash |-> NoHash]
Completed(r) == [status |-> "completed", hash |-> HashOf[r]]

Row == {"none", "live", "expired"}

Step == {"get", "reserve", "reget", "mismatch", "fallback", "refresh",
         "emit", "complete", "store", "clear", "done", "crashed"}

\* "dispatched": the response built at the end of the handler; "completed" and
\* "processing": the two duplicate responses; "error": any 5xx.
Answer == {"none", "dispatched", "completed", "processing", "error"}

Delivery == {"none", "inflight", "delivered", "lost"}

TypeOK ==
    /\ redis \in [Keys -> Entry]
    /\ audit \in [Keys -> Row]
    /\ pc \in [Requests -> Step]
    /\ reserved \in SUBSET Requests
    /\ reply \in [Requests -> Answer]
    /\ broker \in [Requests -> Delivery]
    /\ disturbed \in SUBSET Keys
    /\ resent \in SUBSET Keys

-----------------------------------------------------------------------------
(* Helpers *)

Goto(r, step) == pc' = [pc EXCEPT ![r] = step]

\* The handler returns (or throws, for "error") and the client is answered.
Finish(r, answer) ==
    /\ Goto(r, "done")
    /\ reply' = [reply EXCEPT ![r] = answer]

Disturb(k) == disturbed' = disturbed \cup {k} /\ UNCHANGED resent

\* A request whose reservation would be gone if its entry expired now.
HoldsReservation(r) == r \in reserved /\ pc[r] \in {"emit", "complete", "clear"}

Emitted(r) == broker[r] # "none"

Success(r) == reply[r] \in {"dispatched", "completed", "processing"}

-----------------------------------------------------------------------------
(* checkIdempotency *)

\* resolveCachedIdempotency on the entry just read: another payload's entry is
\* looked up in Postgres, a completed one answers with the cached response, one
\* that is being processed answers that it is.
ResolveCached(r, cached) ==
    IF cached.hash # HashOf[r]
    THEN Goto(r, "mismatch") /\ UNCHANGED reply
    ELSE Finish(r, cached.status)

\* getCachedIdempotencyEntry, the first thing checkIdempotency does.
GetCached(r) ==
    LET k == KeyOf[r] IN
    /\ pc[r] = "get"
    /\ \/ /\ redis[k] = NoEntry
          /\ Goto(r, "reserve")
          /\ UNCHANGED <<reply, history>>
       \/ /\ redis[k] # NoEntry
          /\ ResolveCached(r, redis[k])
          /\ UNCHANGED history
       \/ /\ RedisFaults
          /\ Goto(r, "fallback")
          /\ Disturb(k)
          /\ UNCHANGED reply
    /\ UNCHANGED <<redis, audit, reserved, broker>>

BugWithoutNX(r) == redis' = [redis EXCEPT ![KeyOf[r]] = Processing(r)]

\* reserveIdempotencyEntry: SET ... EX NX, one atomic command.
ReserveNX(r) ==
    IF redis[KeyOf[r]] = NoEntry
    THEN redis' = [redis EXCEPT ![KeyOf[r]] = Processing(r)]
    ELSE UNCHANGED redis

Reserve(r) ==
    LET k == KeyOf[r] IN
    /\ pc[r] = "reserve"
    /\ ReserveNX(r)
    /\ IF redis' # redis
       THEN Goto(r, "emit") /\ reserved' = reserved \cup {r}
       ELSE Goto(r, "reget") /\ UNCHANGED reserved
    /\ UNCHANGED <<audit, reply, broker, history>>

\* The SET fails at the client: Redis executed it or did not.  When the client
\* reconnects in time it sends the command again, and NX refuses what the first
\* copy stored.
ReserveFails(r) ==
    LET k == KeyOf[r] IN
    /\ pc[r] = "reserve"
    /\ disturbed' = disturbed \cup {k}
    /\ \/ /\ RedisFaults
          /\ ReserveNX(r) \/ UNCHANGED redis
          /\ Goto(r, "fallback")
          /\ UNCHANGED resent
       \/ /\ RedisResends
          /\ ReserveNX(r)
          /\ Goto(r, "reget")
          /\ resent' = resent \cup {k}
    /\ UNCHANGED <<audit, reserved, reply, broker>>

\* The second getCachedIdempotencyEntry, after a refused reservation.
GetLatest(r) ==
    LET k == KeyOf[r] IN
    /\ pc[r] = "reget"
    /\ \/ /\ redis[k] # NoEntry
          /\ ResolveCached(r, redis[k])
          /\ UNCHANGED history
       \/ /\ redis[k] = NoEntry
          /\ Goto(r, "fallback")
          /\ UNCHANGED <<reply, history>>
       \/ /\ RedisFaults
          /\ Goto(r, "fallback")
          /\ Disturb(k)
          /\ UNCHANGED reply
    /\ UNCHANGED <<redis, audit, reserved, broker>>

\* checkPostgresIdempotency first deletes every expired row of every key.
CollectExpired == audit' = [k \in Keys |-> IF audit[k] = "expired" THEN "none" ELSE audit[k]]

\* The Postgres lookup of resolveCachedIdempotency: a duplicate either way.
ResolveMismatch(r) ==
    /\ pc[r] = "mismatch"
    /\ \/ CollectExpired /\ Finish(r, IF audit[KeyOf[r]] = "live" THEN "completed" ELSE "processing")
       \/ PgFaults /\ UNCHANGED audit /\ Finish(r, "error")
    /\ UNCHANGED <<redis, reserved, broker, history>>

BugAsksRedisAgain(r) ==
    /\ pc[r] = "fallback"
    /\ CollectExpired
    /\ Goto(r, IF audit[KeyOf[r]] = "live" THEN "get" ELSE "emit")
    /\ UNCHANGED <<redis, reserved, reply, broker, history>>

\* The Postgres fallback of checkIdempotency: a live row makes the request a
\* duplicate; without one it goes on with no reservation at all.
CheckPostgres(r) ==
    /\ pc[r] = "fallback"
    /\ \/ CollectExpired /\ UNCHANGED reply
          /\ Goto(r, IF audit[KeyOf[r]] = "live" THEN "refresh" ELSE "emit")
       \/ PgFaults /\ UNCHANGED audit /\ Finish(r, "error")
    /\ UNCHANGED <<redis, reserved, broker, history>>

\* markIdempotencyCompleted: SET ... EX, whoever wrote the entry before.  Both
\* of its callers swallow a failure.
MarkCompleted(r) ==
    \/ /\ redis' = [redis EXCEPT ![KeyOf[r]] = Completed(r)]
       /\ UNCHANGED history
    \/ /\ RedisFaults
       /\ UNCHANGED redis
       /\ Disturb(KeyOf[r])

\* The fallback found a row: Redis is told again before the duplicate answer.
RefreshCompleted(r) ==
    /\ pc[r] = "refresh"
    /\ MarkCompleted(r)
    /\ Finish(r, "completed")
    /\ UNCHANGED <<audit, reserved, broker>>

-----------------------------------------------------------------------------
(* The rest of triggerEvent *)

BugEmitsOnlyReserved(r) ==
    /\ pc[r] = "emit"
    /\ broker' = IF r \in reserved THEN [broker EXCEPT ![r] = "inflight"] ELSE broker
    /\ Goto(r, IF r \in reserved THEN "complete" ELSE "store")
    /\ UNCHANGED <<redis, audit, reserved, reply, history>>

\* kafkaClient.emit returns at once; the message is on its way.
Emit(r) ==
    /\ pc[r] = "emit"
    /\ broker' = [broker EXCEPT ![r] = "inflight"]
    /\ Goto(r, IF r \in reserved THEN "complete" ELSE "store")
    /\ UNCHANGED <<redis, audit, reserved, reply, history>>

\* The catch block: reached only if emit itself throws.
EmitFails(r) ==
    /\ pc[r] = "emit"
    /\ EmitThrows
    /\ IF r \in reserved
       THEN Goto(r, "clear") /\ UNCHANGED reply
       ELSE Finish(r, "error")
    /\ UNCHANGED <<redis, audit, reserved, broker, history>>

\* clearIdempotencyEntry: DEL, a failure is swallowed; then the 500.
ClearReservation(r) ==
    /\ pc[r] = "clear"
    /\ \/ redis' = [redis EXCEPT ![KeyOf[r]] = NoEntry]
       \/ RedisFaults /\ UNCHANGED redis
    /\ Disturb(KeyOf[r])
    /\ Finish(r, "error")
    /\ UNCHANGED <<audit, reserved, broker>>

Complete(r) ==
    /\ pc[r] = "complete"
    /\ MarkCompleted(r)
    /\ Goto(r, "store")
    /\ UNCHANGED <<audit, reserved, reply, broker>>

\* storeIdempotencyRecord: an INSERT.  A row that is still there, expired or
\* not, makes it fail on the unique key, and every failure is swallowed.
Store(r) ==
    /\ pc[r] = "store"
    /\ \/ audit' = [audit EXCEPT ![KeyOf[r]] = IF @ = "none" THEN "live" ELSE @]
       \/ PgFaults /\ UNCHANGED audit
    /\ Finish(r, "dispatched")
    /\ UNCHANGED <<redis, reserved, broker, history>>

-----------------------------------------------------------------------------
(* The environment *)

\* Kafka stores the message, or the producer gives up on it: nobody is told.
Settle(r) ==
    /\ broker[r] = "inflight"
    /\ \/ broker' = [broker EXCEPT ![r] = "delivered"]
       \/ BrokerLoss /\ broker' = [broker EXCEPT ![r] = "lost"]
    /\ UNCHANGED <<redis, audit, pc, reserved, reply, history>>

\* The replica serving r dies, with the message its producer has not sent yet.
Crash(r) ==
    /\ Crashes
    /\ pc[r] \notin {"done", "crashed"}
    /\ Goto(r, "crashed")
    /\ \/ UNCHANGED broker
       \/ broker[r] = "inflight" /\ broker' = [broker EXCEPT ![r] = "lost"]
    /\ UNCHANGED <<redis, audit, reserved, reply, history>>

DropEntry(k) ==
    /\ redis[k] # NoEntry
    /\ redis' = [redis EXCEPT ![k] = NoEntry]
    /\ Disturb(k)
    /\ UNCHANGED <<audit, pc, reserved, reply, broker>>

LoseEntry(k) == RedisLoss /\ DropEntry(k)

BugReservedWithoutEX(k) ==
    /\ TTLExpiry
    /\ redis[k].status = "completed"
    /\ DropEntry(k)

\* The entry's TTL is at least a minute and normally a day: no handler that
\* still relies on its reservation lives that long.
ExpireEntry(k) ==
    /\ TTLExpiry
    /\ \A r \in Requests : KeyOf[r] = k => ~HoldsReservation(r)
    /\ DropEntry(k)

\* expires_at passes; the row stays until some request collects it.
ExpireRow(k) ==
    /\ TTLExpiry
    /\ audit[k] = "live"
    /\ audit' = [audit EXCEPT ![k] = "expired"]
    /\ Disturb(k)
    /\ UNCHANGED <<redis, pc, reserved, reply, broker>>

-----------------------------------------------------------------------------
Init ==
    /\ redis = [k \in Keys |-> NoEntry]
    /\ audit = [k \in Keys |-> "none"]
    /\ pc = [r \in Requests |-> "get"]
    /\ reserved = {}
    /\ reply = [r \in Requests |-> "none"]
    /\ broker = [r \in Requests |-> "none"]
    /\ disturbed = {}
    /\ resent = {}

\* One step of the handler of request r.
Handle(r) ==
    \/ GetCached(r) \/ Reserve(r) \/ ReserveFails(r) \/ GetLatest(r)
    \/ ResolveMismatch(r) \/ CheckPostgres(r) \/ RefreshCompleted(r)
    \/ Emit(r) \/ EmitFails(r) \/ ClearReservation(r) \/ Complete(r) \/ Store(r)

Next ==
    \/ \E r \in Requests : Handle(r) \/ Settle(r) \/ Crash(r)
    \/ \E k \in Keys : LoseEntry(k) \/ ExpireEntry(k) \/ ExpireRow(k)

Spec == Init /\ [][Next]_vars

\* Node runs every ready callback, the Redis and Postgres clients give up on a
\* silent server (maxRetriesPerRequest), the producer settles what it was given,
\* and Redis removes an entry at the end of its TTL.  Handlers and producers have
\* finitely many steps: it is enough that one of those that can move does.
FairSpec ==
    /\ Spec
    /\ WF_vars(\E r \in Requests : Handle(r) \/ Settle(r))
    /\ \A k \in Keys : WF_vars(ExpireEntry(k))

-----------------------------------------------------------------------------
(* Properties *)

\* As long as Redis kept and served the entry of a key, at most one of the
\* requests that carry the key hands an event to Kafka, whatever crashes,
\* Postgres failures and payload mismatches happen and however the handlers of
\* the requests interleave (the GET, SET NX, GET chain of checkIdempotency).
OneDispatchPerWindow ==
    \A r, s \in Requests :
        Emitted(r) /\ Emitted(s) /\ KeyOf[r] = KeyOf[s] /\ KeyOf[r] \notin disturbed
            => r = s

\* A completed entry in Redis or a row in processed_events, live or expired,
\* exists only for a key whose event was handed to Kafka: a duplicate is never
\* told "already processed" for an event nobody emitted.
CompletionFollowsDispatch ==
    \A k \in Keys :
        redis[k].status = "completed" \/ audit[k] # "none"
            => \E r \in Requests : KeyOf[r] = k /\ Emitted(r)

\* What may silence a request on its way to the emit: its replica died, emit threw,
\* a transaction failed, or NX refused the first copy of a SET to the second.
Gone(r) == pc[r] \in {"crashed", "clear"} \/ reply[r] = "error" \/ KeyOf[r] \in resent

\* No request that was answered with success is the end of the story for its
\* event: some request of the key emitted it or is still about to, or one that held
\* the event was silenced.  Redis losing, refusing or expiring entries and requests
\* overtaking each other between GET, SET NX and GET are not enough.
SuccessIsBacked ==
    \A r \in Requests : Success(r) =>
        \E s \in Requests :
            /\ KeyOf[s] = KeyOf[r]
            /\ Emitted(s) \/ pc[s] \in {"emit", "fallback"} \/ Gone(s)

\* Every request is answered unless its replica dies, whatever order of fallbacks,
\* races and failures it meets; and in the end an event that a client believes
\* accepted is settled by the broker unless a request that held it was silenced.
EveryRequestEnds ==
    <>(\A r \in Requests :
        /\ pc[r] \in {"done", "crashed"}
        /\ Success(r) => \E s \in Requests :
                            /\ KeyOf[s] = KeyOf[r]
                            /\ broker[s] \in {"delivered", "lost"} \/ Gone(s))

\* A reservation never outlives its handler for good: completed, cleared or
\* abandoned by a crash, it stops saying "processing".
ReservationsEnd == \A k \in Keys : redis[k].status = "processing" ~> redis[k].status # "processing"

\* The promise of EventOnce, with the reservations as claims, and a key forgotten
\* once its entry failed, vanished or was cleared.
Once == INSTANCE EventOnce WITH
    claims <- [k \in Keys |-> {r \in reserved : KeyOf[r] = k}],
    sent <- {r \in Requests : Emitted(r)},
    answered <- {r \in Requests : Success(r)},
    forgotten <- disturbed

\* The handler keeps the promise of EventOnce to every key that Redis has not
\* failed: one claim, one dispatch by its owner, no success answer before the claim
\* (events.controller.ts:297-435).
ImplementsEventOnce == Once!Spec
==============================================================================
