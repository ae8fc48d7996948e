# Formal models of the notifications microservice

TLA+ models of the notification platform under `src/notifications-system`
(NestJS worker, Go gateway, Kafka, Postgres, Redis, Centrifugo), TLC
configurations that check them on small instances, and TLAPS proofs of what
matters most for every value of the constants.

Paths below are relative to `src/notifications-system/`; `worker/src/` is
shortened to `w/`, so `w/events/events.controller.ts:312` is line 312 of
`src/notifications-system/worker/src/events/events.controller.ts`.

Contents: 1 the system, 2 the modules, 3 the runs, 4 fairness, 5 bounds,
6 the proofs, 7 what the code does not keep, 8 what is left out, 9 further work.

## 1. The system

An event of a tenant travels through four Kafka topics:

    client --POST /events/trigger--> worker: ingress
        --tenant.event.received--> worker: router
        --notification.dispatch--> gateway --> provider adapters
              ^      ^   |    |
              |      |   |    +--notification.retry--> gateway (sleeps, tries again)
              |      |   +--notification.dlq--> worker: dead letter consumer
              |      |                                     | failed_notifications
              |      +-- operators' retry endpoints <------+
              +-- router

The worker may run as several replicas over one Postgres and one Redis. Redis has
no volume (`docker-compose.yml:78`): it forgets everything when its container is
recreated. Kafka topics have one partition each.

### Components

| component | state | operations | what makes it correct |
|---|---|---|---|
| **Event ingress and idempotency** `w/events/events.controller.ts`, `w/common/ingress-cache.ts` | Redis entry per (tenant, idempotency key), row in `processed_events` | `triggerEvent`: reserve, fall back to Postgres, emit, complete, store; clear on failure | one key, one dispatch; nobody is told "processed" for an event that was not emitted; every request ends and every reservation too |
| **Tenant identity cache and life cycle** `w/events/events.controller.ts`, `w/admin/tenants.controller.ts` | Redis copy of the tenant row per API key, `tenants` row | read-through in `resolveTenant`; update, rotate, suspend, reactivate, deactivate, and the foreign key to the provider configuration | a revoked key opens nothing; staleness has a cause and an end |
| **Notification router** `w/notifications/notification.controller.ts`, `render.service.ts` | consumer offset, `notification_logs`, `in_app_notifications` | `handleTenantEvent`: resolve templates, render, insert, dispatch per channel | each channel once per run, row before dispatch, nothing committed half done; every event is handled, unless it or one before it cannot be |
| **Delivery gateway** `gateway/main.go`, `gateway/adapters/*` | the offsets of two consumers, goroutines in flight, `notification_logs.status` | read, hydrate, send, retry with backoff, dead-letter, log, drain on SIGTERM | bounded ordered retries, at most one delivery of a message, nothing but unreadable payloads lost between the topics, status shows the outcome |
| **Dead letter queue** `w/notifications/notification.controller.ts:380`, `w/admin/dlq.controller.ts`, `w/tenant/dlq.controller.ts` | `failed_notifications` rows | persist a dead letter; retry one, retry all, purge | a dead letter gets its row unless the table cannot hold it; retried rows were dispatched and dispatched rows are marked |
| **Rate limiter** `w/common/rate-limiter.service.ts` | token bucket and two counters in Redis | burst, minute and daily check, the dashboards' view of the bucket | the configured limits hold per window; every refusal is due; tokens come from elapsed time only; counters go away |
| **Templates and versions** `w/admin/templates.controller.ts`, `w/tenant/templates.controller.ts` | `templates` rows | create a version, (de)activate, quota | versions follow the edits, the newest active edit is served, forks, refused edits and exceeded quotas have known causes |
| **Tenant admin credentials, onboarding** `w/admin/tenants.controller.ts:812`, `w/tenant/tenant-auth.controller.ts` | `tenant_admins` row | create, temporary password, resend, first reset, change of password | a password chosen by the tenant is overwritten only in a race; the current password is known to somebody or replaceable |
| **Provider configurations** `w/admin/providers.controller.ts` | encrypted `provider_configs` | create, update, delete (single statements, seen from the gateway and, for the deletion, from the identity cache) | a dispatched message finds its configuration or is dead-lettered |
| **Operational mailer** `w/common/operational-mailer.service.ts` | one configuration, one template | find-or-create, edit, send | there is one of each; a mail's status is true |
| Template library, preview, analysis | none | string analysis | request-local |
| Guards, login, tokens | none | check a token | stateless |
| Logs, statistics, audit log | appended rows | queries, INSERT in the caller's transaction | read-only |
| Database context, row level security | SQL policies | `withActorContext` = one transaction | assumed: it is what makes a step atomic |
| Bootstrap, generated Prisma client, admin UI, deployment | - | - | not modelled |

### Hard behaviours

Every `await` of a NestJS handler lets other handlers, and other replicas, run;
Redis, Postgres and Kafka can each fail between two of them, and the code mostly
swallows such failures (`catch { log }`). The producers are not awaited
(`kafkaClient.emit(...)` returns an Observable at once: the catch block at
`w/events/events.controller.ts:218` sees only what `emit` throws synchronously), and
they are not idempotent: kafkajs repeats a send whose answer was lost, and the topic
holds the message twice. Much of an event is client data that nobody validates on its
way to Postgres and to the gateway's typed payload.
The gateway commits an offset when it *reads* a message and then works in a
goroutine. Shutdown waits only for some of those goroutines. The list of hazards,
each with its line and the properties that watch it, is in `PROJECT.json`.

## 2. The modules

| module | what it is |
|---|---|
| `EventOnce` | abstract: one key, one claim, one dispatch, no success answer before the claim, until the key is forgotten |
| `IngressIdempotency` | `triggerEvent` from `checkIdempotency` to the answer; implements `EventOnce` |
| `TenantIdentityCache` | `resolveTenant` against the tenant endpoints |
| `Clocks` | the clocks of the replicas, and the readings of them that reach Redis late |
| `TokenBucket` | EXTENDS `Clocks`: `checkBurstLimit`, its Lua script, the dashboards' reading |
| `RateLimiter` | EXTENDS `Clocks`: `checkLimit`, burst check, minute counter, day counter |
| `NotificationRouter` | `handleTenantEvent` against the template editors |
| `TemplateCatalog` | the `templates` table under both `createTemplate` endpoints and (de)activation |
| `DeliveryOutcome` | abstract: a dispatched message is pending, then delivered, buried or (if the environment is lossy) lost, for good |
| `GatewayDelivery` | `main.go` and the adapters; implements `DeliveryOutcome` |
| `DeadLetterQueue` | EXTENDS `GatewayDelivery`: the whole gateway composed with the dead letter consumer and the operators' endpoints |
| `TenantAdminCredentials` | one tenant admin's row under operators and the admin, with the operational mailer |
| `Pipeline` | abstract, EXTENDS `NotificationRouter`: the router between `EventOnce` and `DeliveryOutcome` |
| `Platform` | EXTENDS `NotificationRouter`: ingress, router, gateway, dead letter queue and operators, all in full; implements `Pipeline` |
| `MC*` | model values, small functions and symmetries for TLC |
| `*Proofs` | the theorems: `IngressIdempotencyProofs`, `TenantIdentityCacheProofs`, `RateLimiterProofs` (bucket and counters), `NotificationRouterProofs` (router and pipeline), `TemplateCatalogProofs`, `DeliveryProofs` (gateway and dead letter queue), `TenantAdminCredentialsProofs`, `PlatformProofs` |

A definition called `Bug...` stands before the definition it would replace if the
code had a certain plausible mistake. No specification uses it; it documents which
mistakes each property notices (`PROJECT.json`, "mutants"). Variables marked
"history" or "no code" record the past for a property; no guard reads them, except
where a bound is named.

### IngressIdempotency

One action per call of the handler; `pc[r]` names the next one.

| action | code |
|---|---|
| `GetCached`, `GetLatest`, `ResolveCached` | `getCachedIdempotencyEntry` before and after the refused reservation, `resolveCachedIdempotency` |
| `Reserve`, `ReserveFails` | `SET key ... EX ttl NX` and its failures: not executed, executed with the reply lost, or sent again by ioredis (`maxRetriesPerRequest: 3`) and refused by its own first copy |
| `ResolveMismatch`, `CheckPostgres` | `checkPostgresIdempotency`: DELETE expired rows, SELECT |
| `RefreshCompleted`, `Complete` | `markIdempotencyCompleted` from its two callers |
| `Emit`, `EmitFails`, `ClearReservation` | `kafkaClient.emit`; the catch block |
| `Store` | `storeIdempotencyRecord` |
| `Settle`, `Crash`, `LoseEntry`, `ExpireEntry`, `ExpireRow` | Kafka's producer, a replica's death, Redis without volume, the two TTLs |

Eight Boolean constants switch the environment's failures on and off. `disturbed`
remembers the keys whose Redis entry ever failed, vanished or was cleared: the
code promises at most one dispatch only for the others, and `EventOnce` calls them
`forgotten`. `processed_events` does not widen the promise, because it is asked
only after Redis *failed*, not after it forgot (section 7). `resent` remembers the
keys of a `SET NX` that Redis received twice.

The TTL of an entry is at least 60 s (`w/common/ingress-cache.ts:77`), normally a
day; `ExpireEntry` therefore waits for handlers that hold a reservation. A request
that dies holds nothing any more.

### TenantIdentityCache

One tenant with its current and former keys. A request is `GetCached` ->
`ReadTenant` -> `WarmCache`; an endpoint is `ReadExisting` -> `CommitUpdate` ->
`AdjustCache` (the two statements of its transaction, then the cache call). One more
endpoint changes the row, `DeleteProvider`: the foreign key sets `provider_config_id` to
NULL (`init-db/init.sql:278`), and no cache call follows; `linked` says whether that
column is set. Two history variables serve the properties: `late` (requests that arrived
when their key had been revoked and every endpoint had answered) and `doubtful` (keys
whose entry a crossing fill, an overlap or a failed command may have made wrong).

### TokenBucket and RateLimiter

`TokenBucket.RunScript(at)` is the script of `checkBurstLimit` run with the clock
reading `at`: the elapsed time since the stored reading, the refill up to the
capacity, the decision, `HMSET` and `EXPIRE`. Readings may be up to `MaxDelay` ticks
old, so scripts of two replicas come with clocks out of order; `Slip` is how far one
moves `lastRefillMs` back. Tokens are counted in ticks of refill, which makes the
script's division by 60 seconds exact. `watch` accumulates what passed since an
arbitrary moment (`Watch` may restart it at any time). `BurstRemaining` is
`computeBurstRemaining`, the second implementation of the refill, for the dashboards.

`RateLimiter` has one action per Redis command of a request: `CheckBurst` (the
bucket may answer either way), `Check` (`INCR` of the minute or the day its reading
falls into), `Expire` (only after an answer of 1), and their failures: `CheckFails`
(not executed, executed with the reply lost, executed twice), `ExpireFails`, `Crash`.
Counters of past periods stay until their own time to live ends. `attempts`,
`passed` and `late` count `INCR`s per period, those that let a request on, and those
that did so after the period had ended.

### NotificationRouter

One event at a time (one partition, one consumer group); `runs[e]` counts how often
the handler started for `e`, because a handler that throws or dies is handed the
event again. That redelivery is kafkajs's and NestJS's and is assumed. Templates
are versions per channel that editors publish, deactivate and reactivate at any
moment; rendering is abstracted to whether it throws (`Broken`). `Record` commits
the row and `Emit` hands the message to the producer, per template of the plan.
Client data is abstracted to whether Postgres takes it: `BadType` are the events whose
`eventType` is no string (`findMany` refuses it), `BadUser` those whose `userId` is no
UUID (the INSERT refuses it); `ClientDataFails` is the handler that throws because of
them, at every attempt.

### TemplateCatalog

`rows` is the table in the order of the commits. A creation is `FindLatest` (the
`findFirst` of its endpoint: the admin's asks for a scope, the tenant's does not),
`CheckQuota` (only the admin's endpoint, only for a first version of a tenant's
template) and `Create` or `Conflict` (the INSERT, refused by the primary key
`(template_id, version)`); `Abort` rolls back. Other creations commit between any two
of these, as READ COMMITTED allows. `Deactivate` and `Reactivate` are the UPDATEs by
primary key. `Served` is the router's query over the same table. Template ids are the
calls that drew them.

### GatewayDelivery and DeadLetterQueue

`stage[d][c]` is where attempt `c` of message `d` is: on a topic, with the sleeping
retry consumer (which holds one message at a time), or before one of the calls of
`processWithAdapters`. Reading commits the offset, so a crash (`Exit`) turns
everything read and unfinished into `lost`. A message whose payload `json.Unmarshal` or
`validatePayload` refuses (`Malformed`, constant of a notification) is `lost` as soon as
it is read: `main.go:130-139` logs it and goes on, without a dead letter and without a
status. That happens with the worker's own messages, since `recipientPhone`,
`recipientEmail` and `eventId` are whatever JSON the client sent
(`w/notifications/notification.controller.ts:162`, `:212`) and strings in
`gateway/types/payload.go`. `Resend` stores a message, or a retry of it, again: the copy
is another message `e` of the same notification. A drain after SIGTERM waits for the
goroutines counted by `wg` and not for the sleeper. The adapters appear as the
outcomes they return: success, retryable error, permanent error; Centrifugo's
errors are all retryable, hydration fails only for the others. (The SendGrid adapter
always fails permanently, the Twilio one always succeeds: both are special cases.)

`DeadLetterQueue` adds the two transactions of `handleDeadLetter`, the commit after
it, a worker crash between any two of these, and operators who retry one row, retry
all, and purge. `rows[<<d, k>>]` is the row of the k-th handling of the same dead
letter: handling it again, after a crash or because the gateway stored it twice
(`ResendDeadLetter`), makes another row. `kafkaClient.emit` comes
before the transaction that marks the row; the two interleave with everything.

### TenantAdminCredentials

A password is known by the call that drew it, so that the model can say whose
password the account has. An operator's call is `CreateAdmin`, or `CheckIntervention`
(`assertCredentialInterventionAllowed`) and `ReplacePassword` (another statement);
then the mail: `SkipMail`, `ComposeMail`, `RenderFails`, or `MissTemplate` and
`CreateTemplate` / `TemplateExists` (find-or-create of the mail's template), `SendMail`
or `MailFails` (which may have delivered it), `WriteStatus`, and `Respond` with
`initialCredentials`. `Interrupt` ends a call anywhere. The tenant admin's call is
`VerifyCurrent` and `ChangePassword`, with a password that can be known: mailed,
shown, or the admin's own. `FindConfig`, `CreateConfig`, `UpdateConfig` are
`upsertConfig`; `EditTemplate` the template's editor. `overlap` records which calls
were in progress together.

### Platform and Pipeline

`Platform` composes the detailed modules: `Trigger` is any step of `IngressIdempotency`
(a request is known by the event it triggers), `Route` any step of the router,
`Deliver` any step of `DeadLetterQueue` but the router's own dispatch. They share no
variable; what joins them are the two producers, `kafkaClient.emit`, awaited by
nobody: `Arrival` puts a stored event on the router's topic and `Reach` a notification
on the gateway's, both later than the emit, and `Drop` takes the router's message away
without anybody noticing (the ingress has its own loss, `Settle`). With
`ProducerResends` each may also store its message twice: a copy of an event is an element
of `Events` of its own with the same `RequestOf` and the same data, which arrives after
the first; a copy of a dispatch is made by `ResendDispatch`. `claimed` is a
history variable: the requests that got as far as the emit.

`Pipeline` is what `Platform` promises: the router in full, between neighbours that
appear through what they promise: `Claim`, `Trigger` and `Forget` are steps of
`EventOnce`, `Reach` and `Settle` steps of `DeliveryOutcome`. The refinement mapping
reads the claims off `claimed`, the events off `broker`, and the outcomes off the
attempts of the messages that the router's producer stored (`Routed`); messages that
operators send again are invisible in `Pipeline`.

## 3. The runs

| run | instance and environment | checks |
|---|---|---|
| `ingress_faults` | three requests of one key (a pair with the same payload, one with another), all eight failures | `TypeOK`, `CompletionFollowsDispatch`, `SuccessIsBacked`, `ImplementsEventOnce`, `ReservationsEnd`, `EveryRequestEnds` |
| `tenant_cache` | three keys, overlapping endpoint calls, deleted provider configurations, crossing fills, failing commands | `TypeOK`, `StalenessIsExplained`, `StalenessEnds` |
| `token_bucket` | a bucket of two requests, readings up to two ticks old | `BucketTypeOK`, `BurstIsEarned` |
| `rate_limiter` | three requests over three minutes and two days; failing and repeated commands, crashes | `TypeOK`, `LimitsHold`, `RefusalIsDue`, `CountersAreCollected` |
| `router` | three events (one of a guest whose `userId` is no UUID, one whose `eventType` is no string), replaced templates, one that cannot be rendered, Postgres failures, crashes | `TypeOK`, `OncePerRun`, `CommittedIsRouted`, `EveryEventIsHandled` |
| `templates` | three creations of any kind, two slots, quota one, (de)activations | `TypeOK`, `ServedIsNewest`, `QuotaIsExplained`, `ForksAreExplained`, `ConflictIsExplained` |
| `dlq_faults` | one notification, its message and a second one, an operator's retry or a producer's copy; crash, shutdown, publish, resend, postgres, worker failures | `RetriesInOrder`, `DeliveredOnce`, `ImplementsDeliveryOutcome` |
| `dlq_live` | three notifications (an email, a realtime one, one the gateway cannot read), five retries as in the code, a worker that dies anywhere | `NothingLost`, `StatusShowsOutcome`, `EveryMessageIsAccountedFor` |
| `dlq_retry` | two operators on the same rows: single and bulk retry, purge | `RetryIsRecorded`, `OnlyRetriesMislead` |
| `credentials` | three operators' calls, one change of password, two saves of the mailer; interrupts and a failing provider | `PasswordIsReachable`, `StatusIsExplained`, `SingleMailer`, `OwnPasswordIsKept` |
| `platform` | one event and its producer's copy through ingress, router, gateway, dead letter queue and one operator's retry; a dead letter consumer that dies, producers that lose or repeat messages | `DeliveriesAreExplained`, `AcceptedIsAccountedFor`, `ImplementsPipeline` |
| `router_poison` (violation) | two tenants, one with a template that cannot be rendered, no failures | `TenantsAreIsolated` |

What each run shows, in a sentence: `about` in `PROJECT.json`. The three refinements
(`ImplementsEventOnce`, `ImplementsDeliveryOutcome`, `ImplementsPipeline`) are checked as
PROPERTIES of the detailed specification.

`AcceptedIsAccountedFor` is the promise from end to end: when everything has come to
rest, an event whose client was told success is delivered on every channel its run
resolved, or stands in `failed_notifications`, or was lost at one of six named places
(a silenced request, the two producers, a payload the gateway cannot read, a gateway that
was stopped or could not write, a dead letter whose INSERT failed because of Postgres or
of the channel `REALTIME`).

Properties named `...Explained` say of an outcome one may not want (a second
notification, a refused edit, a stale entry) which events can be its cause. They are
the strongest statements of their kind that the code keeps: section 7 lists what
happens without the exceptions.

Deadlock is checked in the runs of the router and the tenant cache,
where editors and new requests can always act. The other configurations say
`CHECK_DEADLOCK FALSE`: their systems stop when every request, message and row of the
bounded instance is done.

## 4. Fairness, and why the code justifies it

* Ingress: weak fairness of the handlers and the producer together: Node runs every
  resolved callback, the Redis and Postgres clients give up on a silent server
  instead of waiting for ever, and the Kafka producer sends or gives up. Each handler
  has finitely many steps, so it is enough that some of those which can move does.
  `WF(ExpireEntry(k))`: every idempotency key is written with `EX`. `Crash`,
  `LoseEntry` and `ExpireRow` are never obliged to happen.
* Tenant cache: `WF` for the steps of a request and of an endpoint call *after* its
  start, and for `Expire` (the entry is written with `EX`).
* Router: `WF(Handler)` only.
* Gateway: `WF` per attempt and per unread message: the Go scheduler runs runnable
  goroutines, `time.Sleep` ends, both consumers poll. No fairness for `Shutdown`,
  `Exit` or `Restart`, hence the liveness property of the DLQ is checked in a run
  whose gateway is not stopped.
* Dead letter consumer: `WF(HandleDeadLetter(d))`: kafkajs polls. Operators are
  never obliged to do anything.

`Platform` states no fairness: from end to end, liveness is the chain
`EveryRequestEnds`, `EveryEventIsHandled`, `EveryMessageIsAccountedFor`, each checked of
its component, and `AcceptedIsAccountedFor` says that nothing falls between them.

Weak fairness is enough everywhere: no action a property needs is ever disabled
and enabled again for ever by others. `TokenBucket`, `RateLimiter`,
`TemplateCatalog` and `TenantAdminCredentials` promise nothing that must happen and
have no fairness.

## 5. Bounds, and why they are enough

| bound | value | why |
|---|---|---|
| `Requests` (ingress) | 3 | an owner, its retry and a request with another payload; a race for one key is between an owner and one other, and the third makes the GET / SET NX / GET chain meet an entry that changed twice |
| `Keys` (ingress) | 1 | keys share nothing but the deletion of expired rows; the theorems hold for any set |
| `Keys`, `Admins`, `Requests` (cache) | 3, 2, 1 | the first key and two rotations; two overlapping endpoint calls; requests meet only through the cache, and one request may come again and again. `Revisions` follows from `Admins` |
| `Cost`, `Capacity`, `BucketTTL`, `MaxDelay` | 3, 6, 8, 2 | two requests fill the bucket; a refusal leaves a part of a token; the bucket dies as soon as its assumption allows |
| `Horizon`, `Patience` (bucket) | 16, 4 | two lives of the bucket; two whole slips inside one interval. `Patience` is a guard of `CheckBurstLimit` and counts only since the last `Watch` |
| `Requests` (limiter) | 3 | with limits 1 (minute) and 2 (day), one request may exceed each |
| `Length`, `CounterTTL`, `MaxDelay`, `Horizon`, `Periods` | 2 and 4, 4, 1, 5, 0 to 2 | the minute's counter outlives its minute as 120 s do, the day's does not as 86400 s do not; both boundaries are crossed with old readings |
| `Events` (router) | 3 | a good one, one that Postgres refuses at the lookup and one at the INSERT, in every order of arrival |
| `MaxVersion` (router) | 2 for EMAIL, 1 for PUSH | one version replaces another; two channels in one loop |
| `MaxRuns` | 2 | the last number stands for this and every later run; transient failures end before it, a broken template does not |
| `Calls`, `Slots`, `Quota` (templates) | 3, 2, 1 | two creations race and a third follows; two slots make two templates without a fork |
| `MaxRetries` | 5 in `dlq_live`, else 1 or 0 | 5 is `maxRetries` of `main.go:31`; elsewhere the question is about one hand-over between attempts, or only about dead letters |
| `Dispatches` | 2 or 3 | the original message and one or two retries of operators, or a copy; in `dlq_live` one for each notification |
| `MaxCopies` | 2 in `dlq_live` (the dead letter is consumed twice), 1 where operators act | a worker crash is guarded by it; a third copy differs from the second in nothing |
| `Operators` | 1 or 2 | two requests on one row are the race |
| `Calls`, `Changes`, `Saves` (credentials) | 3, 1, 2 | a creation and two interventions that overlap each other and the change; two first saves |
| `Events`, `Requests`, `Keys`, `Channels`, `MaxVersion` (platform) | 2, 1, 1, EMAIL, 1 | one event and the one copy of it through everything is 540 000 states; a second request of the key is in `ingress_faults`, a second channel in `router`. The router does not fail here, with two events that is millions of states: of the causes in `DeliveriesAreExplained` a copy by either producer and the operators' retries occur, a second run and a forgotten key are covered by the proof |
| `Dispatches`, `MaxRetries`, `Operators` (platform) | 2, 0, 1 | a message of the event and one of its copy, or one message and its own copy, or one and an operator's retry; backoff is in `dlq_live` |
| `IllTyped` (platform) | none | an unreadable message is in `dlq_live`; end to end the proof covers it |

`SYMMETRY` is used in `dlq_retry`, `rate_limiter`, `templates`, `platform` and `credentials`, which
check no liveness: messages, requests and calls are interchangeable there.

## 6. The proofs

Machine-checked by TLAPS, for every value of the constants that satisfies the named
ASSUMEs (types and relations of parameters, each in the module that declares it).
Every safety property of the runs is proved; where a theorem needs a
quieter environment than its module allows, its own ASSUME says so.

**Ingress** (`IngressIdempotencyProofs`), for all 256 environments:

* `DispatchOnce`. `OneDispatchPerWindow` is not inductive: it says nothing of a request
  that has reserved and not emitted yet. `DispatchInv` adds, for a key Redis has not
  failed, that the Postgres fallback is out of reach, that only a request with the
  reservation gets to the emit, that the entry stands as long as there is such a
  request (and so refuses every other NX), and that there is only one.
* `CompletionSound`, from `CompletionInv`: requests at `complete`, `store` or `refresh`
  have an emitted event behind them.
* `SuccessBacked`, from `BackedInv`: an entry, and a request that met the entry of
  another payload, stand on a request of the key that has emitted, is about to, or was
  silenced; the lemma `BackedStays` says that this never stops being so.
* `RefinesEventOnce`: every step is a `Claim`, `Dispatch`, `Reply`, `Forgetful` or a
  stutter. Uses `ProgressInv` (what `pc` says of reply and message) and `OwnerInv` (one
  owner per key that Redis has not failed).

**Gateway and dead letter queue** (`DeliveryProofs`), for every number of
notifications, messages, retries, operators and copies and every set of faults. All
invariants are about `Step`, the gateway's `Next` with the operators' re-dispatch
and the producers' copies added, so that one proof serves both modules:

* `RetriesOrdered` from `ChainInv` (only an attempt whose answer was retryable makes the
  next one, while none after it exists and no dead letter has been written);
  `AtMostOnce` from `DeliveryInv` (nothing comes after a delivered attempt);
  `LosslessGateway`, which excepts unreadable messages and nothing else, from `KeptInv`,
  which adds that the gateway is up;
  `RefinesDeliveryOutcome` with `DrainInv` (a drain comes from a shutdown) and
  `SourceInv` (what was delivered was accepted). `GatewayCorrect` and
  `GatewayRefinesOutcome` are the same for the gateway alone.
* `RetriesRecorded`, while neither worker nor writes nor transactions fail, from
  `RetryInv` (who has which row in hand, and that two requests with the same row leave
  a mark in any order).
* `StatusExplained`, when only the worker may die, from `StatusInv`, which has three
  parts. `Lineage`: a notification has one message of the router's, and what operators
  add descends from its dead letter. `AboutToWrite`: an attempt that has written its log
  row left behind what the row says (the next attempt, a delivery, a dead letter).
  `LogRow`: SENT has a delivery and FAILED a dead letter behind it, PENDING has an attempt
  that will still write (`Busy`) or is of an unreadable message, and RETRYING has one too
  unless an operator's retry has been recorded (`Marked`). `Marked` is why the property
  has an exception at all.
* `StatusTold`, the same without operators: then nothing is ever `Marked`, and the row of
  a settled notification shows how it ended (`Ending`).

These theorems also cover two faults no run switches on: `ambiguous` (a provider
delivers and reports an error) and `slowLog` (a log update slower than a minute of
backoff).

**Router and pipeline** (`NotificationRouterProofs`):

* `OnePerChannel` from `OnceInv`: the rows of this run (`ThisRun`) are of templates that
  the loop has done, or of the one it is about to emit; a plan has one template per
  channel. `NothingHalfDone` from `RouteInv`: what the loop has left behind was
  dispatched.
* `RouterKeepsItsPromises`: every step of the pipeline is a step of the router or leaves
  it alone.
* `NotifiedTwiceHasCauses` (with `MaxRuns > 1`: otherwise all runs have one number;
  like `NeighboursKeepTheirSpecs` it has `RequestsAssumption` as a hypothesis: the types
  of `RequestOf` and `KeyOf`, and that copies of an event carry the same data), from
  `FlowInv`: an event with a row has arrived, one that arrived is of a request that was
  triggered by an owner of its key, and a key not forgotten has one owner; and from
  `OneMessage`: a notification has one message unless a producer resends. The rest is
  `OnceInv`.
* `OrphansHaveCauses` from `OrphanInv`: a row without message belongs to a run that is
  over or to the template in hand (`InHand`).
* `NeighboursKeepTheirSpecs`: seen from ingress and gateway, every step of the pipeline
  is a step of `EventOnce` and of `DeliveryOutcome`.

**Platform** (`PlatformProofs`), with the notifications of the router as those of the
gateway:

* `ComponentsKeepTheirSpecs`: every step of the platform is a step of each component or
  leaves it alone, so whatever is proved of a component is true of it here. `PartsHold`
  collects what the rest needs.
* `PlatformRefinesPipeline`: with `ClaimsInv` (who emits was claimed, by a reservation as
  long as Redis has not failed the key) and `GlueInv` (what stands on a topic was stored
  by the producer before it; a notification on its topic has a message of the router's,
  one unless a producer resends, and one is a dead letter by the time operators add
  others), each kind of step maps to one of `Pipeline` or to a stutter.
* Consequences of the refinement and these invariants: `OrphansExplained`,
  `DeliveredTwiceHasCauses` (with `MaxRuns > 1`; it follows two deliveries back through
  the messages, the rows of the router and the claims of the ingress) and
  `AcceptedAccounted`, which chains for a platform at rest the invariants behind
  `SuccessBacked`, `NothingHalfDone` and `LosslessGateway` with `LettersHaveRows`: a dead
  letter that was handled has its row, or is realtime, or met a failing transaction.

Two assumptions go beyond those of the components: `CopiesAssumption` (a request is
known by the first message of its event; copies carry the same data) and
`NamesAssumption` (an event is not a notification: both are in the pipeline's set of
dropped messages).

**Tenant cache** (`TenantIdentityCacheProofs`): `TypeCorrect`, whose invariant bounds
the revision by the number of calls that have committed; `StalenessHasCauses`, from
`StaleInv`: a stale key that no deleted provider configuration explains (`Wrong`) is
doubtful or among those that a call which has committed is going to invalidate or refill
(`Pending`, sharper than the property because a reactivation refills one key only).
`RevocationIsImmediate`: when Redis answers, endpoint calls come one after the other and
no request that missed the cache crosses one (`Orderly`), `RevocationHolds`: a key revoked
before a request came opens nothing. It needs that nothing is ever doubtful then
(`OrderInv`) and that a late request reads a database in which its key has been given up
(`LateInv`).

**Rate limiter** (`RateLimiterProofs`, both modules):

* `BurstBound`, from `BucketInv`: what is left in the bucket plus what passed since the
  watch began is at most the capacity plus the time since then, its slips and one
  delay. It needs `BucketTTL >= Capacity + MaxDelay`; `DefaultCapacityFits` shows that
  the capacity the code chooses for itself refills in 100 s of the bucket's 120.
  `DashboardAgrees`: the dashboards' own computation shows a burst as available
  exactly when the next request would pass.
* `LimitsNeverExceeded`, `NoCarryOver`, `OnlyInterruptionsLeak`, from `LimiterInv`: a
  counter lives at least until its period begins plus its time to live, and until then it
  shows no fewer requests than it let through (`CounterOK`); what it shows was
  attempted in its own period.

**Templates** (`TemplateCatalogProofs`): from `IInv` (a found row is of the creation's
own line, ids are drawn by calls of that id, first versions by the call itself, a
template has one owner and slot): `VersionsAreDense`, `NewestIsServed`, `ForksHaveCauses`,
`ConflictsHaveCauses`; and `QuotaExcessHasCauses` from `QInv`, which adds that
an operator's creation counted fewer templates than the quota (`CountsAreBelow`). The
bound is a sum: the quota, the templates made by the tenant's admins, and those of
operators' creations behind whose count another operator's first version was committed
(`Overtaken`); a creation that is not overtaken (`NothingMissed`) leaves room for itself.

**Credentials** (`TenantAdminCredentialsProofs`): `PasswordStaysReachable`,
`OwnPasswordKept` (an action property), `StatusHasCauses`, `SecondMailerHasCause`, from
`OverlapInv` (what is in progress together is in `overlap`), `PasswordInv`,
`HistoryInv`, `StatusInv`, `SavesInv`.

Only model-checked: the liveness properties (`ReservationsEnd`, `EveryRequestEnds`,
`StalenessEnds`, `EveryEventIsHandled`, `EveryMessageIsAccountedFor`): fairness and
ENABLED are out of the prover's reach.
Only proved: `OneDispatchPerWindow` (implied by the refinement that is checked),
`DuplicatesAreExplained` and `OrphansAreExplained` (of `Pipeline`, which has no run of its
own, and so of `Platform`), `RevocationHolds` in the environment named above (the run's
environment is not that one, section 7), `VersionsFollowEdits`, `StatsAgree`, and the type
invariants of the dead letter queue, the credentials and the pipeline.

## 7. What the code does not keep

One disagreement has a run of its own. `router_poison`: a template that cannot be
rendered (`w/notifications/render.service.ts:29`) makes `handleTenantEvent` throw at every
attempt and stops the only partition, for all tenants, where
`docs/Development/Multitenancy.txt:9` promises isolation.

The others are visible as variants of the passing runs: change the configuration as
said, and TLC shows the behaviour.

* `IngressFaults.cfg` with `Gone(s)` removed from `SuccessIsBacked`: a replica that dies
  between `SET NX` and `emit` (`w/events/events.controller.ts:426`) leaves "processing"
  for the whole TTL, and every retry is answered `success` for an event that never
  exists. With `Crashes = FALSE` a `SET NX` that ioredis sends twice does the same
  (`w/common/ingress-cache.ts:161`), and so do a failing transaction and a throwing
  `emit`. A message Kafka refuses after `emit` returned (`:188`) is "lost" in
  `EveryRequestEnds`: nobody is told.
* `DLQLive.cfg` with `Faults = {"shutdown"}` violates `NothingLost`: the retry consumer
  has committed the offset of the message it sleeps on (`gateway/main.go:178`), `wg` does
  not count it, and SIGTERM drops it. The log row says RETRYING for ever. `{"publish"}`
  does too: a failed write to the retry or dead letter topic is only logged
  (`gateway/main.go:308`).
* `EveryMessageIsAccountedFor` without its last disjunct is violated by `n2` of
  `DLQLive.cfg`: the dead letter of an in-app notification carries the channel `REALTIME`,
  which `channel_enum` does not have; the INSERT throws, the error is swallowed
  (`w/notifications/notification.controller.ts:410`), and no operator sees it.
* `Malformed` left out of `NothingLost` or of `Ending` is violated by `n3` of `DLQLive.cfg`:
  a recipient that the client sent as a number does not fit the gateway's payload, and
  the message is dropped behind its committed offset (`gateway/main.go:130`); its row
  stays PENDING for ever.
* `Platform.cfg` without `StoredTwice` in `DeliveriesAreExplained`: neither producer of the
  worker is idempotent (`w/notifications/notifications.module.ts:9`,
  `w/events/events.module.ts:10`), and a send that is repeated because its answer was lost
  delivers twice.
* `Router.cfg` without `BadType` or `BadUser` in `Unhandleable`: an `eventType` that is no
  string, or a `userId` that is no UUID, makes Postgres refuse the lookup
  (`w/notifications/notification.controller.ts:65`) or the row (`:121`) at every attempt,
  and blocks the partition like a broken template.
* `TenantCache.cfg` without `LacksDeletion` in `StalenessIsExplained`: deleting a provider
  configuration (`w/admin/providers.controller.ts:212`) changes the tenant's row through
  its foreign key, and the cached identity goes on naming what is gone.
* `DLQLive.cfg` with `Operators = {o1}` violates `StatusShowsOutcome`: the retry is emitted
  before the transaction that writes RETRYING (`w/admin/dlq.controller.ts:136`), and the
  gateway may have written SENT in between; or the worker's late FAILED stands over a
  delivery of the retried message. `OnlyRetriesMislead` says that there is no third way.
* `TenantCache.cfg` with the invariant `RevocationHolds`: `resolveTenant` fills the cache
  with the row it read before a suspension (`w/events/events.controller.ts:276`), and the
  tenant is served for up to `TENANT_API_CACHE_TTL_SECONDS` more. With
  `CrossingFills = FALSE` a failing DEL (`RedisFaults`) or two overlapping calls
  (`ConcurrentAdmins`: two rotations, `w/admin/tenants.controller.ts:533`, or a
  reactivation whose refill lands after a suspension, `:668`) have the same effect; with
  all three FALSE it holds, which `RevocationIsImmediate` proves.
* `Templates.cfg` with the invariant `ConflictsAreRaces`: an operator's TENANT_OVERRIDE
  that the tenant's own admin edits becomes a template of two scopes
  (`w/tenant/templates.controller.ts:41` does not ask for one); the operator's next edits
  compute a version that is taken and fail with a conflict each time, without any race.
  The same edit is served instead of the override: `OverrideIsServed` is violated,
  where `docs/Development/Level2-Multitenancy-Implementation.md:400` gives overrides
  precedence.
* `Credentials.cfg` with the property `InterventionStaysLocked`: an intervention checks
  that the admin has not completed the first reset, the admin completes it, and the
  intervention's UPDATE overwrites the new password
  (`w/admin/tenants.controller.ts:842`; the error text at `:1076` says that this is locked).

Read in the code and explained by a property's exceptions, without a variant:

* `processed_events` is consulted only when Redis fails
  (`w/events/events.controller.ts:312`): after Redis lost its memory a known event is
  dispatched again (the first cause in `DeliveriesAreExplained`); and the INSERT of
  `:542` fails silently on an expired row of the same key.
* An event handed over again notifies its channels again, under new ids
  (`w/notifications/notification.controller.ts:106`, the second cause). The rows of the
  earlier run stay PENDING (`OrphansAreExplained`).
* `tenant/templates.controller.ts` never looks at `max_template_count`
  (`QuotaIsExplained`).
* The day's counter lives 86400 s from its first request, so it may die just before a
  request whose reading is of the same day (`LimitsHold`, second part). Both counters are
  of fixed periods; "Sliding window" (`w/common/rate-limiter.service.ts:156`) they are not:
  around a boundary twice the limit passes.
* A request that the day's counter refuses has spent a token and a minute's count
  (`w/common/rate-limiter.service.ts:64`); a failing Redis command refuses the request
  with a 500.
* `docs/Integration-Guide.md:32` describes global templates with `tenant_id = null`;
  the query asks for the tenant's own (`w/notifications/notification.controller.ts:69`).
* The comment "Retry all non-permanently-failed" (`w/admin/dlq.controller.ts:177`)
  stands over a query for `permanently_failed: true`.

## 8. What is abstracted or left out

* HMAC verification and payload hashing: a request has a key and a hash. The rate limiter
  and the identity cache stand before the ingress; each is a model of its own, because
  they share no state with it.
* Rate limits and quotas are fixed during a behaviour. `BURST_CAPACITY` in the
  environment can choose a bucket that takes longer to fill than Redis keeps it; the
  assumption of `TokenBucket` excludes that. The `Retry-After` of a refusal is not
  modelled.
* What client data does to the code is kept as what refuses it: Postgres at the lookup of
  the templates or at the row (`BadType`, `BadUser`), the gateway's payload (`Malformed`).
  Which value does that, and what a recipient that nobody can reach leads to (the
  adapters' permanent error), is not told apart.
* The limiter's Redis does not lose its memory: counters and the bucket would start anew,
  and the limits would hold only from then on.
* Time: outside the rate limiter TTLs and backoffs are events that may come at any moment
  after they are due; only their order against what they guard is kept. How long the
  retry consumer makes others wait is not modelled.
* One transaction (`withActorContext`) is one step, or one per statement where it reads and
  then writes what another may change.
* `retryAll` takes at most 100 rows a call; the model takes all. Which of two rows with
  one `created_at` comes first is left open.

Not modelled:

* Template library, preview and analysis; logs, statistics and audit queries: functions
  of their request and read-only.
* Guards, login and refresh tokens: each request checks a token against one row, and no
  state is kept between two. (`w/tenant/tenant-auth.controller.ts:47` looks an admin up by
  a username that is unique per tenant only, and takes the oldest: a password that is known
  need not open the account if another tenant's admin has the same name.)
* Provider configurations: create and update are single statements; what the gateway makes
  of a missing or changed one is in `HydrateProviderConfig`, what their deletion does to
  the cached identity in `DeleteProvider`.
* The generated Prisma client (about 21 000 lines), the admin UI (about 9 500 lines, calls
  of the endpoints above), bootstrap, deployment files. They are more than three quarters
  of the repository's code and hold none of the behaviour of section 1; of the
  hand-written back end most of what keeps state is modelled.

## 9. Further work

* A run of `Platform` with two requests, two channels or failures of the router: a
  reduction of the components' independent interleavings would be needed.
* A clock for the retry consumer, to bound how long one message delays the others.
* Login and refresh, once sessions keep state on the server.
