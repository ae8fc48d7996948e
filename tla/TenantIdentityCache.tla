------------------------- MODULE TenantIdentityCache -------------------------
(***************************************************************************)
(* The Redis cache of tenant identities: EventsController.resolveTenant    *)
(* reads through it on every request, the platform's tenant endpoints      *)
(* (admin/tenants.controller.ts) change the row in Postgres and then       *)
(* invalidate or refill it; the deletion of the tenant's provider          *)
(* configuration (admin/providers.controller.ts) changes the row through a *)
(* foreign key and leaves the cache alone.  One tenant, its current and    *)
(* former API keys.                                                        *)
(*                                                                         *)
(* A request awaits between its cache read, its row read and its cache     *)
(* write; an endpoint between the two statements of its transaction and    *)
(* its cache call.  All of these interleave.                               *)
(*                                                                         *)
(* A definition named Bug... is no part of the specification: it is what   *)
(* the definition after it would be with a plausible mistake in the code.  *)
(***************************************************************************)
EXTENDS Naturals, FiniteSets

CONSTANTS
    Keys,              \* API keys, one of them the first
    FirstKey,
    Requests,          \* webhook requests in progress at once
    Admins,            \* calls of the platform's endpoints
    Kinds,             \* which endpoints they call
    RedisFaults,       \* a Redis command may fail
    CrossingFills,     \* the row may change between a request's read and its fill
    ConcurrentAdmins   \* endpoint calls may overlap

Endpoints == {"update", "rotate", "suspend", "deactivate", "reactivate"}

ASSUME KeysAssumption == FirstKey \in Keys
ASSUME AdminsAssumption == IsFiniteSet(Admins)
ASSUME KindsAssumption == Kinds \subseteq Endpoints
ASSUME SwitchesAssumption == {RedisFaults, CrossingFills, ConcurrentAdmins} \subseteq BOOLEAN

VARIABLES
    row,       \* the tenants row
    issued,    \* keys that are or were the tenant's
    cache,     \* cache[k]: platform:tenant_api_key:<k>
    req,       \* req[r]: webhook request r
    adm,       \* adm[a]: endpoint call a
    doubtful,  \* history: keys whose entry a race or a failure has kept or made wrong
    late       \* history: requests whose key has had no active tenant since they arrived

vars == <<row, issued, cache, req, adm, doubtful, late>>

\* linked says whether provider_config_id is set; rev counts the updates of every
\* other column (secret, limits, sender, ...), the endpoint calls bound it.
Revisions == 0 .. Cardinality(Admins)
Identity == [active : BOOLEAN, linked : BOOLEAN, rev : Revisions]
Absent == [active |-> FALSE, linked |-> FALSE, rev |-> Cardinality(Admins) + 1]
Cached == Identity \cup {Absent}

ReqStep == {"idle", "get", "read", "warm", "accepted", "refused"}
AdmStep == {"idle", "commit", "cache", "done"}

TypeOK ==
    /\ row \in [key : Keys, id : Identity]
    /\ issued \in SUBSET Keys
    /\ cache \in [Keys -> Cached]
    /\ req \in [Requests -> [pc : ReqStep, key : Keys, seen : Cached]]
    /\ adm \in [Admins -> [pc : AdmStep, kind : Endpoints, prev : Keys, key : Keys, id : Identity]]
    /\ doubtful \subseteq Keys
    /\ late \subseteq Requests
    /\ row.key \in issued
    /\ \A r \in Requests : req[r].pc = "warm" => req[r].seen # Absent

First == [active |-> TRUE, linked |-> TRUE, rev |-> 0]

Init ==
    /\ row = [key |-> FirstKey, id |-> First]
    /\ issued = {FirstKey}
    /\ cache = [k \in Keys |-> Absent]
    /\ req = [r \in Requests |-> [pc |-> "idle", key |-> FirstKey, seen |-> Absent]]
    /\ adm = [a \in Admins |-> [pc |-> "idle", kind |-> "update", prev |-> FirstKey,
                                key |-> FirstKey, id |-> First]]
    /\ doubtful = {}
    /\ late = {}

\* What a query by key k returns.
Lookup(k) == IF row.key = k THEN row.id ELSE Absent

\* SET ... EX.
Fill(k, identity) ==
    /\ cache' = [cache EXCEPT ![k] = identity]
    /\ doubtful' = IF identity = Lookup(k) THEN doubtful \ {k} ELSE doubtful \cup {k}

\* Each DEL fails on its own, and a failure is only logged.
Invalidate(ks) ==
    \E failed \in SUBSET ks :
        /\ RedisFaults \/ failed = {}
        /\ cache' = [k \in Keys |-> IF k \in ks \ failed THEN Absent ELSE cache[k]]
        /\ doubtful' = (doubtful \ ks) \cup failed

-----------------------------------------------------------------------------
(* resolveTenant *)

InProgress(a) == adm[a].pc \in {"commit", "cache"}

\* A request is late if no endpoint call is still to be answered that may have
\* revoked its key.
Arrive(r, k) ==
    /\ req[r].pc \in {"idle", "accepted", "refused"}
    /\ k \in issued
    /\ req' = [req EXCEPT ![r] = [pc |-> "get", key |-> k, seen |-> Absent]]
    /\ late' = IF ~Lookup(k).active /\ \A a \in Admins : ~InProgress(a)
               THEN late \cup {r} ELSE late \ {r}
    /\ UNCHANGED <<row, issued, cache, adm, doubtful>>

Verdict(identity) == IF identity.active THEN "accepted" ELSE "refused"

GetCached(r) ==
    LET found == cache[req[r].key] IN
    /\ req[r].pc = "get"
    /\ \/ /\ found # Absent
          /\ req' = [req EXCEPT ![r].seen = found, ![r].pc = Verdict(found)]
       \/ /\ found = Absent \/ RedisFaults
          /\ req' = [req EXCEPT ![r].pc = "read"]
    /\ UNCHANGED <<row, issued, cache, adm, doubtful, late>>

BugUnknownKeyIsCached(r) ==
    /\ req[r].pc = "read"
    /\ req' = [req EXCEPT ![r].seen = Lookup(req[r].key), ![r].pc = "warm"]
    /\ UNCHANGED <<row, issued, cache, adm, doubtful, late>>
ReadTenant(r) ==
    LET found == Lookup(req[r].key) IN
    /\ req[r].pc = "read"
    /\ req' = [req EXCEPT ![r].seen = found,
                          ![r].pc = IF found = Absent THEN "refused" ELSE "warm"]
    /\ UNCHANGED <<row, issued, cache, adm, doubtful, late>>

WarmCache(r) ==
    /\ req[r].pc = "warm"
    /\ \/ Fill(req[r].key, req[r].seen)
       \/ RedisFaults /\ UNCHANGED <<cache, doubtful>>
    /\ req' = [req EXCEPT ![r].pc = Verdict(req[r].seen)]
    /\ UNCHANGED <<row, issued, adm, late>>

BugStoredWithoutEX(k) == k \notin Keys /\ UNCHANGED vars
Expire(k) ==
    /\ cache[k] # Absent
    /\ cache' = [cache EXCEPT ![k] = Absent]
    /\ doubtful' = doubtful \ {k}
    /\ UNCHANGED <<row, issued, req, adm, late>>

-----------------------------------------------------------------------------
(* The endpoints *)

\* tx.tenants.findUnique: previousApiKey is taken from what it returns.
ReadExisting(a, kind) ==
    /\ adm[a].pc = "idle"
    /\ ConcurrentAdmins \/ \A b \in Admins : ~InProgress(b)
    /\ adm' = [adm EXCEPT ![a].pc = "commit", ![a].kind = kind, ![a].prev = row.key]
    /\ UNCHANGED <<row, issued, cache, req, doubtful, late>>

\* The rows tx.tenants.update may leave: it writes the columns of its endpoint
\* into the row as it is now.  updateTenant may also set is_active, and link or
\* unlink a provider configuration.
Updated(kind) ==
    CASE kind = "update" ->
            {[row EXCEPT !.id = [active |-> b, linked |-> p, rev |-> @.rev + 1]]
                : b, p \in BOOLEAN}
      [] kind = "rotate" -> {[row EXCEPT !.key = k] : k \in Keys \ issued}
      [] kind \in {"suspend", "deactivate"} -> {[row EXCEPT !.id.active = FALSE]}
      [] kind = "reactivate" -> {[row EXCEPT !.id.active = TRUE]}

\* If another call has rotated the key since ReadExisting, the invalidation of this
\* one names a key that is no longer the latest.
CommitUpdate(a) ==
    /\ adm[a].pc = "commit"
    /\ CrossingFills \/ \A r \in Requests : req[r].pc # "warm"
    /\ row' \in Updated(adm[a].kind)
    /\ issued' = issued \cup {row'.key}
    /\ adm' = [adm EXCEPT ![a].pc = "cache", ![a].key = row'.key, ![a].id = row'.id]
    /\ late' = {r \in late : row'.key # req[r].key \/ ~row'.id.active}
    /\ doubtful' = IF adm[a].prev = row.key THEN doubtful ELSE doubtful \cup {row.key}
    /\ UNCHANGED <<cache, req>>

\* The keys whose entries the endpoint deletes; reactivation refills one.
BugForgetsPreviousKey(call) == {call.key}
Invalidated(call) ==
    IF call.kind \in {"update", "rotate"} THEN {call.prev, call.key} ELSE {call.prev}

AdjustCache(a) ==
    LET call == adm[a] IN
    /\ call.pc = "cache"
    /\ \/ call.kind # "reactivate" /\ Invalidate(Invalidated(call))
       \/ call.kind = "reactivate" /\ Fill(call.key, call.id)
       \/ /\ RedisFaults
          /\ call.kind = "reactivate"
          /\ doubtful' = doubtful \cup {call.key}
          /\ UNCHANGED cache
    /\ adm' = [adm EXCEPT ![a].pc = "done"]
    /\ UNCHANGED <<row, issued, req, late>>

\* Deleting the configuration sets tenants.provider_config_id to NULL (ON DELETE SET
\* NULL); nobody touches the cached identity.
DeleteProvider(a) ==
    /\ adm[a].pc = "idle"
    /\ ConcurrentAdmins \/ \A b \in Admins : ~InProgress(b)
    /\ CrossingFills \/ \A r \in Requests : req[r].pc # "warm"
    /\ row.id.linked
    /\ row' = [row EXCEPT !.id.linked = FALSE]
    /\ adm' = [adm EXCEPT ![a].pc = "done"]
    /\ UNCHANGED <<issued, cache, req, doubtful, late>>

-----------------------------------------------------------------------------
ResolveTenant(r) == GetCached(r) \/ ReadTenant(r) \/ WarmCache(r)

Endpoint(a) ==
    \/ \E kind \in Kinds : ReadExisting(a, kind)
    \/ CommitUpdate(a)
    \/ AdjustCache(a)
    \/ DeleteProvider(a)

Next ==
    \/ \E r \in Requests : ResolveTenant(r) \/ \E k \in Keys : Arrive(r, k)
    \/ \E a \in Admins : Endpoint(a)
    \/ \E k \in Keys : Expire(k)

Spec == Init /\ [][Next]_vars

\* Handlers run to their end and Redis expires what has an EX.  Nobody has to
\* send a request or to call an endpoint.
FairSpec ==
    /\ Spec
    /\ \A r \in Requests : WF_vars(ResolveTenant(r))
    /\ \A a \in Admins : WF_vars(CommitUpdate(a)) /\ WF_vars(AdjustCache(a))
    /\ \A k \in Keys : WF_vars(Expire(k))

-----------------------------------------------------------------------------
(* Properties *)

Stale(k) == cache[k] # Absent /\ cache[k] # Lookup(k)

\* The entry is the identity from before the deletion of the provider configuration.
LacksDeletion(k) == cache[k] = [Lookup(k) EXCEPT !.linked = TRUE]

\* A cached identity differs from the row for one of five reasons only: an endpoint
\* call has still to adjust the entry, a fill crossed a change, a command failed, two
\* calls overlapped so that one invalidated an older key, or the provider configuration
\* was deleted, and then the entry differs in provider_config_id and in nothing else
\* (events.controller.ts:241-282, admin/tenants.controller.ts:456-737,
\* admin/providers.controller.ts:201-215, init-db/init.sql:278).
StalenessIsExplained ==
    \A k \in Keys : Stale(k) =>
        \/ k \in doubtful
        \/ \E a \in Admins : adm[a].pc = "cache" /\ k \in {adm[a].prev, adm[a].key}
        \/ LacksDeletion(k)

\* A key that was rotated out, or whose tenant was suspended, opens the webhook to
\* no request that arrives after the endpoint has answered (and finds no tenant
\* active under that key until it is judged): admin/tenants.controller.ts:524-737,
\* events.controller.ts:93-96.
RevocationHolds == \A r \in late : req[r].pc # "accepted"

\* Whatever crossed, overlapped or failed, once the endpoints are quiet the cache agrees with
\* the row for good: an entry lives for TENANT_API_CACHE_TTL_SECONDS and is
\* refilled from the row (common/ingress-cache.ts:98-108).
StalenessEnds == <>[](\A k \in Keys : ~Stale(k))
=============================================================================
