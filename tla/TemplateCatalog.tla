---------------------------- MODULE TemplateCatalog ----------------------------
(***************************************************************************)
(* The table "templates": platform operators and tenant admins create      *)
(* versions (TemplatesController.createTemplate in admin/ and in tenant/), *)
(* deactivate and reactivate them, and the router resolves the version an  *)
(* event is rendered with.  A creation is one transaction of several       *)
(* statements under READ COMMITTED, so that other creations commit between *)
(* them; the only thing the schema forbids is a second row of one          *)
(* (template_id, version).                                                 *)
(*                                                                         *)
(* A definition named Bug... is no part of the specification: it is what   *)
(* the definition after it would be with a plausible mistake in the code.  *)
(***************************************************************************)
EXTENDS Naturals, Sequences, FiniteSets

CONSTANTS
    Tenants,
    Slots,   \* pairs of an event type and a channel
    Quota,   \* Quota[t]: tenants.max_template_count of tenant t
    Calls    \* requests that create a template; bounds a run

ASSUME QuotaAssumption == Quota \in [Tenants -> Nat]
ASSUME CallsAssumption == IsFiniteSet(Calls)
ASSUME PlatformAssumption == "platform" \notin Tenants

\* A row whose tenant_id is NULL belongs to the platform.
Owners == Tenants \cup {"platform"}
Scopes == {"PLATFORM_DEFAULT", "TENANT_OVERRIDE", "TENANT_CUSTOM"}

\* What the controllers make of a body: effectiveTenantId and effectiveScope, and
\* for a tenant admin the tenant of the token and TENANT_CUSTOM.
AdminArgs ==
    {a \in [via : {"admin"}, owner : Owners, slot : Slots, scope : Scopes] :
        a.scope = "PLATFORM_DEFAULT" => a.owner = "platform"}
TenantArgs == [via : {"tenant"}, owner : Tenants, slot : Slots, scope : {"TENANT_CUSTOM"}]
Args == AdminArgs \cup TenantArgs

\* A template_id is a randomUUID(): it is known by the call that drew it.
Row == [id : Calls, version : Nat \ {0}, owner : Owners, slot : Slots, scope : Scopes,
        is_active : BOOLEAN]

VARIABLES
    rows,     \* the table, in the order of the commits; rows are never deleted
    pc,       \* what call c does next, or how it ended
    args,     \* its arguments, from its first query on
    found,    \* "existing": the index of the row it found, or 0
    seen,     \* Len(rows) at its first query (no code: for the properties)
    counted   \* Len(rows) when it counted the tenant's templates (likewise)

vars == <<rows, pc, args, found, seen, counted>>

Ended == {"created", "refused", "conflict", "failed"}

TypeOK ==
    /\ rows \in Seq(Row)
    /\ pc \in [Calls -> {"idle", "quota", "create"} \cup Ended]
    /\ args \in [Calls -> Args]
    /\ found \in [Calls -> 0 .. Len(rows)]
    /\ seen \in [Calls -> 0 .. Len(rows)]
    /\ counted \in [Calls -> 0 .. Len(rows)]
    /\ \A i, j \in 1 .. Len(rows) :
          rows[i].id = rows[j].id /\ rows[i].version = rows[j].version => i = j

Init ==
    /\ rows = <<>>
    /\ pc = [c \in Calls |-> "idle"]
    /\ args \in [Calls -> Args]
    /\ found = [c \in Calls |-> 0]
    /\ seen = [c \in Calls |-> 0]
    /\ counted = [c \in Calls |-> 0]

-----------------------------------------------------------------------------
(* createTemplate *)

\* The rows findFirst looks at: the tenant's endpoint does not ask for a scope.
BugActiveOnly(a) ==
    {i \in 1 .. Len(rows) :
        /\ rows[i].owner = a.owner
        /\ rows[i].slot = a.slot
        /\ rows[i].is_active
        /\ a.via = "admin" => rows[i].scope = a.scope}
Line(a) ==
    {i \in 1 .. Len(rows) :
        /\ rows[i].owner = a.owner
        /\ rows[i].slot = a.slot
        /\ a.via = "admin" => rows[i].scope = a.scope}

\* orderBy version desc; which of two rows of one version comes first is left open
\* (the admin's query does not say, the tenant's takes the later created_at).
BugOldest(S) == {i \in S : \A j \in S : rows[j].version >= rows[i].version}
Latest(S) == {i \in S : \A j \in S : rows[j].version <= rows[i].version}

FindLatest(c) ==
    /\ pc[c] = "idle"
    /\ \/ Line(args[c]) = {} /\ UNCHANGED found
       \/ \E i \in Latest(Line(args[c])) : found' = [found EXCEPT ![c] = i]
    /\ seen' = [seen EXCEPT ![c] = Len(rows)]
    /\ pc' = [pc EXCEPT ![c] =
                 IF args[c].via = "admin" /\ args[c].owner \in Tenants /\ Line(args[c]) = {}
                 THEN "quota" ELSE "create"]
    /\ UNCHANGED <<rows, args, counted>>

\* findMany with distinct template_id.
Ids(t) == {rows[i].id : i \in {i \in 1 .. Len(rows) : rows[i].owner = t}}

BugQuotaOffByOne(c) ==
    /\ pc[c] = "quota"
    /\ counted' = [counted EXCEPT ![c] = Len(rows)]
    /\ pc' = [pc EXCEPT ![c] =
                 IF Cardinality(Ids(args[c].owner)) > Quota[args[c].owner] THEN "refused" ELSE "create"]
    /\ UNCHANGED <<rows, args, found, seen>>
CheckQuota(c) ==
    /\ pc[c] = "quota"
    /\ counted' = [counted EXCEPT ![c] = Len(rows)]
    /\ pc' = [pc EXCEPT ![c] =
                 IF Cardinality(Ids(args[c].owner)) >= Quota[args[c].owner] THEN "refused" ELSE "create"]
    /\ UNCHANGED <<rows, args, found, seen>>

BugStaleVersion(c) ==
    [id |-> IF found[c] = 0 THEN c ELSE rows[found[c]].id,
     version |-> IF found[c] = 0 THEN 1 ELSE rows[found[c]].version,
     owner |-> args[c].owner, slot |-> args[c].slot, scope |-> args[c].scope,
     is_active |-> TRUE]
NewRow(c) ==
    [id |-> IF found[c] = 0 THEN c ELSE rows[found[c]].id,
     version |-> IF found[c] = 0 THEN 1 ELSE rows[found[c]].version + 1,
     owner |-> args[c].owner, slot |-> args[c].slot, scope |-> args[c].scope,
     is_active |-> TRUE]

BugTakenPerScope(row) ==
    \E i \in 1 .. Len(rows) :
        rows[i].id = row.id /\ rows[i].version = row.version /\ rows[i].scope = row.scope
\* The primary key of the row that is to be written is taken.
Taken(row) == \E i \in 1 .. Len(rows) : rows[i].id = row.id /\ rows[i].version = row.version

\* create, the audit row, COMMIT.  An INSERT of a key that is about to be committed
\* waits for that commit, so that this is one step.
Create(c) ==
    /\ pc[c] = "create"
    /\ ~Taken(NewRow(c))
    /\ rows' = Append(rows, NewRow(c))
    /\ pc' = [pc EXCEPT ![c] = "created"]
    /\ UNCHANGED <<args, found, seen, counted>>

\* The unique constraint refuses the row and the call answers with an error.
Conflict(c) ==
    /\ pc[c] = "create"
    /\ Taken(NewRow(c))
    /\ pc' = [pc EXCEPT ![c] = "conflict"]
    /\ UNCHANGED <<rows, args, found, seen, counted>>

\* A statement of the transaction fails, or the replica dies: it is rolled back.
Abort(c) ==
    /\ pc[c] \in {"quota", "create"}
    /\ pc' = [pc EXCEPT ![c] = "failed"]
    /\ UNCHANGED <<rows, args, found, seen, counted>>

-----------------------------------------------------------------------------
(* deactivateTemplate, reactivateTemplate, the tenant's deactivate: an UPDATE by *)
(* primary key                                                                   *)

SetActive(i, b) ==
    /\ rows' = [rows EXCEPT ![i].is_active = b]
    /\ UNCHANGED <<pc, args, found, seen, counted>>

Deactivate == \E i \in 1 .. Len(rows) : SetActive(i, FALSE)
Reactivate == \E i \in 1 .. Len(rows) : SetActive(i, TRUE)

-----------------------------------------------------------------------------
Next ==
    \/ \E c \in Calls :
          FindLatest(c) \/ CheckQuota(c) \/ Create(c) \/ Conflict(c) \/ Abort(c)
    \/ Deactivate
    \/ Reactivate

Spec == Init /\ [][Next]_vars

-----------------------------------------------------------------------------
(* Properties *)

\* What the router renders an event of tenant t with: its active rows by version;
\* which of two rows of one version comes first (created_at) is left open.
BugServesOldest(t, s) ==
    LET active == {i \in 1 .. Len(rows) :
                      rows[i].owner = t /\ rows[i].slot = s /\ rows[i].is_active}
    IN  BugOldest(active)
Served(t, s) ==
    LET active == {i \in 1 .. Len(rows) :
                      rows[i].owner = t /\ rows[i].slot = s /\ rows[i].is_active}
    IN  Latest(active)

\* Whatever creations overlap and whichever endpoint they use, a template's versions
\* are numbered 1, 2, 3, ... in the order in which they became visible: none is lost,
\* skipped or given out of order (admin/templates.controller.ts:85, tenant/:50).
VersionsFollowEdits ==
    \A i \in 1 .. Len(rows) :
        /\ \A v \in 1 .. rows[i].version :
              \E j \in 1 .. i : rows[j].id = rows[i].id /\ rows[j].version = v
        /\ \A j \in 1 .. i - 1 :
              rows[j].id = rows[i].id => rows[j].version < rows[i].version

\* The router serves the newest edit of a template that is not withdrawn: no
\* overlap of edits, rollback or roll-forward brings an older one back while a newer
\* one is active (notification.controller.ts:65-90).
ServedIsNewest ==
    \A t \in Tenants, s \in Slots :
        \A i \in Served(t, s) : \A j \in i + 1 .. Len(rows) :
            rows[j].id = rows[i].id => ~rows[j].is_active

First(i) == rows[i].version = 1
MadeByTenant(t) == {c \in Ids(t) : args[c].via = "tenant"}

\* Operators' creations that committed behind another operator's first version which
\* was not there yet when they counted.
Overtaken(t) ==
    {c \in Ids(t) :
        /\ args[c].via = "admin"
        /\ \E i, j \in 1 .. Len(rows) :
              /\ i < j /\ First(j) /\ rows[j].id = c
              /\ counted[c] < i
              /\ rows[i].owner = t /\ First(i) /\ args[rows[i].id].via = "admin"}

\* A tenant has at most max_template_count templates, the ones its own admins made, and
\* one for each operator's creation that overlapped another's: count and INSERT are two
\* statements, and the tenant's endpoint does not count
\* (admin/templates.controller.ts:62-101, tenant/templates.controller.ts:31).
QuotaIsExplained ==
    \A t \in Tenants :
        Cardinality(Ids(t)) <=
            Quota[t] + Cardinality(MadeByTenant(t)) + Cardinality(Overtaken(t))

\* An owner has two templates for one event and channel, of which the router serves
\* only one, only if their first creations overlapped or an operator gave the second
\* another scope (admin/templates.controller.ts:52, tenant/:41).
ForksAreExplained ==
    \A i, j \in 1 .. Len(rows) :
        /\ i < j /\ First(i) /\ First(j)
        /\ rows[i].owner = rows[j].owner /\ rows[i].slot = rows[j].slot
        => \/ seen[rows[j].id] < i
           \/ args[rows[j].id].via = "admin" /\ rows[i].scope # rows[j].scope

KeyOf(i, c) == rows[i].id = NewRow(c).id /\ rows[i].version = NewRow(c).version

\* A creation is refused by the primary key only if an overlapping one took the
\* version, or the template has versions of two scopes: an operator who edits one scope
\* then computes a version the other scope has (admin/templates.controller.ts:52-86).
ConflictIsExplained ==
    \A c \in Calls : pc[c] = "conflict" =>
        \E i \in 1 .. Len(rows) :
            KeyOf(i, c) /\ (seen[c] < i \/ rows[i].scope # args[c].scope)

\* The first half alone.
ConflictsAreRaces ==
    \A c \in Calls : pc[c] = "conflict" =>
        \E i \in seen[c] + 1 .. Len(rows) : KeyOf(i, c)

\* An active override of a tenant is served instead of its custom templates
\* (docs/Development/Level2-Multitenancy-Implementation.md:400).
OverrideIsServed ==
    \A t \in Tenants, s \in Slots :
        (\E i \in 1 .. Len(rows) :
            /\ rows[i].owner = t /\ rows[i].slot = s
            /\ rows[i].scope = "TENANT_OVERRIDE" /\ rows[i].is_active)
        => \A i \in Served(t, s) : rows[i].scope = "TENANT_OVERRIDE"
===============================================================================
