-------------------------- MODULE NotificationRouter --------------------------
(***************************************************************************)
(* The worker's router: NotificationController.handleTenantEvent takes the *)
(* events of tenant.event.received one after the other, reads the tenant's *)
(* templates, and for each channel renders, records and dispatches one     *)
(* notification, while template editors publish and withdraw versions.     *)
(*                                                                         *)
(* The topic has one partition and the worker one consumer group, so one   *)
(* event is handled at a time and an offset is committed only after its    *)
(* handler has returned: a handler that throws or dies starts again.  That *)
(* order is kafkajs's and NestJS's, outside this repository.               *)
(*                                                                         *)
(* A definition named Bug... is no part of the specification: it is what   *)
(* the definition after it would be with a plausible mistake in the code.  *)
(***************************************************************************)
EXTENDS Naturals, Sequences, FiniteSets

CONSTANTS
    Tenants,
    Events,      \* messages the worker's producer may store on tenant.event.received
    TenantOf,    \* TenantOf[e]: the tenant that triggered event e
    Guests,      \* events whose payload names no user
    BadType,     \* events whose eventType is no string
    BadUser,     \* events whose userId is no UUID
    Channels,    \* channels in use, among channel_enum
    MaxVersion,  \* MaxVersion[c]: versions a tenant may create for channel c (bounds a run)
    Broken,      \* <<tenant, template>>: the tenant's version cannot be rendered
    MaxRuns,     \* number that stands for this and every later run of the
                 \* handler for an event (bounds a run)
    Faults       \* transient failures, a subset of FaultKinds

\* "crash": the worker dies.  "postgres": a transaction fails, or commits and
\* is reported as failed.
FaultKinds == {"crash", "postgres"}
Template == UNION {[channel : {c}, version : 1 .. MaxVersion[c]] : c \in Channels}

ASSUME TenantsAssumption == TenantOf \in [Events -> Tenants]
ASSUME GuestsAssumption == Guests \subseteq Events
ASSUME ClientDataAssumption == BadType \subseteq Events /\ BadUser \subseteq Events
ASSUME ChannelsAssumption == Channels \subseteq {"EMAIL", "SMS", "PUSH"}
ASSUME BoundsAssumption == MaxVersion \in [Channels -> Nat] /\ MaxRuns \in Nat \ {0}
ASSUME BrokenAssumption == Broken \subseteq Tenants \X Template
ASSUME FaultsAssumption == Faults \subseteq FaultKinds

VARIABLES
    templates,  \* templates[t][tpl]: whether tenant t has this version, and active
    topic,      \* tenant.event.received, the oldest event first
    offset,     \* committed offset of notification-worker-group
    runs,       \* runs[e]: how often the handler was started for event e
    pc,         \* what the handler of topic[offset + 1] does next
    plan,       \* plan[e]: resolvedTemplates of e's latest run
    todo,       \* the templates of plan that the loop has not come to
    rows,       \* notifications in notification_logs or in_app_notifications
    sent        \* notifications handed to the producer of notification.dispatch

vars == <<templates, topic, offset, runs, pc, plan, todo, rows, sent>>

\* A notification is known by where its randomUUID() was drawn.
Notification == [event : Events, run : 1 .. MaxRuns, template : Template]

TypeOK ==
    /\ templates \in [Tenants -> [Template -> {"none", "active", "inactive"}]]
    /\ topic \in Seq(Events)
    /\ offset \in 0 .. Len(topic)
    /\ runs \in [Events -> 0 .. MaxRuns]
    /\ pc \in {"idle", "resolve", "loop", "emit", "returned"}
    /\ plan \in [Events -> SUBSET Template]
    /\ todo \subseteq Template
    /\ rows \subseteq Notification
    /\ sent \subseteq Notification
    /\ pc # "idle" => offset < Len(topic) /\ runs[topic[offset + 1]] > 0

Init ==
    /\ templates = [t \in Tenants |-> [tpl \in Template |-> "none"]]
    /\ topic = <<>>
    /\ offset = 0
    /\ runs = [e \in Events |-> 0]
    /\ pc = "idle"
    /\ plan = [e \in Events |-> {}]
    /\ todo = {}
    /\ rows = {}
    /\ sent = {}

-----------------------------------------------------------------------------
(* The editors of templates *)

SetTemplate(t, tpl, s) ==
    /\ templates' = [templates EXCEPT ![t][tpl] = s]
    /\ UNCHANGED <<topic, offset, runs, pc, plan, todo, rows, sent>>

\* createTemplate numbers the new version after the latest.
PublishTemplate(t, tpl) ==
    /\ templates[t][tpl] = "none"
    /\ \A old \in Template :
          old.channel = tpl.channel /\ old.version < tpl.version => templates[t][old] # "none"
    /\ SetTemplate(t, tpl, "active")

DeactivateTemplate(t, tpl) ==
    /\ templates[t][tpl] # "none"
    /\ SetTemplate(t, tpl, "inactive")

ReactivateTemplate(t, tpl) ==
    /\ templates[t][tpl] # "none"
    /\ SetTemplate(t, tpl, "active")

-----------------------------------------------------------------------------
(* handleTenantEvent *)

Current == topic[offset + 1]

\* The ingress has emitted event e: see IngressIdempotency.  A copy that its
\* producer stored a second time is an event of its own: see Pipeline.
Arrive(e) ==
    /\ \A i \in 1 .. Len(topic) : topic[i] # e
    /\ topic' = Append(topic, e)
    /\ UNCHANGED <<templates, offset, runs, pc, plan, todo, rows, sent>>

Receive ==
    /\ pc = "idle"
    /\ offset < Len(topic)
    /\ pc' = "resolve"
    /\ runs' = [runs EXCEPT ![Current] = IF @ < MaxRuns THEN @ + 1 ELSE @]
    /\ UNCHANGED <<templates, topic, offset, plan, todo, rows, sent>>

\* findMany where is_active, then the first of each channel by version.
Active(t) == {tpl \in Template : templates[t][tpl] = "active"}
Resolved(t) ==
    {tpl \in Active(t) :
        \A other \in Active(t) : other.channel = tpl.channel => other.version <= tpl.version}

\* No templates at all: an error is logged and the event is done with.
ResolveTemplates ==
    /\ pc = "resolve"
    /\ Current \notin BadType
    /\ plan' = [plan EXCEPT ![Current] = Resolved(TenantOf[Current])]
    /\ todo' = Resolved(TenantOf[Current])
    /\ pc' = "loop"
    /\ UNCHANGED <<templates, topic, offset, runs, rows, sent>>

\* Rendering comes first in every branch of the loop, and may throw.
Renders(tpl) == <<TenantOf[Current], tpl>> \notin Broken

NoUser(tpl) == tpl.channel = "PUSH" /\ Current \in Guests

BugGuestPushThrows(tpl) ==
    /\ pc = "loop"
    /\ tpl \in todo
    /\ NoUser(tpl)
    /\ pc' = "idle"
    /\ todo' = {}
    /\ UNCHANGED <<templates, topic, offset, runs, plan, rows, sent>>
SkipPush(tpl) ==
    /\ pc = "loop"
    /\ tpl \in todo
    /\ NoUser(tpl)
    /\ Renders(tpl)
    /\ todo' = todo \ {tpl}
    /\ UNCHANGED <<templates, topic, offset, runs, pc, plan, rows, sent>>

Drawn(tpl) == [event |-> Current, run |-> runs[Current], template |-> tpl]

\* The row of the next template: notification_logs for EMAIL and SMS,
\* in_app_notifications for PUSH.  Its user_id is a UUID.
Record(tpl) ==
    /\ pc = "loop"
    /\ tpl \in todo
    /\ ~NoUser(tpl)
    /\ Renders(tpl)
    /\ Current \notin BadUser
    /\ rows' = rows \cup {Drawn(tpl)}
    /\ pc' = "emit"
    /\ UNCHANGED <<templates, topic, offset, runs, plan, todo, sent>>

BugEmitsTheRest(tpl) ==
    /\ pc = "emit"
    /\ tpl \in todo
    /\ Drawn(tpl) \in rows
    /\ sent' = sent \cup {Drawn(other) : other \in todo}
    /\ todo' = todo \ {tpl}
    /\ pc' = "loop"
    /\ UNCHANGED <<templates, topic, offset, runs, plan, rows>>

\* kafkaClient.emit('notification.dispatch') for the row just written.
Emit(tpl) ==
    /\ pc = "emit"
    /\ tpl \in todo
    /\ Drawn(tpl) \in rows
    /\ sent' = sent \cup {Drawn(tpl)}
    /\ todo' = todo \ {tpl}
    /\ pc' = "loop"
    /\ UNCHANGED <<templates, topic, offset, runs, plan, rows>>

BugCommitsInHandler ==
    /\ pc = "loop"
    /\ todo = {}
    /\ pc' = "returned"
    /\ offset' = offset + 1
    /\ UNCHANGED <<templates, topic, runs, plan, todo, rows, sent>>
BugReturnsAfterFirst ==
    /\ pc = "loop"
    /\ todo # plan[Current] \/ todo = {}
    /\ pc' = "returned"
    /\ UNCHANGED <<templates, topic, offset, runs, plan, todo, rows, sent>>
Return ==
    /\ pc = "loop"
    /\ todo = {}
    /\ pc' = "returned"
    /\ UNCHANGED <<templates, topic, offset, runs, plan, todo, rows, sent>>

CommitOffset ==
    /\ pc = "returned"
    /\ offset' = offset + 1
    /\ pc' = "idle"
    /\ UNCHANGED <<templates, topic, runs, plan, todo, rows, sent>>

-----------------------------------------------------------------------------
(* Failures: the event is handed over again *)

StartOver ==
    /\ pc' = "idle"
    /\ todo' = {}
    /\ UNCHANGED <<templates, topic, offset, runs, plan, sent>>

\* Transient failures end before run MaxRuns.
Transient(kind) == kind \in Faults /\ pc # "idle" /\ runs[Current] < MaxRuns

RenderFails ==
    /\ pc = "loop"
    /\ \E tpl \in todo : ~Renders(tpl)
    /\ UNCHANGED rows
    /\ StartOver

\* What Postgres refuses at every attempt: findMany by an eventType that is no
\* string, a row whose user_id is no UUID.  The ingress checks neither.
ClientDataFails ==
    /\ \/ pc = "resolve" /\ Current \in BadType
       \/ /\ pc = "loop"
          /\ Current \in BadUser
          /\ \E tpl \in todo : Renders(tpl) /\ ~NoUser(tpl)
    /\ UNCHANGED rows
    /\ StartOver

QueryFails ==
    /\ Transient("postgres")
    /\ \/ pc = "resolve" /\ UNCHANGED rows
       \/ /\ pc = "loop"
          /\ Current \notin BadUser
          /\ \E tpl \in todo :
                /\ Renders(tpl) /\ ~NoUser(tpl)
                /\ rows' \in {rows, rows \cup {Drawn(tpl)}}
    /\ StartOver

Crash ==
    /\ Transient("crash")
    /\ UNCHANGED rows
    /\ StartOver

-----------------------------------------------------------------------------
Handler ==
    \/ Receive
    \/ ResolveTemplates
    \/ \E tpl \in todo : SkipPush(tpl) \/ Record(tpl) \/ Emit(tpl)
    \/ RenderFails
    \/ ClientDataFails
    \/ Return
    \/ CommitOffset

Editors ==
    \E t \in Tenants, tpl \in Template :
        \/ PublishTemplate(t, tpl)
        \/ DeactivateTemplate(t, tpl)
        \/ ReactivateTemplate(t, tpl)

Next ==
    \/ Handler
    \/ Editors
    \/ QueryFails
    \/ Crash
    \/ \E e \in Events : Arrive(e)

Spec == Init /\ [][Next]_vars

\* The consumer polls and Node runs its callbacks; nobody has to edit templates
\* or to trigger events.
FairSpec == Spec /\ WF_vars(Handler)

-----------------------------------------------------------------------------
(* Properties *)

\* One run of the handler makes at most one notification per channel, and
\* dispatches none that has no row for the gateway to update: whatever fails
\* and however templates change meanwhile (notification.controller.ts:84-288).
OncePerRun ==
    /\ \A m, n \in rows :
          /\ m.event = n.event
          /\ m.run = n.run /\ m.run < MaxRuns
          /\ m.template.channel = n.template.channel
          => m = n
    /\ sent \subseteq rows

Dispatched(e, tpl) == \E n \in sent : n.event = e /\ n.template = tpl

\* The offset of an event is committed only when every template its latest run
\* resolved was dispatched, guests' PUSH excepted: a failure between two channels
\* never makes the rest disappear (notification.controller.ts:99-288).
CommittedIsRouted ==
    \A i \in 1 .. offset :
        \A tpl \in plan[topic[i]] :
            Dispatched(topic[i], tpl) \/ (tpl.channel = "PUSH" /\ topic[i] \in Guests)

Arrived(e) == \E i \in 1 .. Len(topic) : topic[i] = e
Handled(e) == \E i \in 1 .. offset : topic[i] = e

\* What makes the handler of event e throw at every attempt, as the templates stand.
Unhandleable(e) ==
    \/ e \in BadType
    \/ \E tpl \in Active(TenantOf[e]) :
          \/ <<TenantOf[e], tpl>> \in Broken
          \/ e \in BadUser /\ ~(tpl.channel = "PUSH" /\ e \in Guests)

\* Neither e nor an event in front of it is of this kind.
Unobstructed(e) ==
    \A i \in 1 .. Len(topic) : topic[i] = e => \A j \in 1 .. i : ~Unhandleable(topic[j])

\* An event that reached the topic is dealt with once transient failures end, unless
\* it or one before it cannot be handled for good: a template beyond rendering, or
\* client data that Postgres refuses, blocks the partition, and no order of arrivals,
\* template changes, guests without PUSH and restarts does
\* (notification.controller.ts:57-290).
EveryEventIsHandled ==
    \A e \in Events : <>[]Unobstructed(e) => (Arrived(e) ~> Handled(e))

\* The same for the events of a tenant without broken templates, whatever the other
\* tenants publish (docs/Development/Multitenancy.txt:9).
TenantsAreIsolated ==
    \A e \in {e \in Events : Broken \cap ({TenantOf[e]} \X Template) = {}} :
        Arrived(e) ~> Handled(e)
===============================================================================
