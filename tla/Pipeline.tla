------------------------------- MODULE Pipeline -------------------------------
(***************************************************************************)
(* The platform from the webhook to the providers: the router, in full,    *)
(* between what the two components around it promise.  The ingress is      *)
(* EventOnce, which IngressIdempotency implements; the gateway with the    *)
(* dead letter queue is DeliveryOutcome, which DeadLetterQueue implements. *)
(* Both producers are kafkaClient.emit, which nobody awaits: what was      *)
(* handed over reaches its topic later, or never, or, since neither is     *)
(* idempotent, more than once.                                             *)
(*                                                                         *)
(* This is the abstract specification of Platform, which puts the detailed *)
(* ingress and delivery in the place of their promises.                    *)
(***************************************************************************)
EXTENDS NotificationRouter

CONSTANTS
    Requests,         \* trigger requests, each known by the first message of its event
    RequestOf,        \* RequestOf[e]: the request whose event message e carries
    Keys,             \* idempotency keys
    KeyOf,            \* KeyOf[r]: the key of request r
    Dispatches,       \* messages put on notification.dispatch (bounds a run)
    None,
    ProducerLoss,     \* BOOLEAN: a send may fail for good, or die with its replica
    ProducerResends,  \* BOOLEAN: a send whose answer was lost is made again
    Lossy             \* BOOLEAN: the gateway may lose messages (see DeliveryOutcome)

\* What Platform, which implements this module, gives them for values: the copies of
\* an event are all the same to the router.
RequestsAssumption ==
    /\ Requests \subseteq Events
    /\ RequestOf \in [Events -> Requests]
    /\ \A r \in Requests : RequestOf[r] = r
    /\ \A e \in Events :
          /\ TenantOf[e] = TenantOf[RequestOf[e]]
          /\ \A data \in {Guests, BadType, BadUser} : e \in data <=> RequestOf[e] \in data
    /\ KeyOf \in [Requests -> Keys]
    /\ None \notin Notification

VARIABLES
    claims,     \* claims[k]: the requests that own the event of key k
    triggered,  \* requests whose event was handed to the producer
    forgotten,  \* keys of which the ingress has lost its memory
    dropped,    \* events and notifications that a producer never sent
    carries,    \* carries[d]: the notification that message d is of, or None
    outcome     \* outcome[d]: what the gateway made of message d

ingressVars == <<claims, triggered, forgotten>>
pipeVars == <<ingressVars, dropped, carries, outcome>>
allVars == <<vars, pipeVars>>

\* What the clients are answered plays no part here.
Ingress == INSTANCE EventOnce WITH sent <- triggered, answered <- {}
Gateway == INSTANCE DeliveryOutcome

Final == {"delivered", "buried", "lost"}

PipelineTypeOK ==
    /\ TypeOK
    /\ claims \in [Keys -> SUBSET Requests]
    /\ triggered \subseteq Requests
    /\ forgotten \subseteq Keys
    /\ dropped \subseteq triggered \cup sent
    /\ carries \in [Dispatches -> Notification \cup {None}]
    /\ outcome \in [Dispatches -> Final \cup {"unused", "pending"}]
    /\ \A d \in Dispatches : outcome[d] # "unused" => carries[d] \in sent

PipelineInit ==
    /\ Init
    /\ Ingress!Init
    /\ Gateway!Init
    /\ carries = [d \in Dispatches |-> None]
    /\ dropped = {}

-----------------------------------------------------------------------------
(* The ingress *)

\* The request reserves its key; one whose key was forgotten finds it free again.
Reserve(r) ==
    /\ claims[KeyOf[r]] = {} \/ KeyOf[r] \in forgotten
    /\ claims' = [claims EXCEPT ![KeyOf[r]] = @ \cup {r}]

Claim(r) ==
    /\ Reserve(r)
    /\ UNCHANGED <<triggered, forgotten, vars, dropped, carries, outcome>>

\* kafkaClient.emit('tenant.event.received').
Trigger(r) ==
    /\ Ingress!Dispatch(r)
    /\ UNCHANGED <<vars, dropped, carries, outcome>>

\* Redis loses the entry of the key, or the entry expires.
Forget(k) ==
    /\ forgotten' = forgotten \cup {k}
    /\ UNCHANGED <<claims, triggered, vars, dropped, carries, outcome>>

-----------------------------------------------------------------------------
(* Kafka *)

\* The event reaches tenant.event.received, its copies after it.
Arrival(e) ==
    /\ RequestOf[e] \in triggered \ dropped
    /\ e \in Requests \/ (ProducerResends /\ Arrived(RequestOf[e]))
    /\ Arrive(e)
    /\ UNCHANGED pipeVars

\* A message of a notification reaches notification.dispatch.
Reached(n) == \E d \in Dispatches : carries[d] = n
Reach(n) ==
    /\ n \in sent \ dropped
    /\ ProducerResends \/ ~Reached(n)
    /\ \E d \in Dispatches : Gateway!Accept(d) /\ carries' = [carries EXCEPT ![d] = n]
    /\ UNCHANGED <<vars, ingressVars, dropped>>

\* Nobody notices: the client was answered, the offset will be committed.
Drop ==
    /\ ProducerLoss
    /\ \E x \in {r \in triggered : ~Arrived(r)} \cup {n \in sent : ~Reached(n)} :
          dropped' = dropped \cup {x}
    /\ UNCHANGED <<vars, ingressVars, carries, outcome>>

-----------------------------------------------------------------------------
(* The gateway and the dead letter consumer *)

Settle ==
    /\ \/ \E d \in Dispatches : Gateway!Deliver(d) \/ Gateway!Bury(d)
       \/ Gateway!Lose /\ outcome' # outcome
    /\ UNCHANGED <<vars, ingressVars, dropped, carries>>

-----------------------------------------------------------------------------
Route == Handler /\ UNCHANGED pipeVars

PipelineNext ==
    \/ \E r \in Requests : Claim(r) \/ Trigger(r)
    \/ \E e \in Events : Arrival(e)
    \/ \E k \in Keys : Forget(k)
    \/ Route
    \/ (Editors \/ QueryFails \/ Crash) /\ UNCHANGED pipeVars
    \/ \E n \in Notification : Reach(n)
    \/ Drop
    \/ Settle

PipelineSpec == PipelineInit /\ [][PipelineNext]_allVars

-----------------------------------------------------------------------------
(* Properties *)

\* A producer stored it twice: the event behind m and n, or the message of m.
StoredTwice(m, n) ==
    /\ ProducerResends
    /\ m # n => m.event # n.event /\ RequestOf[m.event] = RequestOf[n.event]

\* Two deliveries for one idempotency key on one channel have one of three causes:
\* the ingress had forgotten the key, the router started the event again after a
\* failure, or a producer stored a message twice.  Neither the gateway's retries, nor
\* duplicates of a request, nor changes of templates ever notify a user twice
\* (events.controller.ts:148-193, notification.controller.ts:99-288).
DuplicatesAreExplained ==
    \A c, d \in Dispatches :
        LET m == carries[c]
            n == carries[d]
        IN  /\ c # d
            /\ outcome[c] = "delivered" /\ outcome[d] = "delivered"
            /\ KeyOf[RequestOf[m.event]] = KeyOf[RequestOf[n.event]]
            /\ m.template.channel = n.template.channel
            => \/ KeyOf[RequestOf[m.event]] \in forgotten
               \/ m # n /\ m.event = n.event /\ runs[m.event] > 1
               \/ StoredTwice(m, n)

\* A row that says PENDING although no message of it is, was or will be on a topic
\* has one of two causes: its run was cut short and another one took its place, or
\* the producer dropped the message after the row was committed
\* (notification.controller.ts:135-172).
OrphansAreExplained ==
    \A n \in rows :
        /\ n \notin sent \ dropped
        /\ n.run < MaxRuns
        /\ Handled(n.event)
        => n \in dropped \/ n.run < runs[n.event]
===============================================================================
