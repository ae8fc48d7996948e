------------------------------- MODULE Platform -------------------------------
(***************************************************************************)
(* The platform in full detail: every step of the ingress                  *)
(* (IngressIdempotency), of the router (NotificationRouter) and of the     *)
(* gateway with the dead letter consumer and the operators                 *)
(* (DeadLetterQueue), joined by the two producers in the worker that       *)
(* nobody awaits.  Replicas of the worker and the gateway share nothing    *)
(* but the topics and the tables: each step is a step of one of the three, *)
(* or moves one message from one to the next.                              *)
(*                                                                         *)
(* The ingress and the delivery are instances of the modules with their    *)
(* proofs, so that what is proved of them can be cited here.               *)
(***************************************************************************)
EXTENDS NotificationRouter

CONSTANTS
    \* A request is known by the first message of its event; RequestOf[e] is the
    \* request whose event message e carries.
    Requests, RequestOf,
    \* Of IngressIdempotency.
    Keys, Hashes, NoHash, KeyOf, HashOf, RedisFaults, RedisResends, RedisLoss,
    TTLExpiry, PgFaults, BrokerLoss, EmitThrows, Crashes,
    \* <<event, channel>>: client data in the payload is not of the gateway's types.
    IllTyped,
    \* Of DeadLetterQueue.
    Dispatches, MaxRetries, GatewayFaults, None, Operators, MaxCopies

VARIABLES
    redis, audit, call, reserved, reply, broker, disturbed, resent,
    claimed,  \* history: requests that got as far as the emit
    unsent,   \* notifications whose message the router's producer gave up
    of, stage, deadLetters, status, gateway, delivered, desk, failed, op, origin

ingressVars == <<redis, audit, call, reserved, reply, broker, disturbed, resent, claimed>>
deliveryVars == <<of, stage, deadLetters, status, gateway, delivered, desk, failed, op, origin>>
platformVars == <<vars, ingressVars, unsent, deliveryVars>>

RealTime == {n \in Notification : n.template.channel = "PUSH"}
Malformed == {n \in Notification : <<n.event, n.template.channel>> \in IllTyped}

Ingress == INSTANCE IngressIdempotencyProofs WITH pc <- call

Delivery == INSTANCE DeliveryProofs
                WITH Notifications <- Notification, Faults <- GatewayFaults, rows <- failed

\* The copies of an event carry the same data.
ASSUME CopiesAssumption ==
    /\ Requests \subseteq Events
    /\ RequestOf \in [Events -> Requests]
    /\ \A r \in Requests : RequestOf[r] = r
    /\ IllTyped \subseteq Events \X Channels
    /\ \A e \in Events :
          /\ TenantOf[e] = TenantOf[RequestOf[e]]
          /\ \A data \in {Guests, BadType, BadUser} : e \in data <=> RequestOf[e] \in data
          /\ \A c \in Channels : <<e, c>> \in IllTyped <=> <<RequestOf[e], c>> \in IllTyped
ASSUME IngressAssumption ==
    /\ KeyOf \in [Requests -> Keys]
    /\ HashOf \in [Requests -> Hashes] /\ NoHash \notin Hashes
    /\ {RedisFaults, RedisResends, RedisLoss, TTLExpiry,
        PgFaults, BrokerLoss, EmitThrows, Crashes} \subseteq BOOLEAN
ASSUME NamesAssumption == Events \cap Notification = {}
ASSUME DeliveryAssumption ==
    /\ MaxRetries \in Nat
    /\ GatewayFaults \subseteq Delivery!FaultKinds
    /\ None \notin Notification
    /\ MaxCopies \in Nat \ {0}
    /\ None \notin Dispatches \X (1 .. MaxCopies)

PlatformInit ==
    /\ Init
    /\ Ingress!Init
    /\ claimed = {}
    /\ unsent = {}
    /\ Delivery!DLQInit

-----------------------------------------------------------------------------
\* A step of the webhook's requests, of Redis, Postgres or Kafka around them.
Trigger ==
    /\ Ingress!Next
    /\ claimed' = claimed \cup {r \in Requests : call'[r] = "emit"}
    /\ UNCHANGED <<vars, unsent, deliveryVars>>

\* The producers of the worker and the gateway send again what was not answered.
ProducerResends == "resend" \in GatewayFaults

\* A stored event is on the router's topic, and after it any copy of it.
Arrival(e) ==
    /\ broker[RequestOf[e]] = "delivered"
    /\ e \in Requests \/ (ProducerResends /\ Arrived(RequestOf[e]))
    /\ Arrive(e)
    /\ UNCHANGED <<ingressVars, unsent, deliveryVars>>

Route ==
    /\ Handler \/ Editors \/ QueryFails \/ Crash
    /\ UNCHANGED <<ingressVars, unsent, deliveryVars>>

Reached(n) == \E d \in Dispatches : of[d] = n

\* The producer of the router stores the message of a notification; for its copies
\* see Deliver.
Reach(n) ==
    /\ n \in sent \ unsent
    /\ \E d \in Dispatches : Delivery!Dispatch(n, d)
    /\ UNCHANGED <<vars, ingressVars, unsent, desk, failed, op, origin>>

\* Or gives it up: the handler has returned, nobody is told.
Drop(n) ==
    /\ BrokerLoss
    /\ n \in sent
    /\ ~Reached(n)
    /\ unsent' = unsent \cup {n}
    /\ UNCHANGED <<vars, ingressVars, deliveryVars>>

\* The gateway, the dead letter consumer and the operators.
Deliver ==
    /\ \/ Delivery!Gateway /\ UNCHANGED <<desk, failed, op, origin>>
       \/ \E d, e \in Dispatches, c \in Delivery!Counts : Delivery!ResendDispatch(d, e, c)
       \/ \E d \in Dispatches : Delivery!ResendDeadLetter(d)
       \/ \E d \in Dispatches : Delivery!HandleDeadLetter(d)
       \/ Delivery!WorkerCrash
       \/ \E o \in Operators : Delivery!Operator(o)
       \/ Operators # {} /\ \E r \in Delivery!Rows : Delivery!PurgeNotification(r)
    /\ UNCHANGED <<vars, ingressVars, unsent>>

PlatformNext ==
    \/ Trigger
    \/ \E e \in Events : Arrival(e)
    \/ Route
    \/ \E n \in Notification : Reach(n) \/ Drop(n)
    \/ Deliver

PlatformSpec == PlatformInit /\ [][PlatformNext]_platformVars

-----------------------------------------------------------------------------
(* What the platform looks like from the components' promises *)

Claims == [k \in Keys |-> {r \in claimed : KeyOf[r] = k}]
Triggered == {r \in Requests : Ingress!Emitted(r)}
Dropped == {r \in Requests : broker[r] = "lost"} \cup unsent

\* The messages that the router's producer stored; what operators send again are
\* others.
Routed(d) == origin[d] = None
Carries == [d \in Dispatches |-> IF Routed(d) THEN of[d] ELSE None]
Outcomes == [d \in Dispatches |-> IF Routed(d) THEN Delivery!Outcome(d) ELSE "unused"]

Pipe == INSTANCE NotificationRouterProofs WITH
    claims <- Claims, triggered <- Triggered, forgotten <- disturbed,
    dropped <- Dropped, carries <- Carries, outcome <- Outcomes,
    ProducerLoss <- BrokerLoss \/ Crashes, Lossy <- Delivery!Lossy

-----------------------------------------------------------------------------
(* Properties *)

\* The detailed platform behaves as Pipeline says, where ingress and delivery are
\* only what they promise: no interleaving of their steps with the router's and the
\* producers' shows anything that the promises leave out
\* (events.controller.ts:148-435, notification.controller.ts:57-446, main.go:118-342).
ImplementsPipeline == Pipe!PipelineSpec

\* What Pipeline says of rows without a message is so of the platform: such a row was
\* left by a run cut short, or its message was given up by the producer
\* (notification.controller.ts:135-172).
OrphansAreExplained == Pipe!OrphansAreExplained

\* The messages of notification n that the router's producer stored.
Original(n) == {d \in Dispatches : of[d] = n /\ Routed(d)}

\* A producer stored a message twice: the event behind m and n, or the message of m.
StoredTwice(m, n) ==
    /\ ProducerResends
    /\ IF m = n THEN \E d, e \in Original(m) : d # e
                ELSE m.event # n.event /\ RequestOf[m.event] = RequestOf[n.event]

\* Two deliveries to a provider, by whichever attempts, for one idempotency key on
\* one channel have one of four causes: the ingress had forgotten the key; the router
\* started the event again; a producer, none of which is idempotent, stored an event or
\* a dispatch twice; or both are of what operators sent again.  The gateway's retries,
\* crashes and restarts in between are none, and what operators send again was not
\* delivered before they did
\* (events.controller.ts:148-193, notification.controller.ts:57-290, main.go:118-342,
\* admin/dlq.controller.ts:116-231).
DeliveriesAreExplained ==
    "ambiguous" \notin GatewayFaults =>
        \A a, b \in delivered :
            LET m == of[a[1]]
                n == of[b[1]]
            IN  /\ a # b
                /\ KeyOf[RequestOf[m.event]] = KeyOf[RequestOf[n.event]]
                /\ m.template.channel = n.template.channel
                => \/ KeyOf[RequestOf[m.event]] \in disturbed
                   \/ m # n /\ m.event = n.event /\ runs[m.event] > 1
                   \/ StoredTwice(m, n)
                   \/ m = n /\ ~Routed(a[1]) /\ ~Routed(b[1])

\* Nothing is under way: requests are answered or dead, messages are stored or given
\* up, and every consumer has come to the end of its topic.
Quiet ==
    /\ \A r \in Requests :
          /\ call[r] \in {"done", "crashed"}
          /\ broker[r] # "inflight"
          /\ broker[r] = "delivered" => Arrived(r)
    /\ offset = Len(topic)
    /\ \A n \in sent \ unsent : Reached(n)
    /\ \A d \in Dispatches :
          /\ ~Delivery!InProgress(d)
          /\ d \in deadLetters => desk[d] # "unread"

\* Message d was delivered, or is in failed_notifications; unless it was unreadable,
\* or lost by a gateway that ended or could not write, or its dead letter is of a
\* channel that failed_notifications cannot hold or met a failing transaction.
Settled(d) ==
    CASE Delivery!Outcome(d) = "delivered" -> TRUE
      [] Delivery!Outcome(d) = "lost" -> of[d] \in Malformed \/ Delivery!Unreliable
      [] Delivery!Outcome(d) = "buried" ->
            \/ of[d] \in RealTime \/ "postgres" \in GatewayFaults
            \/ \E k \in 1 .. MaxCopies : failed[<<d, k>>] # "none"
      [] OTHER -> FALSE

\* When the platform has come to rest, every client that was told success has an
\* event of its key each of whose messages is settled, on every channel its run
\* resolved, or that was lost where a component says it may be: a request silenced in
\* the ingress, or a producer that gave up
\* (events.controller.ts:297-435 to notification.controller.ts:446).
AcceptedIsAccountedFor ==
    Quiet => \A r \in Requests : Ingress!Success(r) =>
        \E s \in Requests :
            /\ KeyOf[s] = KeyOf[r]
            /\ \/ Ingress!Gone(s)
               \/ broker[s] = "lost"
               \/ /\ Handled(s)
                  /\ \A tpl \in plan[s] :
                        \/ tpl.channel = "PUSH" /\ s \in Guests
                        \/ \E n \in sent :
                              /\ n.event = s /\ n.template = tpl
                              /\ n \in unsent \/ (Reached(n) /\ \A d \in Original(n) : Settled(d))
===============================================================================
