---------------------------- MODULE PlatformProofs ----------------------------
(***************************************************************************)
(* What was proved of the components carries over to the platform they     *)
(* make together, for every value of the constants:                        *)
(*                                                                         *)
(*  1. each component keeps its specification inside the platform, so its  *)
(*     theorems hold there;                                                *)
(*  2. GlueInv says how the components' states belong together;            *)
(*  3. with it each step of the platform is a step of Pipeline, whose      *)
(*     theorems follow;                                                    *)
(*  4. the two properties from end to end are consequences.                *)
(***************************************************************************)
EXTENDS Platform, TLAPS

-----------------------------------------------------------------------------
(* The constants of the instances *)

\* The assumptions of the ingress hold of what the platform gives it.
LEMMA IngressConstants ==
    Ingress!KeysAssumption /\ Ingress!HashesAssumption /\ Ingress!EnvironmentAssumption
BY IngressAssumption
   DEF Ingress!KeysAssumption, Ingress!HashesAssumption, Ingress!EnvironmentAssumption

\* Those of the gateway and the dead letter queue.
LEMMA DeliveryConstants ==
    /\ Delivery!RealTimeAssumption /\ Delivery!MalformedAssumption
    /\ Delivery!MaxRetriesAssumption /\ Delivery!FaultsAssumption /\ Delivery!NoneAssumption
    /\ Delivery!MaxCopiesAssumption /\ Delivery!NoRowAssumption
BY DeliveryAssumption
   DEF RealTime, Malformed, Delivery!RealTimeAssumption, Delivery!MalformedAssumption,
       Delivery!MaxRetriesAssumption, Delivery!FaultsAssumption, Delivery!NoneAssumption,
       Delivery!MaxCopiesAssumption, Delivery!NoRowAssumption

\* Those of the pipeline.
LEMMA PipeConstants ==
    /\ Pipe!TenantsAssumption /\ Pipe!GuestsAssumption /\ Pipe!ClientDataAssumption
    /\ Pipe!ChannelsAssumption /\ Pipe!BoundsAssumption /\ Pipe!BrokenAssumption
    /\ Pipe!FaultsAssumption /\ Pipe!RequestsAssumption
<1>1. Pipe!RequestsAssumption
  BY CopiesAssumption, IngressAssumption, DeliveryAssumption
     DEF Pipe!RequestsAssumption, Pipe!Notification, Notification, Pipe!Template, Template
<1>2. QED
  BY <1>1, TenantsAssumption, GuestsAssumption, ClientDataAssumption, ChannelsAssumption,
     BoundsAssumption, BrokenAssumption, FaultsAssumption
     DEF Pipe!TenantsAssumption, Pipe!GuestsAssumption, Pipe!ClientDataAssumption,
         Pipe!ChannelsAssumption, Pipe!BoundsAssumption, Pipe!BrokenAssumption,
         Pipe!FaultsAssumption, Pipe!Template, Template, Pipe!FaultKinds, FaultKinds

-----------------------------------------------------------------------------
(* The components inside the platform *)

\* Each step of the platform is a step of each component or leaves it alone.
LEMMA StepOfComponents ==
    ASSUME [PlatformNext]_platformVars
    PROVE  /\ [Ingress!Next]_(Ingress!vars)
           /\ [Next]_vars
           /\ [Delivery!DLQNext]_(Delivery!allVars)
<1> USE DEF ingressVars, deliveryVars, vars, Ingress!vars, Delivery!allVars, Delivery!vars,
            Delivery!deskVars
<1>1. CASE Trigger
  BY <1>1 DEF Trigger
<1>2. ASSUME NEW e \in Events, Arrival(e) PROVE Next /\ UNCHANGED <<ingressVars, deliveryVars>>
  BY <1>2 DEF Arrival, Next
<1>3. CASE Route
  BY <1>3 DEF Route, Next
<1>4. ASSUME NEW n \in Notification, Reach(n)
      PROVE  Delivery!DLQNext /\ UNCHANGED <<vars, ingressVars>>
  BY <1>4 DEF Reach, Delivery!DLQNext, Delivery!Router
<1>5. ASSUME NEW n \in Notification, Drop(n)
      PROVE  UNCHANGED <<vars, ingressVars, deliveryVars>>
  BY <1>5 DEF Drop
<1>6. CASE Deliver
  BY <1>6 DEF Deliver, Delivery!DLQNext
<1>7. CASE UNCHANGED platformVars
  BY <1>7 DEF platformVars
<1>8. QED
  BY <1>1, <1>2, <1>3, <1>4, <1>5, <1>6, <1>7 DEF PlatformNext

\* Composed with the others, ingress, router and delivery remain what their modules
\* say: what is proved there is true here.
THEOREM ComponentsKeepTheirSpecs ==
    PlatformSpec => Ingress!Spec /\ Spec /\ Delivery!DLQSpec
<1>1. PlatformInit => Ingress!Init /\ Init /\ Delivery!DLQInit
  BY DEF PlatformInit
<1>2. [PlatformNext]_platformVars =>
          [Ingress!Next]_(Ingress!vars) /\ [Next]_vars /\ [Delivery!DLQNext]_(Delivery!allVars)
  BY StepOfComponents
<1>3. QED
  BY <1>1, <1>2, PTL DEF PlatformSpec, Ingress!Spec, Spec, Delivery!DLQSpec

\* To the router of the pipeline, a step of the router is a step.
LEMMA SameRouter ==
    /\ Init => Pipe!Init
    /\ [Next]_vars => [Pipe!Next]_(Pipe!vars)
    /\ Handler \/ Editors \/ QueryFails \/ Crash =>
           Pipe!Handler \/ Pipe!Editors \/ Pipe!QueryFails \/ Pipe!Crash
    /\ \A e \in Events : Arrive(e) => Pipe!Arrive(e)
BY DEF Init, Pipe!Init, Next, Pipe!Next, vars, Pipe!vars, Handler, Pipe!Handler, Editors, Pipe!Editors,
       QueryFails, Pipe!QueryFails, Crash, Pipe!Crash, Arrive, Pipe!Arrive, Template, Pipe!Template,
       Receive, Pipe!Receive, ResolveTemplates, Pipe!ResolveTemplates, SkipPush, Pipe!SkipPush,
       Record, Pipe!Record, Emit, Pipe!Emit, RenderFails, Pipe!RenderFails,
       ClientDataFails, Pipe!ClientDataFails, Return, Pipe!Return,
       CommitOffset, Pipe!CommitOffset, PublishTemplate, Pipe!PublishTemplate,
       DeactivateTemplate, Pipe!DeactivateTemplate, ReactivateTemplate, Pipe!ReactivateTemplate,
       SetTemplate, Pipe!SetTemplate, Current, Pipe!Current, Active, Pipe!Active,
       Resolved, Pipe!Resolved, Renders, Pipe!Renders, NoUser, Pipe!NoUser, Drawn, Pipe!Drawn,
       StartOver, Pipe!StartOver, Transient, Pipe!Transient

IngressInv ==
    /\ Ingress!TypeOK /\ Ingress!DispatchInv /\ Ingress!ProgressInv /\ Ingress!OwnerInv
    /\ Ingress!SuccessIsBacked
RouterInv == Pipe!TypeOK /\ Pipe!CommittedIsRouted
PartsInv == IngressInv /\ RouterInv /\ Delivery!DLQInv

\* The invariants of the components hold in the platform.
LEMMA PartsHold == PlatformSpec => []PartsInv
<1>1. Ingress!Spec => []IngressInv
  <2>1. Ingress!Spec => []Ingress!TypeOK
    BY IngressConstants, Ingress!TypeCorrect
  <2>2. Ingress!Spec => []Ingress!DispatchInv
    BY IngressConstants, Ingress!DispatchInvHolds
  <2>3. Ingress!Spec => []Ingress!ProgressInv
    BY IngressConstants, Ingress!ProgressInvHolds
  <2>4. Ingress!Spec => []Ingress!OwnerInv
    BY IngressConstants, Ingress!OwnerInvHolds
  <2>5. Ingress!Spec => []Ingress!SuccessIsBacked
    BY IngressConstants, Ingress!SuccessBacked
  <2>6. QED
    BY <2>1, <2>2, <2>3, <2>4, <2>5, PTL DEF IngressInv
<1>2. Spec => []RouterInv
  <2>1. Pipe!Spec => []Pipe!TypeOK
    BY PipeConstants, Pipe!TypeCorrect
  <2>2. Pipe!Spec => []Pipe!CommittedIsRouted
    BY PipeConstants, Pipe!NothingHalfDone
  <2>3. Spec => Pipe!Spec
    BY SameRouter, PTL DEF Spec, Pipe!Spec
  <2>4. QED
    BY <2>1, <2>2, <2>3, PTL DEF RouterInv
<1>3. Delivery!DLQSpec => []Delivery!DLQInv
  BY DeliveryConstants, Delivery!DLQHolds
<1>4. QED
  BY <1>1, <1>2, <1>3, ComponentsKeepTheirSpecs, PTL DEF PartsInv

-----------------------------------------------------------------------------
(* How the components' states belong together *)

\* A request that emits, or holds a reservation, got as far as the emit; while Redis
\* has not failed its key it did so by a reservation.
ClaimsInv ==
    /\ claimed \subseteq Requests
    /\ \A r \in Requests :
          /\ call[r] = "emit" \/ Ingress!Emitted(r) => r \in claimed
          /\ r \in claimed /\ KeyOf[r] \notin disturbed => r \in reserved

\* What stands on a topic was stored by the producer before it.  A notification on
\* notification.dispatch has a message of the router's, one unless a producer resends,
\* and one is a dead letter by the time operators add others.
GlueInv ==
    /\ \A e \in Events : Arrived(e) => broker[RequestOf[e]] = "delivered"
    /\ unsent \subseteq sent
    /\ \A d \in Dispatches : of[d] = None => origin[d] = None
    /\ \A n \in Notification :
          /\ Reached(n) => n \in sent \ unsent /\ Original(n) # {}
          /\ ~ProducerResends => \A d, e \in Original(n) : d = e
    /\ \A d \in Dispatches : origin[d] # None => Original(of[d]) \cap deadLetters # {}

\* What the rest of the platform sees of a step of the ingress: request r comes to
\* the emit, by a reservation or by the fallback,
NoneComes == \A s \in Requests : call'[s] = "emit" => call[s] = "emit"
Comes(r) ==
    /\ \/ call[r] = "fallback" /\ UNCHANGED reserved
       \/ /\ call[r] = "reserve"
          /\ redis[KeyOf[r]] = Ingress!NoEntry
          /\ reserved' = reserved \cup {r}
    /\ call' = [call EXCEPT ![r] = "emit"]
    /\ UNCHANGED <<broker, disturbed>>

\* or it emits,
Emits(r) ==
    /\ call[r] = "emit"
    /\ NoneComes
    /\ broker' = [broker EXCEPT ![r] = "inflight"]
    /\ UNCHANGED <<disturbed, reserved>>

\* or Kafka settles its message,
Settles(r) ==
    /\ NoneComes
    /\ broker[r] = "inflight"
    /\ \/ broker' = [broker EXCEPT ![r] = "delivered"]
       \/ (BrokerLoss \/ Crashes) /\ broker' = [broker EXCEPT ![r] = "lost"]
    /\ UNCHANGED <<disturbed, reserved>>

\* or nothing, but that Redis may have failed a key.
Elsewhere ==
    /\ NoneComes
    /\ disturbed' = disturbed \/ \E k \in Keys : disturbed' = disturbed \cup {k}
    /\ UNCHANGED <<broker, reserved>>

\* There is nothing else to see.
LEMMA IngressMoves ==
    ASSUME Ingress!TypeOK, Ingress!Next
    PROVE  Elsewhere \/ \E r \in Requests : Comes(r) \/ Emits(r) \/ Settles(r)
<1> USE IngressAssumption
    DEF NoneComes, Ingress!TypeOK, Ingress!Goto, Ingress!Finish, Ingress!Disturb, Ingress!history
<1>1. ASSUME NEW r \in Requests, Ingress!GetCached(r) \/ Ingress!GetLatest(r) PROVE Elsewhere
  BY <1>1 DEF Elsewhere, Ingress!GetCached, Ingress!GetLatest, Ingress!ResolveCached
<1>2. ASSUME NEW r \in Requests, Ingress!ReserveFails(r) PROVE Elsewhere
  BY <1>2 DEF Elsewhere, Ingress!ReserveFails
<1>3. ASSUME NEW r \in Requests, Ingress!Reserve(r) PROVE Comes(r) \/ Elsewhere
  <2>1. CASE redis' # redis
    BY <1>3, <2>1 DEF Comes, Ingress!Reserve, Ingress!ReserveNX
  <2>2. CASE redis' = redis
    BY <1>3, <2>2 DEF Elsewhere, Ingress!Reserve
  <2>3. QED
    BY <2>1, <2>2
<1>4. ASSUME NEW r \in Requests, Ingress!CheckPostgres(r) PROVE Comes(r) \/ Elsewhere
  BY <1>4 DEF Comes, Elsewhere, Ingress!CheckPostgres
<1>5. ASSUME NEW r \in Requests, \/ Ingress!ResolveMismatch(r) \/ Ingress!RefreshCompleted(r)
                               \/ Ingress!EmitFails(r) \/ Ingress!ClearReservation(r)
                               \/ Ingress!Complete(r) \/ Ingress!Store(r)
      PROVE  Elsewhere
  BY <1>5 DEF Elsewhere, Ingress!ResolveMismatch, Ingress!RefreshCompleted, Ingress!EmitFails,
              Ingress!ClearReservation, Ingress!Complete, Ingress!Store, Ingress!MarkCompleted
<1>6. ASSUME NEW r \in Requests, Ingress!Emit(r) PROVE Emits(r)
  BY <1>6 DEF Emits, Ingress!Emit
<1>7. ASSUME NEW r \in Requests, Ingress!Settle(r) PROVE Settles(r)
  BY <1>7 DEF Settles, Ingress!Settle
<1>8. ASSUME NEW r \in Requests, Ingress!Crash(r) PROVE Settles(r) \/ Elsewhere
  BY <1>8 DEF Settles, Elsewhere, Ingress!Crash
<1>9. ASSUME NEW k \in Keys, Ingress!LoseEntry(k) \/ Ingress!ExpireEntry(k) \/ Ingress!ExpireRow(k)
      PROVE  Elsewhere
  BY <1>9 DEF Elsewhere, Ingress!LoseEntry, Ingress!ExpireEntry, Ingress!ExpireRow, Ingress!DropEntry
<1>10. QED
  BY <1>1, <1>2, <1>3, <1>4, <1>5, <1>6, <1>7, <1>8, <1>9 DEF Ingress!Next, Ingress!Handle

\* ClaimsInv holds: a reservation is made on the way to the emit, and the fallback is
\* taken only after Redis failed the key.
LEMMA ClaimsStep ==
    ASSUME IngressInv, ClaimsInv, [PlatformNext]_platformVars PROVE ClaimsInv'
<1>1. CASE UNCHANGED <<ingressVars>>
  BY <1>1 DEF ClaimsInv, ingressVars, Ingress!Emitted
<1>2. CASE Trigger
  <2>0. /\ claimed' = claimed \cup {r \in Requests : call'[r] = "emit"}
        /\ Ingress!TypeOK /\ Ingress!DispatchInv /\ Ingress!ProgressInv /\ Ingress!Next
    BY <1>2 DEF Trigger, IngressInv
  <2>1. ASSUME NEW r \in Requests, Comes(r) PROVE ClaimsInv'
    <3>1. KeyOf[r] \notin disturbed => call[r] # "fallback"
      BY <2>0 DEF Ingress!DispatchInv
    <3>2. \A s \in Requests : call'[s] = "emit" => s = r \/ call[s] = "emit"
      BY <2>0, <2>1 DEF Comes, Ingress!TypeOK
    <3>3. QED
      BY <2>0, <2>1, <3>1, <3>2 DEF ClaimsInv, Comes, Ingress!Emitted, Ingress!TypeOK
  <2>2. ASSUME NEW r \in Requests, Emits(r) \/ Settles(r) PROVE ClaimsInv'
    BY <2>0, <2>2 DEF ClaimsInv, Emits, Settles, NoneComes, Ingress!Emitted, Ingress!TypeOK
  <2>3. CASE Elsewhere
    BY <2>0, <2>3 DEF ClaimsInv, Elsewhere, NoneComes, Ingress!Emitted
  <2>4. QED
    BY <2>0, <2>1, <2>2, <2>3, IngressMoves
<1>3. QED
  BY <1>1, <1>2 DEF PlatformNext, Arrival, Route, Reach, Drop, Deliver, platformVars

\* Kafka forgets nothing it stored.
LEMMA DeliveredStays ==
    ASSUME IngressInv, Ingress!Next, NEW q \in Requests, broker[q] = "delivered"
    PROVE  broker'[q] = "delivered"
<1>1. \A r \in Requests : Emits(r) => broker[r] = "none"
  BY DEF IngressInv, Ingress!ProgressInv, Ingress!Emitted, Emits
<1>2. QED
  BY <1>1, IngressMoves DEF IngressInv, Ingress!TypeOK, Comes, Emits, Settles, Elsewhere

\* Only an arrival adds to the topic, and the producer's record only grows.
LEMMA RouteFrame ==
    Handler \/ Editors \/ QueryFails \/ Crash => UNCHANGED topic /\ sent \subseteq sent'
BY DEF Handler, Editors, QueryFails, Crash, Receive, ResolveTemplates, SkipPush, Record, Emit,
       RenderFails, ClientDataFails, Return, CommitOffset, PublishTemplate, DeactivateTemplate,
       ReactivateTemplate, SetTemplate, StartOver

\* A message comes to a topic: the first of the router's for its notification, or a copy
\* of one, or, with the row it came from, an operator's or a copy of that.
Stored(n, d, c, o) ==
    /\ n \in Notification /\ c \in 0 .. MaxRetries /\ o \in Delivery!Rows \cup {None}
    /\ Delivery!Publish(n, d, c)
    /\ origin' = [origin EXCEPT ![d] = o]
    /\ UNCHANGED <<deadLetters, delivered>>
    /\ IF o = None THEN n \in sent \ unsent /\ (ProducerResends \/ Original(n) = {})
                   ELSE Original(n) \cap deadLetters # {}

\* Rows are something.
LEMMA RowsAreSomething == None \notin Delivery!Rows
BY DeliveryAssumption DEF Delivery!Rows

\* The router's producer stores the first message of a notification.
LEMMA ReachStores ==
    ASSUME Delivery!DLQTypeOK, GlueInv, NEW n \in Notification, Reach(n)
    PROVE  \E d \in Dispatches : Stored(n, d, 0, None)
<1>1. PICK d \in Dispatches : Delivery!Dispatch(n, d)
  BY DEF Reach
<1>2. /\ Original(n) = {} /\ n \in sent \ unsent
      /\ Delivery!Publish(n, d, 0) /\ of[d] = None
      /\ UNCHANGED <<deadLetters, delivered, origin>>
  BY <1>1 DEF Reach, Delivery!Dispatch, Delivery!Publish, Original
<1>3. origin' = [origin EXCEPT ![d] = None]
  BY <1>2 DEF GlueInv, Delivery!DLQTypeOK
<1>4. 0 \in 0 .. MaxRetries
  BY DeliveryAssumption
<1>5. Stored(n, d, 0, None)
  BY <1>2, <1>3, <1>4 DEF Stored
<1>6. QED
  BY <1>5

\* A producer stores a copy.
LEMMA ResendStores ==
    ASSUME Delivery!DLQInv, GlueInv, NEW d \in Dispatches, NEW e \in Dispatches,
           NEW c \in Delivery!Counts, Delivery!ResendDispatch(d, e, c)
    PROVE  Stored(of[d], e, c, origin[d])
<1>1. /\ c \in 0 .. MaxRetries /\ of[d] \in Notification
      /\ Delivery!Publish(of[d], e, c)
  BY DeliveryConstants, Delivery!ResentIsPublished
     DEF Delivery!DLQInv, Delivery!GatewayInv, Delivery!ResendDispatch, Delivery!Resend
<1>2. /\ origin' = [origin EXCEPT ![e] = origin[d]] /\ UNCHANGED <<deadLetters, delivered>>
      /\ ProducerResends /\ origin[d] \in Delivery!Rows \cup {None}
  BY DEF Delivery!ResendDispatch, Delivery!Resend, ProducerResends, Delivery!DLQInv,
         Delivery!DLQTypeOK
<1>3. of[d] \in sent \ unsent
  BY <1>1 DEF GlueInv, Reached
<1>4. origin[d] # None => Original(of[d]) \cap deadLetters # {}
  BY DEF GlueInv
<1>5. QED
  BY <1>1, <1>2, <1>3, <1>4 DEF Stored

\* So does an operator's request, on account of a dead letter.
LEMMA EmitStores ==
    ASSUME Delivery!DLQInv, GlueInv, NEW o \in Operators, NEW r \in Delivery!Rows,
           NEW d \in Dispatches, Delivery!EmitDispatch(o, r, d)
    PROVE  UNCHANGED <<of, origin>> \/ Stored(of[r[1]], d, 0, r)
<1>1. of[r[1]] \in Notification
  BY DeliveryConstants, Delivery!RetriedHasSource
     DEF Delivery!EmitDispatch, Delivery!DLQInv, Delivery!GatewayInv
<1>2. r[1] \in deadLetters /\ r[1] \in Dispatches
  BY DEF Delivery!EmitDispatch, Delivery!DLQInv, Delivery!DeskInv, Delivery!Rows
<1>3. Original(of[r[1]]) \cap deadLetters # {}
  <2>1. CASE origin[r[1]] = None
    <3>1. r[1] \in Original(of[r[1]])
      BY <1>2, <2>1 DEF Original, Routed
    <3>2. QED
      BY <1>2, <3>1
  <2>2. CASE origin[r[1]] # None
    BY <1>2, <2>2 DEF GlueInv
  <2>3. QED
    BY <2>1, <2>2
<1>4. QED
  BY <1>1, <1>3, RowsAreSomething, DeliveryAssumption DEF Delivery!EmitDispatch, Stored

\* Beyond the gateway's own work, nothing but that happens to messages.
LEMMA DeliverMoves ==
    ASSUME Delivery!DLQInv, GlueInv, Deliver
    PROVE  \/ UNCHANGED <<of, origin>>
           \/ \E n \in Notification, d \in Dispatches, c \in 0 .. MaxRetries,
                 o \in Delivery!Rows \cup {None} : Stored(n, d, c, o)
<1>1. CASE Delivery!Gateway /\ UNCHANGED <<desk, failed, op, origin>>
  BY <1>1 DEF Delivery!Gateway, Delivery!ReadDispatch, Delivery!Attempt, Delivery!ReadRetry, Delivery!Wake,
     Delivery!ProcessWithAdapters, Delivery!HydrateProviderConfig, Delivery!Send,
     Delivery!PublishToRetry, Delivery!PublishToDLQ, Delivery!UpdateAuditLog, Delivery!Shutdown,
     Delivery!Exit, Delivery!Restart
<1>2. CASE \/ Delivery!WorkerCrash
           \/ \E d \in Dispatches : Delivery!HandleDeadLetter(d) \/ Delivery!ResendDeadLetter(d)
  BY <1>2 DEF Delivery!WorkerCrash, Delivery!HandleDeadLetter, Delivery!CreateFailedNotification,
     Delivery!LogFailed, Delivery!CommitOffset, Delivery!ResendDeadLetter, Delivery!vars
<1>3. ASSUME NEW d \in Dispatches, NEW e \in Dispatches, NEW c \in Delivery!Counts,
             Delivery!ResendDispatch(d, e, c)
      PROVE  \E n \in Notification, x \in Dispatches, k \in 0 .. MaxRetries,
                o \in Delivery!Rows \cup {None} : Stored(n, x, k, o)
  <2>1. Stored(of[d], e, c, origin[d])
    BY <1>3, ResendStores
  <2>2. QED
    BY <2>1 DEF Stored
<1>4. ASSUME NEW o \in Operators, Delivery!Operator(o)
      PROVE  \/ UNCHANGED <<of, origin>>
             \/ \E n \in Notification, d \in Dispatches, c \in 0 .. MaxRetries,
                   r \in Delivery!Rows \cup {None} : Stored(n, d, c, r)
  <2>1. CASE Delivery!RetryAll(o) \/ Delivery!UpdateRow(o)
    BY <2>1 DEF Delivery!RetryAll, Delivery!UpdateRow, Delivery!vars
  <2>2. CASE \E r \in Delivery!Rows : Delivery!RetryNotification(o, r)
    BY <2>2 DEF Delivery!RetryNotification, Delivery!vars
  <2>3. ASSUME NEW r \in Delivery!Rows, NEW d \in Dispatches, Delivery!EmitDispatch(o, r, d),
               Stored(of[r[1]], d, 0, r)
        PROVE  \E n \in Notification, x \in Dispatches, c \in 0 .. MaxRetries,
                  q \in Delivery!Rows \cup {None} : Stored(n, x, c, q)
    BY <2>3 DEF Stored
  <2>4. QED
    BY <1>4, <2>1, <2>2, <2>3, EmitStores DEF Delivery!Operator
<1>5. CASE \E r \in Delivery!Rows : Delivery!PurgeNotification(r)
  BY <1>5 DEF Delivery!PurgeNotification, Delivery!vars
<1>6. QED
  BY <1>1, <1>2, <1>3, <1>4, <1>5 DEF Deliver

\* A dead letter stays one.
LEMMA LettersStay ==
    ASSUME Delivery!DLQInv, [Delivery!DLQNext]_(Delivery!allVars)
    PROVE  deadLetters \subseteq deadLetters'
<1>1. [Delivery!Step]_(Delivery!vars)
  BY DeliveryConstants, Delivery!DLQStep
<1>2. QED
  BY <1>1
     DEF Delivery!Step, Delivery!RowWritten, Delivery!Published, Delivery!Publish, Delivery!vars,
         Delivery!Gateway, Delivery!ReadDispatch, Delivery!Attempt, Delivery!ReadRetry, Delivery!Wake,
         Delivery!ProcessWithAdapters, Delivery!HydrateProviderConfig, Delivery!Send,
         Delivery!PublishToRetry, Delivery!PublishToDLQ, Delivery!UpdateAuditLog, Delivery!Shutdown,
         Delivery!Exit, Delivery!Restart

\* Only the router's messages, and their copies, are originals.
LEMMA OriginalsOf ==
    ASSUME Delivery!DLQTypeOK, GlueInv, NEW n, NEW d \in Dispatches, NEW c, NEW o,
           Stored(n, d, c, o), NEW m \in Notification
    PROVE  Original(m)' = IF m = n /\ o = None THEN Original(m) \cup {d} ELSE Original(m)
<1>1. /\ of \in [Dispatches -> Notification \cup {None}]
      /\ origin \in [Dispatches -> Delivery!Rows \cup {None}]
  BY DEF Delivery!DLQTypeOK, Delivery!TypeOK
<1>2. /\ of[d] = None /\ origin[d] = None
      /\ of' = [of EXCEPT ![d] = n] /\ origin' = [origin EXCEPT ![d] = o]
  BY DEF Stored, Delivery!Publish, GlueInv
<1>3. QED
  BY <1>1, <1>2, DeliveryAssumption DEF Original, Routed

\* GlueInv survives a message.
LEMMA StoredGlue ==
    ASSUME Delivery!DLQTypeOK, GlueInv, NEW n, NEW d \in Dispatches, NEW c, NEW o,
           Stored(n, d, c, o), UNCHANGED <<topic, sent, unsent, broker>>
    PROVE  GlueInv'
<1>1. /\ of \in [Dispatches -> Notification \cup {None}]
      /\ origin \in [Dispatches -> Delivery!Rows \cup {None}]
      /\ n \in Notification /\ n # None
  BY DeliveryAssumption DEF Delivery!DLQTypeOK, Delivery!TypeOK, Stored
<1>2. /\ of[d] = None /\ origin[d] = None
      /\ of' = [of EXCEPT ![d] = n] /\ origin' = [origin EXCEPT ![d] = o]
      /\ UNCHANGED deadLetters
  BY DEF Stored, Delivery!Publish, GlueInv
<1>3. \A m \in Notification : Original(m) \subseteq Original(m)'
  BY OriginalsOf
<1>4. \A e \in Dispatches : of'[e] = None => origin'[e] = None
  BY <1>1, <1>2 DEF GlueInv
<1>5. ASSUME NEW m \in Notification, Reached(m)'
      PROVE  m \in sent' \ unsent' /\ Original(m)' # {}
  <2>1. CASE Reached(m)
    BY <1>3, <2>1 DEF GlueInv
  <2>2. CASE ~Reached(m)
    <3>1. m = n
      BY <1>1, <1>2, <1>5, <2>2 DEF Reached
    <3>2. Original(m) # {} => Reached(m)
      BY DEF Original, Reached
    <3>3. o = None
      BY <2>2, <3>1, <3>2 DEF Stored
    <3>4. QED
      BY <3>1, <3>3, OriginalsOf DEF Stored
  <2>3. QED
    BY <2>1, <2>2
<1>6. ASSUME NEW m \in Notification, ~ProducerResends, NEW x \in Original(m)', NEW y \in Original(m)'
      PROVE  x = y
  <2>1. m = n /\ o = None => Original(m) = {}
    BY <1>6 DEF Stored
  <2>2. QED
    BY <1>6, <2>1, OriginalsOf DEF GlueInv
<1>7. ASSUME NEW e \in Dispatches, origin'[e] # None
      PROVE  Original(of[e])' \cap deadLetters' # {}
  <2>1. CASE e = d
    BY <1>1, <1>2, <1>3, <1>7, <2>1 DEF Stored
  <2>2. CASE e # d
    <3>1. of'[e] = of[e] /\ origin[e] # None /\ of[e] \in Notification
      BY <1>1, <1>2, <1>7, <2>2 DEF GlueInv
    <3>2. Original(of[e]) \subseteq Original(of[e])'
      BY <1>1, <1>2, <3>1, DeliveryAssumption DEF Original, Routed
    <3>3. Original(of[e]) \cap deadLetters # {}
      BY <3>1 DEF GlueInv
    <3>4. QED
      BY <1>2, <3>2, <3>3
  <2>3. QED
    BY <2>1, <2>2
<1>8. \A e \in Events : Arrived(e)' => broker'[RequestOf[e]] = "delivered"
  BY DEF GlueInv, Arrived
<1>9. QED
  BY <1>4, <1>5, <1>6, <1>7, <1>8 DEF GlueInv

\* GlueInv holds.
LEMMA GlueStep ==
    ASSUME PartsInv, GlueInv, [PlatformNext]_platformVars PROVE GlueInv'
<1>0. topic \in Seq(Events) /\ Delivery!DLQInv /\ Delivery!DLQTypeOK
  BY DEF PartsInv, RouterInv, Pipe!TypeOK, Delivery!DLQInv
<1>1. CASE /\ UNCHANGED <<topic, sent, unsent, of, origin>> /\ deadLetters \subseteq deadLetters'
           /\ Trigger \/ UNCHANGED broker
  <2>1. \A q \in Requests : broker[q] = "delivered" => broker'[q] = "delivered"
    BY <1>1, DeliveredStays DEF Trigger, PartsInv
  <2>2. \A n : Original(n)' = Original(n) /\ (Reached(n)' <=> Reached(n))
    BY <1>1 DEF Original, Routed, Reached
  <2>3. \A d \in Dispatches : Original(of[d])' = Original(of[d])
    BY <1>1 DEF Original, Routed
  <2>4. \A e \in Events : Arrived(e)' => broker'[RequestOf[e]] = "delivered"
    BY <1>1, <2>1, CopiesAssumption DEF GlueInv, Arrived
  <2>5. QED
    BY <1>1, <2>2, <2>3, <2>4 DEF GlueInv
<1>2. ASSUME NEW e \in Events, Arrival(e) PROVE GlueInv'
  <2>1. \A s \in Events : Arrived(s)' => Arrived(s) \/ s = e
    <3>1. /\ Len(topic) \in Nat /\ Len(topic') = Len(topic) + 1 /\ topic'[Len(topic) + 1] = e
          /\ \A i \in 1 .. Len(topic) : topic'[i] = topic[i]
      BY <1>0, <1>2 DEF Arrival, Arrive
    <3>2. \A i \in 1 .. Len(topic') : i \in 1 .. Len(topic) \/ i = Len(topic) + 1
      BY <3>1
    <3>3. QED
      BY <3>1, <3>2 DEF Arrived
  <2>2. QED
    BY <1>2, <2>1 DEF Arrival, Arrive, GlueInv, Reached, Original, Routed, ingressVars, deliveryVars
<1>3. CASE Route
  BY <1>3, RouteFrame DEF Route, GlueInv, Arrived, Reached, Original, Routed, ingressVars, deliveryVars
<1>4. ASSUME NEW n \in Notification, Reach(n) PROVE GlueInv'
  BY <1>0, <1>4, ReachStores, StoredGlue DEF Reach, vars, ingressVars
<1>5. ASSUME NEW n \in Notification, Drop(n) PROVE GlueInv'
  BY <1>5 DEF Drop, GlueInv, Arrived, Reached, Original, Routed, vars, ingressVars, deliveryVars
<1>6. CASE Deliver
  <2>1. UNCHANGED <<topic, sent, unsent, broker>>
    BY <1>6 DEF Deliver, vars, ingressVars
  <2>2. deadLetters \subseteq deadLetters'
    BY <1>0, <1>6, StepOfComponents, LettersStay DEF PlatformNext
  <2>3. QED
    BY <1>0, <1>1, <1>6, <2>1, <2>2, DeliverMoves, StoredGlue
<1>7. QED
  BY <1>1, <1>2, <1>3, <1>4, <1>5, <1>6
     DEF PlatformNext, Trigger, platformVars, vars, ingressVars, deliveryVars

\* The invariant of the composition.
PlatformInv == PartsInv /\ ClaimsInv /\ GlueInv

\* It holds in every reachable state.
LEMMA PlatformHolds == PlatformSpec => []PlatformInv
<1>1. PlatformInit => ClaimsInv /\ GlueInv
  <2> SUFFICES ASSUME PlatformInit PROVE ClaimsInv /\ GlueInv
    OBVIOUS
  <2>1. ClaimsInv
    BY DEF PlatformInit, ClaimsInv, Ingress!Init, Ingress!Emitted
  <2>2. /\ topic = <<>> /\ sent = {} /\ unsent = {}
        /\ \A d \in Dispatches : of[d] = None /\ origin[d] = None
    BY DEF PlatformInit, Init, Delivery!DLQInit, Delivery!Init
  <2>3. \A n \in Notification : ~Reached(n) /\ Original(n) = {}
    BY <2>2, DeliveryAssumption DEF Reached, Original
  <2>4. \A e \in Events : ~Arrived(e)
    BY <2>2 DEF Arrived
  <2>5. QED
    BY <2>1, <2>2, <2>3, <2>4 DEF GlueInv
<1>2. PartsInv /\ ClaimsInv /\ GlueInv /\ [PlatformNext]_platformVars => (ClaimsInv /\ GlueInv)'
  BY ClaimsStep, GlueStep DEF PartsInv
<1>3. QED
  BY <1>1, <1>2, PartsHold, PTL DEF PlatformSpec, PlatformInv

-----------------------------------------------------------------------------
(* Each step is a step of the pipeline *)

\* What the pipeline sees of the messages is told by the gateway's variables alone.
LEMMA OutcomesFrame ==
    UNCHANGED <<of, origin, stage, deadLetters, delivered>> => UNCHANGED <<Outcomes, Carries>>
BY DEF Outcomes, Carries, Routed, Delivery!Outcome, Delivery!Delivered, Delivery!InProgress

\* A step of the ingress is a claim, an event handed over, a key forgotten or a loss
\* of the producer's.
LEMMA TriggerStep ==
    ASSUME PlatformInv, Trigger PROVE [Pipe!PipelineNext]_(Pipe!allVars)
<1>0. /\ Ingress!TypeOK /\ Ingress!DispatchInv /\ Ingress!ProgressInv /\ Ingress!Next
      /\ claimed' = claimed \cup {r \in Requests : call'[r] = "emit"}
      /\ UNCHANGED <<vars, unsent, Outcomes, Carries>>
  BY OutcomesFrame DEF Trigger, PlatformInv, PartsInv, IngressInv, deliveryVars
<1>1. NoneComes => UNCHANGED Claims
  BY <1>0 DEF NoneComes, Claims, PlatformInv, ClaimsInv
<1>2. UNCHANGED broker => UNCHANGED <<Triggered, Dropped>>
  BY <1>0 DEF Triggered, Dropped, Ingress!Emitted
<1>3. ASSUME NEW r \in Requests, Comes(r) PROVE Pipe!Claim(r)
  <2>1. \A s \in Requests : call'[s] = "emit" => s = r \/ call[s] = "emit"
    BY <1>0, <1>3 DEF Comes, Ingress!TypeOK
  <2>2. claimed' = claimed \cup {r}
    BY <1>0, <1>3, <2>1 DEF Comes, Ingress!TypeOK, PlatformInv, ClaimsInv
  <2>3. Claims' = [Claims EXCEPT ![KeyOf[r]] = @ \cup {r}]
    BY <2>2, IngressAssumption DEF Claims
  <2>4. CASE KeyOf[r] \notin disturbed
    <3>1. redis[KeyOf[r]] = Ingress!NoEntry
      BY <1>0, <1>3, <2>4 DEF Comes, Ingress!DispatchInv
    <3>2. \A s \in claimed : KeyOf[s] # KeyOf[r]
      BY <1>0, <2>4, <3>1 DEF PlatformInv, ClaimsInv, Ingress!DispatchInv
    <3>3. Claims[KeyOf[r]] = {}
      BY <3>2, IngressAssumption DEF Claims
    <3>4. QED
      BY <1>0, <1>2, <1>3, <2>3, <3>3 DEF Pipe!Claim, Pipe!Reserve, Comes, vars, Pipe!vars
  <2>5. QED
    BY <1>0, <1>2, <1>3, <2>3, <2>4 DEF Pipe!Claim, Pipe!Reserve, Comes, vars, Pipe!vars
<1>4. ASSUME NEW r \in Requests, Emits(r) PROVE Pipe!Trigger(r)
  <2>1. broker[r] = "none"
    BY <1>0, <1>4 DEF Emits, Ingress!ProgressInv, Ingress!Emitted
  <2>2. Triggered' = Triggered \cup {r} /\ r \notin Triggered /\ Dropped' = Dropped
    BY <1>0, <1>4, <2>1 DEF Emits, Triggered, Dropped, Ingress!Emitted, Ingress!TypeOK
  <2>3. r \in Claims[KeyOf[r]]
    BY <1>4, IngressAssumption DEF Emits, Claims, PlatformInv, ClaimsInv
  <2>4. QED
    BY <1>0, <1>1, <1>4, <2>2, <2>3 DEF Pipe!Trigger, Pipe!Ingress!Dispatch, Emits, vars, Pipe!vars
<1>5. ASSUME NEW r \in Requests, Settles(r) PROVE Pipe!Drop \/ UNCHANGED Pipe!allVars
  <2>1. Triggered' = Triggered /\ r \in Triggered
    BY <1>0, <1>5 DEF Settles, Triggered, Ingress!Emitted, Ingress!TypeOK
  <2>2. CASE broker' = [broker EXCEPT ![r] = "delivered"]
    <3>1. Dropped' = Dropped
      BY <1>0, <1>5, <2>2 DEF Settles, Dropped, Ingress!TypeOK
    <3>2. QED
      BY <1>0, <1>1, <1>5, <2>1, <3>1
         DEF Settles, vars, Pipe!allVars, Pipe!vars, Pipe!pipeVars, Pipe!ingressVars
  <2>3. CASE (BrokerLoss \/ Crashes) /\ broker' = [broker EXCEPT ![r] = "lost"]
    <3>1. Dropped' = Dropped \cup {r}
      BY <1>0, <2>3 DEF Dropped, Ingress!TypeOK
    <3>2. ~Pipe!Arrived(r)
      BY <1>5, CopiesAssumption DEF Settles, PlatformInv, GlueInv, Arrived, Pipe!Arrived
    <3>3. QED
      BY <1>0, <1>1, <1>5, <2>1, <2>3, <3>1, <3>2
         DEF Settles, Pipe!Drop, vars, Pipe!vars, Pipe!ingressVars
  <2>4. QED
    BY <1>5, <2>2, <2>3 DEF Settles
<1>6. CASE Elsewhere
  <2>1. UNCHANGED <<Claims, Triggered, Dropped, Outcomes, Carries, vars>>
    BY <1>0, <1>1, <1>2, <1>6 DEF Elsewhere
  <2>2. ASSUME NEW k \in Keys, disturbed' = disturbed \cup {k} PROVE Pipe!Forget(k)
    BY <2>1, <2>2 DEF Pipe!Forget, vars, Pipe!vars
  <2>3. QED
    BY <1>6, <2>1, <2>2 DEF Elsewhere, Pipe!PipelineNext, vars, Pipe!allVars, Pipe!vars, Pipe!pipeVars,
       Pipe!ingressVars
<1>7. QED
  BY <1>0, <1>3, <1>4, <1>5, <1>6, IngressMoves DEF Pipe!PipelineNext

\* Seen from the pipeline, the ingress and the producers stand still.
LEMMA StandsStill ==
    UNCHANGED <<ingressVars, unsent>> => UNCHANGED <<Claims, Triggered, Dropped, disturbed>>
BY DEF ingressVars, Claims, Triggered, Dropped, Ingress!Emitted

\* A step of the router, and an arrival, are such steps of the pipeline's.
LEMMA RouterStep ==
    ASSUME PlatformInv, Route \/ \E e \in Events : Arrival(e) PROVE Pipe!PipelineNext
<1>1. UNCHANGED Pipe!pipeVars
  BY StandsStill, OutcomesFrame DEF Route, Arrival, deliveryVars, Pipe!pipeVars, Pipe!ingressVars
<1>2. ASSUME NEW e \in Events, Arrival(e) PROVE Pipe!Arrival(e)
  <2>1. /\ broker[RequestOf[e]] = "delivered" /\ RequestOf[e] \in Requests /\ Pipe!Arrive(e)
        /\ e \in Requests \/ (ProducerResends /\ Pipe!Arrived(RequestOf[e]))
    BY <1>2, SameRouter, CopiesAssumption DEF Arrival, Arrived, Pipe!Arrived
  <2>2. unsent \subseteq Notification
    BY DEF PlatformInv, GlueInv, PartsInv, RouterInv, Pipe!TypeOK, Pipe!Notification, Notification,
       Pipe!Template, Template
  <2>3. RequestOf[e] \in Triggered \ Dropped
    BY <2>1, <2>2, NamesAssumption, CopiesAssumption DEF Triggered, Dropped, Ingress!Emitted
  <2>4. QED
    BY <1>1, <2>1, <2>3 DEF Pipe!Arrival
<1>3. CASE Route
  BY <1>1, <1>3, SameRouter DEF Route, Pipe!Route, Pipe!PipelineNext
<1>4. QED
  BY <1>2, <1>3 DEF Pipe!PipelineNext

\* To the pipeline a message of the router's is another message, and one of an
\* operator's is nothing.
LEMMA StoredStep ==
    ASSUME Delivery!DLQInv, GlueInv, NEW n, NEW d \in Dispatches, NEW c, NEW o,
           Stored(n, d, c, o), UNCHANGED <<vars, ingressVars, unsent>>
    PROVE  [Pipe!PipelineNext]_(Pipe!allVars)
<1>0. /\ of \in [Dispatches -> Notification \cup {None}]
      /\ origin \in [Dispatches -> Delivery!Rows \cup {None}]
      /\ stage \in [Dispatches -> [Delivery!Counts -> Delivery!Stage]]
      /\ n \in Notification /\ n # None /\ c \in 0 .. MaxRetries
  BY DeliveryAssumption DEF Delivery!DLQInv, Delivery!DLQTypeOK, Delivery!TypeOK, Stored
<1>1. /\ of[d] = None /\ origin[d] = None
      /\ of' = [of EXCEPT ![d] = n] /\ origin' = [origin EXCEPT ![d] = o]
      /\ UNCHANGED <<deadLetters, delivered>>
  BY DEF Stored, Delivery!Publish, GlueInv
<1>2. \A e \in Dispatches \ {d} :
          Carries'[e] = Carries[e] /\ Outcomes'[e] = Outcomes[e]
  <2>1. \A e \in Dispatches \ {d} :
            of'[e] = of[e] /\ origin'[e] = origin[e] /\ stage'[e] = stage[e]
    BY <1>0, <1>1 DEF Stored, Delivery!Publish
  <2>2. QED
    BY <1>1, <2>1
       DEF Carries, Outcomes, Routed, Delivery!Outcome, Delivery!Delivered, Delivery!InProgress
<1>3. Carries[d] = None /\ Outcomes[d] = "unused"
  BY <1>1 DEF Carries, Outcomes, Routed, Delivery!Outcome
<1>4. UNCHANGED <<vars, Claims, Triggered, disturbed, Dropped>>
  BY StandsStill
<1>5. CASE o # None
  <2>1. Carries'[d] = None /\ Outcomes'[d] = "unused"
    BY <1>0, <1>1, <1>5 DEF Carries, Outcomes, Routed
  <2>2. UNCHANGED <<Carries, Outcomes>>
    BY <1>2, <1>3, <2>1 DEF Carries, Outcomes
  <2>3. QED
    BY <1>4, <2>2 DEF vars, Pipe!allVars, Pipe!vars, Pipe!pipeVars, Pipe!ingressVars
<1>6. CASE o = None
  <2>1. d \notin deadLetters /\ \A k : <<d, k>> \notin delivered
    BY <1>1 DEF Delivery!DLQInv, Delivery!GatewayInv, Delivery!SourceInv, Delivery!TypeOK,
       Delivery!Attempts
  <2>2. Delivery!InProgress(d)'
    <3>1. c \in Delivery!Counts
      BY <1>0, DeliveryAssumption DEF Delivery!Counts
    <3>2. stage'[d][c] = "topic"
      BY <1>0, <3>1, DeliveryAssumption DEF Stored, Delivery!Publish, Delivery!Counts
    <3>3. QED
      BY <3>1, <3>2 DEF Delivery!InProgress
  <2>3. Carries'[d] = n /\ Outcomes'[d] = "pending"
    BY <1>0, <1>1, <1>6, <2>1, <2>2
       DEF Carries, Outcomes, Routed, Delivery!Outcome, Delivery!Delivered
  <2>4. Carries' = [Carries EXCEPT ![d] = n] /\ Outcomes' = [Outcomes EXCEPT ![d] = "pending"]
    BY <1>2, <2>3 DEF Carries, Outcomes
  <2>5. n \in sent \ Dropped
    BY <1>6, NamesAssumption, CopiesAssumption DEF Stored, Dropped
  <2>6. ProducerResends \/ ~Pipe!Reached(n)
    BY <1>0, <1>6 DEF Stored, Original, Pipe!Reached, Carries
  <2>7. Pipe!Reach(n)
    BY <1>3, <1>4, <2>4, <2>5, <2>6
       DEF Pipe!Reach, Pipe!Gateway!Accept, vars, Pipe!vars, Pipe!ingressVars
  <2>8. n \in Pipe!Notification
    BY <1>0 DEF Pipe!Notification, Notification, Pipe!Template, Template
  <2>9. QED
    BY <2>7, <2>8 DEF Pipe!PipelineNext
<1>7. QED
  BY <1>5, <1>6

\* So is what the router's producer does with a notification.
LEMMA ReachStep ==
    ASSUME PlatformInv, NEW n \in Notification, Reach(n) \/ Drop(n)
    PROVE  [Pipe!PipelineNext]_(Pipe!allVars)
<1>0. GlueInv /\ Delivery!DLQInv /\ Delivery!DLQTypeOK
  BY DEF PlatformInv, PartsInv, Delivery!DLQInv
<1>1. CASE Reach(n)
  <2>1. PICK d \in Dispatches : Stored(n, d, 0, None)
    BY <1>0, <1>1, ReachStores
  <2>2. QED
    BY <1>0, <1>1, <2>1, StoredStep DEF Reach
<1>2. CASE Drop(n)
  <2>1. ~Pipe!Reached(n)
    BY <1>2, DeliveryAssumption DEF Drop, Pipe!Reached, Carries, Reached
  <2>2. Dropped' = Dropped \cup {n}
    BY <1>2 DEF Drop, Dropped, ingressVars
  <2>3. UNCHANGED <<Claims, Triggered, disturbed, Outcomes, Carries>>
    BY <1>2, OutcomesFrame DEF Drop, ingressVars, deliveryVars, Claims, Triggered, Ingress!Emitted
  <2>4. Pipe!Drop
    BY <1>2, <2>1, <2>2, <2>3 DEF Drop, Pipe!Drop, vars, Pipe!vars, Pipe!ingressVars
  <2>5. QED
    BY <2>4 DEF Pipe!PipelineNext
<1>3. QED
  BY <1>1, <1>2

\* Delivering settles messages, or adds them.
LEMMA DeliverStep ==
    ASSUME PlatformInv, Deliver PROVE [Pipe!PipelineNext]_(Pipe!allVars)
<1> DEFINE outcome == [d \in Dispatches |-> Delivery!Outcome(d)]
<1>0. Delivery!DLQInv /\ GlueInv
  BY DEF PlatformInv, PartsInv
<1>1. UNCHANGED <<vars, ingressVars, unsent, Claims, Triggered, disturbed, Dropped>>
  BY StandsStill DEF Deliver
<1>2. Delivery!Promise!Next \/ UNCHANGED outcome
  <2>1. [Delivery!DLQNext]_(Delivery!allVars)
    BY StepOfComponents DEF PlatformNext
  <2>2. [Delivery!Step]_(Delivery!vars)
    BY <1>0, <2>1, DeliveryConstants, Delivery!DLQStep
  <2>3. QED
    BY <1>0, <2>2, DeliveryConstants, Delivery!OutcomeStep DEF Delivery!DLQInv
<1>3. CASE UNCHANGED <<of, origin>>
  <2>1. Carries' = Carries
    BY <1>3 DEF Carries, Routed
  <2>2. \A d \in Dispatches :
            /\ Routed(d)' <=> Routed(d)
            /\ Outcomes[d] = IF Routed(d) THEN outcome[d] ELSE "unused"
            /\ Outcomes'[d] = IF Routed(d) THEN outcome'[d] ELSE "unused"
    BY <1>3 DEF Outcomes, Routed
  <2>3. CASE UNCHANGED Outcomes
    BY <1>1, <2>1, <2>3 DEF vars, Pipe!allVars, Pipe!vars, Pipe!pipeVars, Pipe!ingressVars
  <2>4. ASSUME NEW d \in Dispatches, Delivery!Promise!Accept(d) PROVE FALSE
    BY <1>3, <2>4, DeliveryAssumption
       DEF Delivery!Promise!Accept, Delivery!Outcome, Delivery!DLQInv, Delivery!DLQTypeOK
  <2>5. ASSUME NEW d \in Dispatches, Outcomes' # Outcomes, NEW s \in {"delivered", "buried"},
               outcome[d] = "pending", outcome' = [outcome EXCEPT ![d] = s]
        PROVE  Outcomes[d] = "pending" /\ Outcomes' = [Outcomes EXCEPT ![d] = s]
    <3>1. \A e \in Dispatches \ {d} : Outcomes'[e] = Outcomes[e]
      BY <2>2, <2>5
    <3>2. Routed(d)
      <4>1. ~Routed(d) => Outcomes'[d] = Outcomes[d]
        BY <2>2
      <4>2. QED
        BY <2>5, <3>1, <4>1 DEF Outcomes
    <3>3. Outcomes[d] = "pending" /\ Outcomes'[d] = s
      BY <2>2, <2>5, <3>2
    <3>4. QED
      BY <3>1, <3>3 DEF Outcomes
  <2>6. ASSUME Delivery!Promise!Lose PROVE Pipe!Gateway!Lose
    <3>1. PICK gone \in SUBSET {d \in Dispatches : outcome[d] = "pending"} :
              outcome' = [d \in Dispatches |-> IF d \in gone THEN "lost" ELSE outcome[d]]
      BY <2>6 DEF Delivery!Promise!Lose
    <3> DEFINE lost == {d \in gone : Routed(d)}
    <3>2. \A d \in Dispatches : Outcomes'[d] = IF d \in lost THEN "lost" ELSE Outcomes[d]
      BY <2>2, <3>1
    <3>3. /\ lost \in SUBSET {d \in Dispatches : Outcomes[d] = "pending"}
          /\ Outcomes' = [d \in Dispatches |-> IF d \in lost THEN "lost" ELSE Outcomes[d]]
      BY <2>2, <3>1, <3>2 DEF Outcomes
    <3>4. QED
      BY <2>6, <3>3 DEF Delivery!Promise!Lose, Pipe!Gateway!Lose
  <2>7. ASSUME Outcomes' # Outcomes PROVE Pipe!Settle
    <3>1. CASE Pipe!Gateway!Lose
      BY <1>1, <2>1, <2>7, <3>1 DEF Pipe!Settle, vars, Pipe!vars, Pipe!ingressVars
    <3>2. ASSUME NEW d \in Dispatches, Delivery!Promise!Deliver(d) \/ Delivery!Promise!Bury(d)
          PROVE  Pipe!Gateway!Deliver(d) \/ Pipe!Gateway!Bury(d)
      BY <2>5, <2>7, <3>2
         DEF Delivery!Promise!Deliver, Delivery!Promise!Bury, Pipe!Gateway!Deliver, Pipe!Gateway!Bury
    <3>3. outcome' # outcome
      <4>1. outcome' = outcome => \A d \in Dispatches : Outcomes'[d] = Outcomes[d]
        BY <2>2
      <4>2. QED
        BY <2>7, <4>1 DEF Outcomes
    <3>4. QED
      BY <1>1, <1>2, <2>1, <2>4, <2>6, <3>1, <3>2, <3>3
         DEF Delivery!Promise!Next, Pipe!Settle, vars, Pipe!vars, Pipe!ingressVars
  <2>8. QED
    BY <2>3, <2>7 DEF Pipe!PipelineNext
<1>4. QED
  BY <1>0, <1>1, <1>3, DeliverMoves, StoredStep

\* The platform in full detail implements Pipeline, for every number of requests, keys,
\* tenants, channels, messages and operators, and whatever fails: what Pipeline shows
\* of a router between two promises is true of the parts themselves
\* (ImplementsPipeline).
THEOREM PlatformRefinesPipeline == PlatformSpec => ImplementsPipeline
<1>1. PlatformInit => Pipe!PipelineInit
  <2> SUFFICES ASSUME PlatformInit PROVE Pipe!PipelineInit
    OBVIOUS
  <2>1. Claims = [k \in Keys |-> {}] /\ Triggered = {} /\ disturbed = {} /\ Dropped = {}
    BY DEF PlatformInit, Ingress!Init, Claims, Triggered, Dropped, Ingress!Emitted
  <2>2. \A d \in Dispatches : of[d] = None
    BY DEF PlatformInit, Delivery!DLQInit, Delivery!Init
  <2>3. Outcomes = [d \in Dispatches |-> "unused"] /\ Carries = [d \in Dispatches |-> None]
    BY <2>2 DEF Outcomes, Carries, Delivery!Outcome
  <2>4. QED
    BY <2>1, <2>3, SameRouter DEF PlatformInit, Pipe!PipelineInit, Pipe!Ingress!Init, Pipe!Gateway!Init
<1>2. PlatformInv /\ [PlatformNext]_platformVars => [Pipe!PipelineNext]_(Pipe!allVars)
  <2> SUFFICES ASSUME PlatformInv, [PlatformNext]_platformVars
               PROVE  [Pipe!PipelineNext]_(Pipe!allVars)
    OBVIOUS
  <2>1. CASE UNCHANGED platformVars
    BY <2>1, StandsStill, OutcomesFrame
       DEF platformVars, vars, ingressVars, deliveryVars, Pipe!allVars, Pipe!vars, Pipe!pipeVars,
           Pipe!ingressVars
  <2>2. QED
    BY <2>1, TriggerStep, RouterStep, ReachStep, DeliverStep DEF PlatformNext
<1>3. QED
  BY <1>1, <1>2, PlatformHolds, PTL DEF PlatformSpec, ImplementsPipeline, Pipe!PipelineSpec

-----------------------------------------------------------------------------
(* What follows from end to end *)

\* The pipeline's invariants, of the platform.
LEMMA PipelineHolds ==
    PlatformSpec => [](Pipe!PipelineTypeOK /\ Pipe!FlowInv /\ Pipe!OnceInv)
BY PlatformRefinesPipeline, PipeConstants, Pipe!PipelineInvariant, PTL DEF ImplementsPipeline

\* A row left PENDING without a message was left by a run cut short or by the
\* producer, among all the steps of the parts too (OrphansAreExplained of Pipeline).
THEOREM OrphansExplained == PlatformSpec => []OrphansAreExplained
BY PlatformRefinesPipeline, PipeConstants, Pipe!OrphansHaveCauses, PTL
   DEF ImplementsPipeline, OrphansAreExplained

\* Nobody is delivered to twice for one key on one channel but where Redis failed the
\* key, the router ran twice, a producer stored a message twice, or operators retried
\* twice: through all interleavings, crashes and retries of ingress, router, gateway and
\* worker (DeliveriesAreExplained).
THEOREM DeliveredTwiceHasCauses ==
    ASSUME MaxRuns > 1 PROVE PlatformSpec => []DeliveriesAreExplained
<1>1. /\ PlatformInv
      /\ Pipe!PipelineTypeOK /\ Pipe!FlowInv /\ Pipe!OnceInv
      => DeliveriesAreExplained
  <2> SUFFICES ASSUME PlatformInv, Pipe!PipelineTypeOK, Pipe!FlowInv, Pipe!OnceInv,
                      "ambiguous" \notin GatewayFaults,
                      NEW a \in delivered, NEW b \in delivered, a # b,
                      KeyOf[RequestOf[of[a[1]].event]] = KeyOf[RequestOf[of[b[1]].event]],
                      of[a[1]].template.channel = of[b[1]].template.channel,
                      KeyOf[RequestOf[of[a[1]].event]] \notin disturbed
               PROVE  \/ /\ of[a[1]] # of[b[1]] /\ of[a[1]].event = of[b[1]].event
                         /\ runs[of[a[1]].event] > 1
                      \/ StoredTwice(of[a[1]], of[b[1]])
                      \/ of[a[1]] = of[b[1]] /\ ~Routed(a[1]) /\ ~Routed(b[1])
    BY DEF DeliveriesAreExplained
  <2>1. /\ GlueInv /\ Delivery!DLQInv
        /\ delivered \subseteq Delivery!Attempts
        /\ of \in [Dispatches -> Notification \cup {None}]
    BY DEF PlatformInv, PartsInv, Delivery!DLQInv, Delivery!DLQTypeOK, Delivery!TypeOK
  <2>2. /\ \A x \in delivered :
              x[1] \in Dispatches /\ of[x[1]] \in Notification /\ of[x[1]] \in sent
              /\ x[1] \notin deadLetters
        /\ \A x, y \in delivered : x[1] = y[1] => x = y
    <3>1. Delivery!DeliveredOnce
      BY <2>1, DeliveryConstants, Delivery!GatewayPromises DEF Delivery!DLQInv
    <3>2. ASSUME NEW x \in delivered
          PROVE  x[1] \in Dispatches /\ of[x[1]] \in Notification
      <4>1. PICK d \in Dispatches, c \in Delivery!Counts : x = <<d, c>>
        BY <2>1 DEF Delivery!Attempts
      <4>2. of[d] # None
        BY <2>1, <4>1 DEF Delivery!DLQInv, Delivery!GatewayInv, Delivery!SourceInv
      <4>3. QED
        BY <2>1, <4>1, <4>2
    <3>3. QED
      BY <2>1, <3>1, <3>2 DEF Delivery!DeliveredOnce, GlueInv, Reached
  <2>3. CASE of[a[1]] # of[b[1]]
    <3>1. \/ of[a[1]].event = of[b[1]].event /\ runs[of[a[1]].event] > 1
          \/ Pipe!StoredTwice(of[a[1]], of[b[1]])
      BY <2>2, <2>3, PipeConstants, Pipe!TwoNotifications
    <3>2. QED
      BY <2>3, <3>1 DEF Pipe!StoredTwice, StoredTwice
  <2>4. CASE of[a[1]] = of[b[1]]
    <3>1. Routed(a[1]) => a[1] \in Original(of[a[1]])
      BY <2>2 DEF Original
    <3>2. Routed(b[1]) => b[1] \in Original(of[a[1]])
      BY <2>2, <2>4 DEF Original
    <3>3. ~Routed(a[1]) \/ ~Routed(b[1]) => Original(of[a[1]]) \cap deadLetters # {}
      BY <2>1, <2>2, <2>4 DEF GlueInv, Routed
    <3>4. Routed(a[1]) \/ Routed(b[1]) => \E d, e \in Original(of[a[1]]) : d # e
      BY <2>2, <3>1, <3>2, <3>3
    <3>5. (\E d, e \in Original(of[a[1]]) : d # e) => StoredTwice(of[a[1]], of[b[1]])
      BY <2>1, <2>2, <2>4 DEF GlueInv, StoredTwice
    <3>6. QED
      BY <2>4, <3>4, <3>5
  <2>5. QED
    BY <2>3, <2>4
<1>2. QED
  BY <1>1, PlatformHolds, PipelineHolds, PTL

\* The letters the worker has handled have their rows while its transactions succeed.
LEMMA LettersInRows ==
    PlatformSpec => []("postgres" \notin GatewayFaults => Delivery!LettersHaveRows)
<1>1. CASE "postgres" \notin GatewayFaults
  <2>1. Delivery!DLQSpec => []Delivery!LettersHaveRows
    BY <1>1, DeliveryConstants, Delivery!LettersAreKept
  <2>2. QED
    BY <2>1, ComponentsKeepTheirSpecs, PTL
<1>2. CASE "postgres" \in GatewayFaults
  <2>1. "postgres" \notin GatewayFaults => Delivery!LettersHaveRows
    BY <1>2
  <2>2. QED
    BY <2>1, PTL
<1>3. QED
  BY <1>1, <1>2

\* A message that is not in progress and whose dead letter was read is settled.
LEMMA SentIsSettled ==
    ASSUME PlatformInv, "postgres" \notin GatewayFaults => Delivery!LettersHaveRows, Quiet,
           NEW n \in Notification, NEW d \in Original(n)
    PROVE  Settled(d)
<1>1. /\ Delivery!DLQInv
      /\ d \in Dispatches /\ of[d] = n /\ of[d] # None
      /\ ~Delivery!InProgress(d)
  BY DeliveryAssumption DEF PlatformInv, PartsInv, Original, Quiet
<1>2. CASE Delivery!Delivered(d)
  BY <1>1, <1>2 DEF Delivery!Outcome, Settled
<1>3. CASE ~Delivery!Delivered(d) /\ d \in deadLetters
  <2>1. Delivery!Outcome(d) = "buried" /\ desk[d] # "unread"
    BY <1>1, <1>3 DEF Delivery!Outcome, Quiet
  <2>2. "postgres" \notin GatewayFaults =>
            of[d] \in RealTime \/ \E k \in 1 .. MaxCopies : failed[<<d, k>>] # "none"
    BY <1>1, <2>1 DEF Delivery!LettersHaveRows
  <2>3. QED
    BY <2>1, <2>2 DEF Settled
<1>4. CASE ~Delivery!Delivered(d) /\ d \notin deadLetters
  <2>1. Delivery!Outcome(d) = "lost"
    BY <1>1, <1>4 DEF Delivery!Outcome
  <2>2. of[d] \in Malformed \/ Delivery!Unreliable
    BY <1>1, <1>4
       DEF Delivery!DLQInv, Delivery!GatewayInv, Delivery!KeptInv, Delivery!NothingLost
  <2>3. QED
    BY <2>1, <2>2 DEF Settled
<1>5. QED
  BY <1>2, <1>3, <1>4

\* Once the platform is at rest, what a client was told is accepted is delivered, in
\* front of the operators, dropped because the gateway cannot read it, or was lost where
\* a component says it may be (AcceptedIsAccountedFor).
THEOREM AcceptedAccounted == PlatformSpec => []AcceptedIsAccountedFor
<1>1. PlatformInv /\ ("postgres" \notin GatewayFaults => Delivery!LettersHaveRows)
      => AcceptedIsAccountedFor
  <2> SUFFICES ASSUME PlatformInv, "postgres" \notin GatewayFaults => Delivery!LettersHaveRows,
                      Quiet, NEW r \in Requests, Ingress!Success(r)
               PROVE  \E s \in Requests :
                          /\ KeyOf[s] = KeyOf[r]
                          /\ \/ Ingress!Gone(s)
                             \/ broker[s] = "lost"
                             \/ /\ Handled(s)
                                /\ \A tpl \in plan[s] :
                                      \/ tpl.channel = "PUSH" /\ s \in Guests
                                      \/ \E n \in sent :
                                            /\ n.event = s /\ n.template = tpl
                                            /\ \/ n \in unsent
                                               \/ /\ Reached(n)
                                                  /\ \A d \in Original(n) : Settled(d)
    BY DEF AcceptedIsAccountedFor
  <2>1. PICK s \in Requests :
            /\ KeyOf[s] = KeyOf[r]
            /\ Ingress!Emitted(s) \/ call[s] \in {"emit", "fallback"} \/ Ingress!Gone(s)
    BY DEF PlatformInv, PartsInv, IngressInv, Ingress!SuccessIsBacked
  <2>2. CASE Ingress!Gone(s) \/ broker[s] = "lost"
    BY <2>1, <2>2
  <2>3. CASE ~Ingress!Gone(s) /\ broker[s] # "lost"
    <3>1. broker[s] = "delivered"
      BY <2>1, <2>3 DEF Quiet, Ingress!Emitted, PlatformInv, PartsInv, IngressInv, Ingress!TypeOK,
         Ingress!Delivery
    <3>2. PICK i \in 1 .. offset : topic[i] = s
      BY <3>1 DEF Quiet, Arrived
    <3>3. Handled(s)
      BY <3>2 DEF Handled
    <3>4. ASSUME NEW tpl \in plan[s], ~(tpl.channel = "PUSH" /\ s \in Guests)
          PROVE  \E n \in sent :
                     /\ n.event = s /\ n.template = tpl
                     /\ n \in unsent \/ (Reached(n) /\ \A d \in Original(n) : Settled(d))
      <4>1. PICK n \in sent : n.event = s /\ n.template = tpl
        BY <3>2, <3>4 DEF PlatformInv, PartsInv, RouterInv, Pipe!CommittedIsRouted, Pipe!Dispatched
      <4>2. n \in Notification
        BY DEF PlatformInv, PartsInv, RouterInv, Pipe!TypeOK, Pipe!Notification, Notification,
           Pipe!Template, Template
      <4>3. n \in unsent \/ Reached(n)
        BY DEF Quiet
      <4>4. QED
        BY <4>1, <4>2, <4>3, SentIsSettled
    <3>5. QED
      BY <2>1, <3>3, <3>4
  <2>4. QED
    BY <2>2, <2>3
<1>2. QED
  BY <1>1, PlatformHolds, LettersInRows, PTL
===============================================================================
