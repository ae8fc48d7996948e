--------------------------- MODULE GatewayDelivery ---------------------------
(***************************************************************************)
(* The Go gateway (gateway/main.go and its adapters): what happens to a    *)
(* message of notification.dispatch until a provider has accepted it or it *)
(* stands on notification.dlq, with the retries, the log rows in Postgres, *)
(* shutdown and crash.                                                     *)
(*                                                                         *)
(* Message d is tried at most once per retry count c: as itself for c = 0, *)
(* as the RetryMessage of that count for c > 0.  stage[d][c] says where    *)
(* that attempt is.  One goroutine runs each attempt, so each step of each *)
(* attempt interleaves with every other; the retry consumer alone is one   *)
(* goroutine, that sleeps through the backoff of the message it holds.     *)
(*                                                                         *)
(* A definition named Bug... is no part of the specification: it is what   *)
(* the definition after it would be with a plausible mistake in the code.  *)
(***************************************************************************)
EXTENDS Naturals, FiniteSets

CONSTANTS
    Notifications,  \* notification ids
    RealTime,       \* those with ActionType REALTIME: they have no log row
    Malformed,      \* those whose payload json.Unmarshal or validatePayload refuses
    Dispatches,     \* messages put on notification.dispatch (bounds a run)
    MaxRetries,     \* maxRetries, main.go:31
    Faults,         \* what the environment may do, a subset of FaultKinds
    None

\* "crash": the gateway dies.  "shutdown": it is told to stop.  "publish": a
\* write to Kafka, of a message or of an offset, fails.  "resend": a write is made
\* again because its answer was lost.  "postgres": a transaction fails.
\* "ambiguous": a provider accepts a notification and answers with an error.
\* "slowLog": the update of a log row takes longer than a retry's backoff.
\* "worker": the worker process dies (used by DeadLetterQueue).
FaultKinds ==
    {"crash", "shutdown", "publish", "resend", "postgres", "ambiguous", "slowLog", "worker"}

ASSUME RealTimeAssumption == RealTime \subseteq Notifications
ASSUME MalformedAssumption == Malformed \subseteq Notifications
ASSUME MaxRetriesAssumption == MaxRetries \in Nat
ASSUME FaultsAssumption == Faults \subseteq FaultKinds
ASSUME NoneAssumption == None \notin Notifications

VARIABLES
    of,           \* of[d]: the notification message d carries, or None
    stage,        \* stage[d][c]: where attempt c of message d is
    deadLetters,  \* messages published to notification.dlq
    status,       \* status[n]: notification_logs.status
    gateway,      \* "up", "draining" after a signal, "down"
    delivered     \* history: attempts whose notification a provider accepted

vars == <<of, stage, deadLetters, status, gateway, delivered>>

\* One more than the code may use, so that an overrun is a reachable state.
Counts == 0 .. MaxRetries + 1
Attempts == Dispatches \X Counts

LogStatus == {"SENT", "RETRYING", "FAILED"}

\* "topic": published, unread.  "asleep": read by the retry consumer, which
\* waits for NextRetryAt.  From "hydrate" to "dlq": the call its goroutine makes
\* next.  A member of LogStatus: about to write that status.
Trying == {"hydrate", "send", "retry", "dlq"}
Running == Trying \cup LogStatus
Stage == Running \cup {"none", "topic", "asleep", "done", "lost"}

TypeOK ==
    /\ of \in [Dispatches -> Notifications \cup {None}]
    /\ stage \in [Dispatches -> [Counts -> Stage]]
    /\ deadLetters \subseteq Dispatches
    /\ status \in [Notifications -> LogStatus \cup {"none", "PENDING"}]
    /\ gateway \in {"up", "draining", "down"}
    /\ delivered \subseteq Attempts

Init ==
    /\ of = [d \in Dispatches |-> None]
    /\ stage = [d \in Dispatches |-> [c \in Counts |-> "none"]]
    /\ deadLetters = {}
    /\ status = [n \in Notifications |-> "none"]
    /\ gateway = "up"
    /\ delivered = {}

Move(d, c, s) == stage' = [stage EXCEPT ![d][c] = s]

-----------------------------------------------------------------------------
(* Reading the topics *)

\* Puts message d, for notification n, on the topic that count c is read from.
Publish(n, d, c) ==
    /\ of[d] = None
    /\ of' = [of EXCEPT ![d] = n]
    /\ stage' = [stage EXCEPT ![d] =
           [b \in Counts |-> IF b < c THEN "done" ELSE IF b = c THEN "topic" ELSE "none"]]

\* The worker's router: a log row, unless the channel is realtime, then the
\* message.
Dispatch(n, d) ==
    /\ \A e \in Dispatches : of[e] # n
    /\ Publish(n, d, 0)
    /\ status' = IF n \in RealTime THEN status ELSE [status EXCEPT ![n] = "PENDING"]
    /\ UNCHANGED <<deadLetters, gateway, delivered>>

\* A producer that missed the answer stores its message again: the worker's, neither
\* of whose clients is idempotent, for c = 0, the gateway's for a retry.  The copy is
\* a message e of its own, with the tries of d before count c behind it.
Resend(d, e, c) ==
    /\ "resend" \in Faults
    /\ stage[d][c] # "none"
    /\ Publish(of[d], e, c)
    /\ UNCHANGED <<deadLetters, status, gateway, delivered>>

\* ReadMessage returns an error, and the loop goes on, when its commit fails or is
\* cancelled by a shutdown, be the offset committed or not.
CommitFails == Faults \cap {"publish", "shutdown"} # {}

\* ReadMessage commits the offset: the message will not be read again.  A malformed
\* one is logged and dropped, without a dead letter and without a status.
ReadDispatch(d) ==
    /\ gateway = "up"
    /\ stage[d][0] = "topic"
    /\ \/ of[d] \notin Malformed /\ Move(d, 0, "hydrate")
       \/ (of[d] \in Malformed \/ CommitFails) /\ Move(d, 0, "lost")
    /\ UNCHANGED <<of, deadLetters, status, gateway, delivered>>

\* A RetryMessage was written by the gateway, and is well-formed.
ReadRetry(d, c) ==
    /\ gateway = "up"
    /\ c > 0
    /\ stage[d][c] = "topic"
    /\ \A e \in Dispatches, k \in Counts : stage[e][k] # "asleep"
    /\ \/ Move(d, c, "asleep")
       \/ CommitFails /\ Move(d, c, "lost")
    /\ UNCHANGED <<of, deadLetters, status, gateway, delivered>>

\* The backoff, a minute or more, has passed.  Unless log writes are slow, the
\* previous attempt's has ended long ago.
Wake(d, c) ==
    /\ gateway # "down"
    /\ stage[d][c] = "asleep"
    /\ "slowLog" \in Faults \/ stage[d][c - 1] # "RETRYING"
    /\ Move(d, c, "hydrate")
    /\ UNCHANGED <<of, deadLetters, status, gateway, delivered>>

-----------------------------------------------------------------------------
(* processWithAdapters *)

\* The provider configuration may be gone, unreadable or Postgres away; a
\* realtime message has none.
HydrateProviderConfig(d, c) ==
    /\ stage[d][c] = "hydrate"
    /\ \/ Move(d, c, "send")
       \/ of[d] \notin RealTime /\ Move(d, c, "dlq")
    /\ UNCHANGED <<of, deadLetters, status, gateway, delivered>>

BugRetryOnceMore(c) == IF c <= MaxRetries THEN "retry" ELSE "dlq"
AfterRetryableError(c) == IF c < MaxRetries THEN "retry" ELSE "dlq"

BugSuccessFallsThrough(d, c) ==
    /\ delivered' = delivered \cup {<<d, c>>}
    /\ Move(d, c, AfterRetryableError(c))
Succeed(d, c) ==
    /\ delivered' = delivered \cup {<<d, c>>}
    /\ Move(d, c, "SENT")

FailRetryably(d, c) ==
    /\ Move(d, c, AfterRetryableError(c))
    /\ \/ UNCHANGED delivered
       \/ "ambiguous" \in Faults /\ delivered' = delivered \cup {<<d, c>>}

\* Every error of the Centrifugo adapter is retryable.
FailPermanently(d, c) ==
    /\ of[d] \notin RealTime
    /\ Move(d, c, "dlq")
    /\ UNCHANGED delivered

BugFailureIsForgotten(d, c) ==
    /\ stage[d][c] = "send"
    /\ \/ Succeed(d, c)
       \/ FailRetryably(d, c)
       \/ of[d] \notin RealTime /\ Move(d, c, "FAILED") /\ UNCHANGED delivered
    /\ UNCHANGED <<of, deadLetters, status, gateway>>
Send(d, c) ==
    /\ stage[d][c] = "send"
    /\ \/ Succeed(d, c)
       \/ FailRetryably(d, c)
       \/ FailPermanently(d, c)
    /\ UNCHANGED <<of, deadLetters, status, gateway>>

BugRetryKeepsCount(d, c) ==
    /\ stage[d][c] = "retry"
    /\ Move(d, c, "topic")
    /\ UNCHANGED <<of, deadLetters, status, gateway, delivered>>
\* A failed write is logged and forgotten: the row will still say RETRYING.
PublishToRetry(d, c) ==
    /\ stage[d][c] = "retry"
    /\ \/ stage' = [stage EXCEPT ![d][c] = "RETRYING", ![d][c + 1] = "topic"]
       \/ "publish" \in Faults /\ Move(d, c, "RETRYING")
    /\ UNCHANGED <<of, deadLetters, status, gateway, delivered>>

PublishToDLQ(d, c) ==
    /\ stage[d][c] = "dlq"
    /\ \/ deadLetters' = deadLetters \cup {d}
       \/ "publish" \in Faults /\ UNCHANGED deadLetters
    /\ Move(d, c, "FAILED")
    /\ UNCHANGED <<of, status, gateway, delivered>>

SetStatus(n, s) ==
    \/ status' = IF n \in RealTime THEN status ELSE [status EXCEPT ![n] = s]
    \/ "postgres" \in Faults /\ UNCHANGED status

\* updateAuditLog: no row matches a realtime notification; an error is logged.
UpdateAuditLog(d, c) ==
    /\ stage[d][c] \in LogStatus
    /\ SetStatus(of[d], stage[d][c])
    /\ Move(d, c, "done")
    /\ UNCHANGED <<of, deadLetters, gateway, delivered>>

ProcessWithAdapters(d, c) ==
    /\ gateway # "down"
    /\ \/ HydrateProviderConfig(d, c)
       \/ Send(d, c)
       \/ PublishToRetry(d, c)
       \/ PublishToDLQ(d, c)
       \/ UpdateAuditLog(d, c)

-----------------------------------------------------------------------------
(* Shutdown and crash *)

Shutdown ==
    /\ "shutdown" \in Faults
    /\ gateway = "up"
    /\ gateway' = "draining"
    /\ UNCHANGED <<of, stage, deadLetters, status, delivered>>

\* wg.Wait() sees the goroutines of processWithAdapters, not the sleeping retry
\* consumer.  Its 15 second limit, like a kill, ends them where they are.
WhereLeft(left) == IF left \in Running \cup {"asleep"} THEN "lost" ELSE left

Exit ==
    /\ \/ gateway = "draining" /\ \A d \in Dispatches, c \in Counts : stage[d][c] \notin Running
       \/ "crash" \in Faults /\ gateway # "down"
    /\ gateway' = "down"
    /\ stage' = [d \in Dispatches |-> [c \in Counts |-> WhereLeft(stage[d][c])]]
    /\ UNCHANGED <<of, deadLetters, status, delivered>>

Restart ==
    /\ gateway = "down"
    /\ gateway' = "up"
    /\ UNCHANGED <<of, stage, deadLetters, status, delivered>>

-----------------------------------------------------------------------------
Attempt(d, c) ==
    \/ ReadRetry(d, c)
    \/ Wake(d, c)
    \/ ProcessWithAdapters(d, c)

Gateway ==
    \/ \E d \in Dispatches : ReadDispatch(d) \/ \E c \in Counts : Attempt(d, c)
    \/ Shutdown
    \/ Exit
    \/ Restart

Router == \E n \in Notifications, d \in Dispatches : Dispatch(n, d)

Next ==
    \/ Gateway
    \/ Router
    \/ \E d, e \in Dispatches, c \in Counts : Resend(d, e, c)

Spec == Init /\ [][Next]_vars

\* The Go scheduler runs every goroutine that can run, sleeps end, Kafka hands
\* over what it stores.  Nothing obliges the gateway to be stopped or to crash.
GatewayFairness ==
    \A d \in Dispatches :
        /\ WF_vars(ReadDispatch(d))
        /\ \A c \in Counts : WF_vars(Attempt(d, c))

FairSpec == Spec /\ GatewayFairness

-----------------------------------------------------------------------------
(* Properties *)

InProgress(d) ==
    \E c \in Counts : stage[d][c] \in Trying \cup {"topic", "asleep"}
Delivered(d) == \E c \in Counts : <<d, c>> \in delivered

\* Retries are made one after the other and are bounded: an attempt exists only
\* when all those before it were answered with a retryable error and have handed
\* over, never with a count above maxRetries; and what stands on the dead letter
\* topic is not being tried any more (main.go:269-280, whatever crashes).
RetriesInOrder ==
    \A d \in Dispatches, c \in Counts :
        stage[d][c] # "none" =>
            /\ c <= MaxRetries
            /\ \A b \in 0 .. c - 1 : stage[d][b] \in {"RETRYING", "done", "lost"}
            /\ d \in deadLetters => stage[d][c] \notin Trying \cup {"topic", "asleep"}

\* A message is delivered by one attempt at most, and then neither retried nor
\* dead-lettered, crashes and restarts included: the price of committing offsets
\* before processing.  Only a provider that delivers and reports an error breaks
\* it (main.go:118-147, 250-281).  The copy that a producer resent is a second
\* message: see DeliveriesAreExplained of Platform.
DeliveredOnce ==
    "ambiguous" \notin Faults =>
        \A a \in delivered :
            /\ \A b \in delivered : a[1] = b[1] => a = b
            /\ ~InProgress(a[1])
            /\ a[1] \notin deadLetters

\* A message on the topic, or taken from it, is being tried, or was delivered, or is
\* a dead letter: the hand-over between the topics drops nothing but the messages
\* whose payload the gateway cannot read (main.go:118-147, 221-342).
NothingLost ==
    \A d \in Dispatches :
        of[d] # None =>
            InProgress(d) \/ Delivered(d) \/ d \in deadLetters \/ of[d] \in Malformed

\* The gateway itself may lose a message.
Unreliable == Faults \cap {"crash", "shutdown", "publish"} # {}

Lossy == Unreliable \/ Malformed # {}

Outcome(d) ==
    IF of[d] = None THEN "unused"
    ELSE IF Delivered(d) THEN "delivered"
    ELSE IF d \in deadLetters THEN "buried"
    ELSE IF InProgress(d) THEN "pending" ELSE "lost"

Promise == INSTANCE DeliveryOutcome WITH
    outcome <- [d \in Dispatches |-> Outcome(d)]

\* The gateway implements DeliveryOutcome: a delivered, buried or lost message
\* stays so (main.go:118-342).
ImplementsDeliveryOutcome == Promise!Spec
=============================================================================
