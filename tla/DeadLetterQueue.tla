--------------------------- MODULE DeadLetterQueue ---------------------------
(***************************************************************************)
(* The dead letters after the gateway: NotificationsController consumes    *)
(* notification.dlq and persists failed_notifications rows, and operators  *)
(* retry or purge them (admin/dlq.controller.ts, tenant/dlq.controller.ts),*)
(* which puts the payload on notification.dispatch again.  Extends         *)
(* GatewayDelivery, whose steps run beside those below.                    *)
(***************************************************************************)
EXTENDS GatewayDelivery

CONSTANTS
    Operators,   \* requests of platform or tenant operators in progress at once
    MaxCopies    \* bounds how often one dead letter is consumed

ASSUME MaxCopiesAssumption == MaxCopies \in Nat \ {0}
ASSUME NoRowAssumption == None \notin Dispatches \X (1 .. MaxCopies)

VARIABLES
    desk,      \* desk[d]: how far handleDeadLetter is with dead letter d
    rows,      \* rows[<<d, k>>]: the failed_notifications row the k-th handling made
    op,        \* op[o]: operator request o
    origin     \* origin[d]: the row message d was retried from, or None (history)

deskVars == <<desk, rows, op, origin>>
allVars == <<vars, deskVars>>

Rows == Dispatches \X (1 .. MaxCopies)

\* "failed" is permanently_failed = true, "retried" is false.
Present == {"failed", "retried"}

\* A request without work.
Idle == [kind |-> "one", todo |-> {}, row |-> None]

DLQTypeOK ==
    /\ TypeOK
    /\ desk \in [Dispatches -> {"unread", "created", "handled", "committed"}]
    /\ rows \in [Rows -> Present \cup {"none", "purged"}]
    /\ op \in [Operators -> [kind : {"one", "all"}, todo : SUBSET Rows, row : Rows \cup {None}]]
    /\ origin \in [Dispatches -> Rows \cup {None}]

DLQInit ==
    /\ Init
    /\ desk = [d \in Dispatches |-> "unread"]
    /\ rows = [r \in Rows |-> "none"]
    /\ op = [o \in Operators |-> Idle]
    /\ origin = [d \in Dispatches |-> None]

-----------------------------------------------------------------------------
(* handleDeadLetter *)

\* First transaction.  channel_enum has no REALTIME, so the INSERT of a realtime
\* dead letter throws, like any failing transaction: the error is swallowed and
\* the message counts as handled.
CreateFailedNotification(d) ==
    /\ d \in deadLetters
    /\ desk[d] = "unread"
    /\ \/ /\ of[d] \notin RealTime
          /\ \E k \in 1 .. MaxCopies :
                /\ \A j \in 1 .. MaxCopies : rows[<<d, j>>] = "none" <=> j >= k
                /\ rows' = [rows EXCEPT ![<<d, k>>] = "failed"]
          /\ desk' = [desk EXCEPT ![d] = "created"]
       \/ /\ of[d] \in RealTime \/ "postgres" \in Faults
          /\ desk' = [desk EXCEPT ![d] = "handled"]
          /\ UNCHANGED rows
    /\ UNCHANGED <<vars, op, origin>>

\* Second transaction.
BugWorkerRetries(d) ==
    /\ desk[d] = "created"
    /\ desk' = [desk EXCEPT ![d] = "handled"]
    /\ stage' = [stage EXCEPT ![d][0] = "topic"]
    /\ UNCHANGED <<of, deadLetters, status, gateway, delivered, rows, op, origin>>
BugResetsStatus(d) ==
    /\ desk[d] = "created"
    /\ desk' = [desk EXCEPT ![d] = "handled"]
    /\ status' = [status EXCEPT ![of[d]] = "PENDING"]
    /\ UNCHANGED <<of, stage, deadLetters, gateway, delivered, rows, op, origin>>
LogFailed(d) ==
    /\ desk[d] = "created"
    /\ SetStatus(of[d], "FAILED")
    /\ desk' = [desk EXCEPT ![d] = "handled"]
    /\ UNCHANGED <<of, stage, deadLetters, gateway, delivered, rows, op, origin>>

\* kafkajs commits the offset after the handler has returned.
CommitOffset(d) ==
    /\ desk[d] = "handled"
    /\ desk' = [desk EXCEPT ![d] = "committed"]
    /\ UNCHANGED <<vars, rows, op, origin>>

\* The gateway stored the dead letter again: its copy is the next to be consumed.
ResendDeadLetter(d) ==
    /\ "resend" \in Faults
    /\ desk[d] = "committed"
    /\ rows[<<d, MaxCopies>>] = "none"
    /\ desk' = [desk EXCEPT ![d] = "unread"]
    /\ UNCHANGED <<vars, rows, op, origin>>

\* The copy of a message carries the payload of the same row.
ResendDispatch(d, e, c) ==
    /\ Resend(d, e, c)
    /\ origin' = [origin EXCEPT ![e] = origin[d]]
    /\ UNCHANGED <<desk, rows, op>>

\* The worker dies: dead letters not committed are consumed again, the requests
\* of operators are gone.
WorkerCrash ==
    /\ "worker" \in Faults
    /\ \A d \in Dispatches : desk[d] \in {"created", "handled"} => rows[<<d, MaxCopies>>] = "none"
    /\ desk' = [d \in Dispatches |->
                   IF desk[d] \in {"created", "handled"} THEN "unread" ELSE desk[d]]
    /\ op' = [o \in Operators |-> Idle]
    /\ UNCHANGED <<vars, rows, origin>>

-----------------------------------------------------------------------------
(* The operators' endpoints *)

\* retryNotification and the tenant's retry read the row, whatever its flag.
RetryNotification(o, r) ==
    /\ op[o] = Idle
    /\ rows[r] \in Present
    /\ op' = [op EXCEPT ![o].todo = {r}]
    /\ UNCHANGED <<vars, desk, rows, origin>>

\* retryAll reads the rows whose permanently_failed is set.
RetryAll(o) ==
    /\ op[o] = Idle
    /\ \E r \in Rows : rows[r] = "failed"
    /\ op' = [op EXCEPT ![o].kind = "all", ![o].todo = {r \in Rows : rows[r] = "failed"}]
    /\ UNCHANGED <<vars, desk, rows, origin>>

\* kafkaClient.emit is not awaited: if it fails nobody notices.
BugUpdatesWithoutEmit(o, r, d) ==
    /\ op[o].row = None
    /\ r \in op[o].todo
    /\ of[d] = None
    /\ op' = [op EXCEPT ![o].row = r, ![o].todo = @ \ {r}]
    /\ UNCHANGED <<vars, desk, rows, origin>>
EmitDispatch(o, r, d) ==
    /\ op[o].row = None
    /\ r \in op[o].todo
    /\ op' = [op EXCEPT ![o].row = r, ![o].todo = @ \ {r}]
    /\ \/ /\ Publish(of[r[1]], d, 0)
          /\ origin' = [origin EXCEPT ![d] = r]
       \/ "publish" \in Faults /\ UNCHANGED <<of, stage, origin>>
    /\ UNCHANGED <<deadLetters, status, gateway, delivered, desk, rows>>

BugForgetsRow(o) ==
    /\ op[o].row # None
    /\ IF op[o].kind = "one" THEN status' = [status EXCEPT ![of[op[o].row[1]]] = "RETRYING"]
                             ELSE UNCHANGED status
    /\ op' = [op EXCEPT ![o] = IF @.todo = {} THEN Idle ELSE [@ EXCEPT !.row = None]]
    /\ UNCHANGED <<of, stage, deadLetters, gateway, delivered, desk, rows, origin>>
\* The transaction after the emit.  Only a single retry updates the log row.  A
\* purged row makes it throw, and the request ends.
UpdateRow(o) ==
    /\ op[o].row # None
    /\ \/ /\ rows[op[o].row] \in Present
          /\ rows' = [rows EXCEPT ![op[o].row] = "retried"]
          /\ IF op[o].kind = "one" THEN status' = [status EXCEPT ![of[op[o].row[1]]] = "RETRYING"]
                                   ELSE UNCHANGED status
          /\ op' = [op EXCEPT ![o] = IF @.todo = {} THEN Idle ELSE [@ EXCEPT !.row = None]]
       \/ /\ rows[op[o].row] \notin Present \/ "postgres" \in Faults
          /\ op' = [op EXCEPT ![o] = Idle]
          /\ UNCHANGED <<rows, status>>
    /\ UNCHANGED <<of, stage, deadLetters, gateway, delivered, desk, origin>>

PurgeNotification(r) ==
    /\ rows[r] \in Present
    /\ rows' = [rows EXCEPT ![r] = "purged"]
    /\ UNCHANGED <<vars, desk, op, origin>>

-----------------------------------------------------------------------------
HandleDeadLetter(d) ==
    \/ CreateFailedNotification(d)
    \/ LogFailed(d)
    \/ CommitOffset(d)

Operator(o) ==
    \/ RetryAll(o)
    \/ UpdateRow(o)
    \/ \E r \in Rows : RetryNotification(o, r) \/ \E d \in Dispatches : EmitDispatch(o, r, d)

DLQNext ==
    \/ (Gateway \/ Router) /\ UNCHANGED deskVars
    \/ \E d, e \in Dispatches, c \in Counts : ResendDispatch(d, e, c)
    \/ \E d \in Dispatches : ResendDeadLetter(d)
    \/ \E d \in Dispatches : HandleDeadLetter(d)
    \/ WorkerCrash
    \/ \E o \in Operators : Operator(o)
    \/ Operators # {} /\ \E r \in Rows : PurgeNotification(r)

DLQSpec == DLQInit /\ [][DLQNext]_allVars

\* As in GatewayDelivery; the worker consumes what the topic holds.
DLQFairness ==
    /\ \A d \in Dispatches :
        /\ WF_allVars(ReadDispatch(d) /\ UNCHANGED deskVars)
        /\ \A c \in Counts : WF_allVars(Attempt(d, c) /\ UNCHANGED deskVars)
        /\ WF_allVars(HandleDeadLetter(d))

DLQFairSpec == DLQSpec /\ DLQFairness

-----------------------------------------------------------------------------
(* Properties *)

\* Re-dispatch and bookkeeping agree: a row marked as retried has been
\* dispatched again, and a row dispatched again is marked, purged, or in the
\* hands of the request that will mark it (admin/dlq.controller.ts:116-231).
RetryIsRecorded ==
    /\ \A r \in Rows : rows[r] = "retried" => \E d \in Dispatches : origin[d] = r
    /\ \A d \in Dispatches : origin[d] # None =>
          \/ rows[origin[d]] \in {"retried", "purged"}
          \/ \E o \in Operators : op[o].row = origin[d]

\* No attempt, letter or request of notification n is in progress or about to write.
Settled(n) ==
    /\ \A d \in Dispatches : of[d] = n =>
          /\ ~InProgress(d)
          /\ \A c \in Counts : stage[d][c] \notin LogStatus
          /\ d \in deadLetters => desk[d] \in {"handled", "committed"}
    /\ \A o \in Operators : op[o] = Idle

Ending(n) ==
    IF n \in Malformed THEN "PENDING"
    ELSE IF \E d \in Dispatches : of[d] = n /\ Delivered(d) THEN "SENT" ELSE "FAILED"

\* Gateway and worker both write the log row, each from goroutines and handlers of
\* its own: when all of them have ended, the row of a notification shows how it
\* ended, SENT if a provider accepted it, FAILED if not, and for ever PENDING if the
\* gateway could not read its message (main.go:130-139, 253-281, 344-383,
\* notification.controller.ts:420-446).
StatusShowsOutcome ==
    \A n \in Notifications \ RealTime :
        status[n] # "none" /\ Settled(n) => status[n] = Ending(n)

\* Operators write it too, after the emit.  What the row then shows instead is the
\* FAILED of an earlier message, or the RETRYING of a single retry that ended after
\* its message had: the row of a notification that nobody retried is right, and only
\* that of an unreadable message stays PENDING (admin/dlq.controller.ts:136-146).
OnlyRetriesMislead ==
    \A n \in Notifications \ RealTime :
        status[n] # "none" /\ Settled(n) /\ status[n] # Ending(n) =>
            \E d \in Dispatches :
                /\ of[d] = n
                /\ origin[d] # None
                /\ \/ status[n] = "FAILED"
                   \/ status[n] = "RETRYING" /\ rows[origin[d]] \in {"retried", "purged"}

\* Every message the gateway can read is delivered in the end, or an operator sees it
\* in failed_notifications.  A realtime message is not seen there: channel_enum has no
\* REALTIME, so its dead letter is all that is left of it (main.go:118-281,
\* notification.controller.ts:397-445).
EveryMessageIsAccountedFor ==
    \A d \in Dispatches :
        of[d] # None /\ of[d] \notin Malformed
            ~> \/ Delivered(d)
               \/ \E k \in 1 .. MaxCopies : rows[<<d, k>>] # "none"
               \/ of[d] \in RealTime /\ d \in deadLetters

=============================================================================
