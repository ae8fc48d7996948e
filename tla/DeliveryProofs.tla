---------------------------- MODULE DeliveryProofs ----------------------------
(***************************************************************************)
(* Machine-checked facts about GatewayDelivery, alone and composed with    *)
(* DeadLetterQueue, for every set of messages and notifications, every     *)
(* number of retries and every set of faults.                              *)
(*                                                                         *)
(* What the gateway promises does not depend on who publishes messages and *)
(* writes log rows beside it.  Its invariants are therefore proved of the  *)
(* action Step, a gateway in any such company; the router alone (Next) and *)
(* the router with the dead letter consumer and the operators (DLQNext),   *)
(* both with producers that resend, are two instances.                     *)
(***************************************************************************)
EXTENDS DeadLetterQueue, TLAPS

USE RealTimeAssumption, MalformedAssumption, MaxRetriesAssumption, FaultsAssumption, NoneAssumption

-----------------------------------------------------------------------------
(* The gateway in any company *)

StatusValues == LogStatus \cup {"none", "PENDING"}

\* Somebody publishes a message for notification n, or resends the one of its retry
\* count c.
Published(n, d, c) ==
    /\ Publish(n, d, c)
    /\ n \in Malformed => c = 0
    /\ status' \in [Notifications -> StatusValues]
    /\ UNCHANGED <<deadLetters, gateway, delivered>>

\* Somebody else writes a log row.
RowWritten ==
    /\ status' \in [Notifications -> StatusValues]
    /\ UNCHANGED <<of, stage, deadLetters, gateway, delivered>>

Step ==
    \/ Gateway
    \/ RowWritten
    \/ \E n \in Notifications, d \in Dispatches, c \in 0 .. MaxRetries : Published(n, d, c)

-----------------------------------------------------------------------------
(* Types *)

\* The initial state has the types.
LEMMA TypeInit == Init => TypeOK
  BY DEF Init, TypeOK, Stage, Running, Trying, LogStatus, Attempts, Counts

\* No step of the gateway, and nothing beside it, breaks the types.
LEMMA TypeStep == TypeOK /\ [Step]_vars => TypeOK'
<1> USE DEF TypeOK, Stage, Running, Trying, LogStatus, Attempts, Counts
<1> SUFFICES ASSUME TypeOK, [Step]_vars PROVE TypeOK'
  OBVIOUS
<1> USE DEF Move
<1>1. ASSUME NEW n \in Notifications, NEW d \in Dispatches, NEW c \in 0 .. MaxRetries,
             Published(n, d, c)
      PROVE  TypeOK'
  BY <1>1 DEF Published, Publish, StatusValues
<1>2. ASSUME NEW d \in Dispatches, ReadDispatch(d) PROVE TypeOK'
  <2>1. PICK s \in Stage : Move(d, 0, s)
    BY <1>2 DEF ReadDispatch
  <2>2. QED
    BY <1>2, <2>1 DEF ReadDispatch
<1>3. ASSUME NEW d \in Dispatches, NEW c \in Counts, ReadRetry(d, c) \/ Wake(d, c)
      PROVE  TypeOK'
  <2>1. PICK s \in Stage : Move(d, c, s)
    BY <1>3 DEF ReadRetry, Wake
  <2>2. QED
    BY <1>3, <2>1 DEF ReadRetry, Wake
<1>4. ASSUME NEW d \in Dispatches, NEW c \in Counts, HydrateProviderConfig(d, c)
      PROVE  TypeOK'
  <2>1. PICK s \in Stage : Move(d, c, s)
    BY <1>4 DEF HydrateProviderConfig
  <2>2. QED
    BY <1>4, <2>1 DEF HydrateProviderConfig
<1>5. ASSUME NEW d \in Dispatches, NEW c \in Counts, Send(d, c) PROVE TypeOK'
  <2>1. PICK s \in Stage : Move(d, c, s)
    BY <1>5 DEF Send, Succeed, FailRetryably, FailPermanently, AfterRetryableError
  <2>2. delivered' \subseteq Attempts
    BY <1>5 DEF Send, Succeed, FailRetryably, FailPermanently
  <2>3. QED
    BY <1>5, <2>1, <2>2 DEF Send
<1>6. ASSUME NEW d \in Dispatches, NEW c \in Counts, PublishToRetry(d, c) PROVE TypeOK'
  <2>1. stage' \in [Dispatches -> [Counts -> Stage]]
    <3>1. CASE Move(d, c, "RETRYING")
      BY <3>1
    <3>2. CASE stage' = [stage EXCEPT ![d][c] = "RETRYING", ![d][c + 1] = "topic"]
      BY <3>2
    <3>3. QED
      BY <1>6, <3>1, <3>2 DEF PublishToRetry
  <2>2. QED
    BY <1>6, <2>1 DEF PublishToRetry
<1>7. ASSUME NEW d \in Dispatches, NEW c \in Counts, PublishToDLQ(d, c) PROVE TypeOK'
  BY <1>7 DEF PublishToDLQ
<1>8. ASSUME NEW d \in Dispatches, NEW c \in Counts, UpdateAuditLog(d, c) PROVE TypeOK'
  BY <1>8 DEF UpdateAuditLog, SetStatus
<1>9. ASSUME Shutdown \/ Exit \/ Restart PROVE TypeOK'
  BY <1>9 DEF Shutdown, Exit, Restart, WhereLeft
<1>10. CASE UNCHANGED vars
  BY <1>10 DEF vars
<1>11. CASE RowWritten
  BY <1>11 DEF RowWritten, StatusValues
<1>12. QED
  BY <1>1, <1>2, <1>3, <1>4, <1>5, <1>6, <1>7, <1>8, <1>9, <1>10, <1>11
     DEF Step, Gateway, Attempt, ProcessWithAdapters

-----------------------------------------------------------------------------
(* The chain of attempts *)

Waiting == {"topic", "asleep"}

\* Why RetriesInOrder holds: only an attempt whose answer was retryable creates
\* the next one, while none after it exists and no dead letter has been written.
ChainInv ==
    /\ \A d \in Dispatches, c \in Counts : stage[d][c] # "none" =>
        /\ of[d] # None
        /\ c <= MaxRetries
        /\ \A b \in Counts : b < c => stage[d][b] \in {"RETRYING", "done", "lost"}
        /\ stage[d][c] = "retry" => c < MaxRetries
        /\ d \in deadLetters => stage[d][c] \notin Trying \cup Waiting
        /\ of[d] \in Malformed => c = 0 /\ stage[d][c] \in {"topic", "lost"}
    /\ \A d \in deadLetters : of[d] # None

\* What is resent was published, with a count the gateway uses.
LEMMA ResentIsPublished ==
    ASSUME TypeOK, ChainInv, NEW d \in Dispatches, NEW e \in Dispatches, NEW c \in Counts,
           Resend(d, e, c)
    PROVE  c \in 0 .. MaxRetries /\ of[d] \in Notifications /\ Published(of[d], e, c)
<1>1. /\ c \in 0 .. MaxRetries /\ of[d] \in Notifications
      /\ of[d] \in Malformed => c = 0
  BY DEF Resend, ChainInv, TypeOK, Counts
<1>2. status' \in [Notifications -> StatusValues]
  BY DEF Resend, TypeOK, StatusValues
<1>3. QED
  BY <1>1, <1>2 DEF Resend, Published

\* To the gateway, the router is one that publishes and writes log rows.
LEMMA NextIsStep == TypeOK /\ ChainInv /\ [Next]_vars => [Step]_vars
<1> SUFFICES ASSUME TypeOK, ChainInv, Next PROVE Step
  OBVIOUS
<1>1. ASSUME NEW n \in Notifications, NEW d \in Dispatches, Dispatch(n, d) PROVE Step
  <2>1. status' \in [Notifications -> StatusValues]
    BY <1>1 DEF Dispatch, TypeOK, StatusValues
  <2>2. Published(n, d, 0)
    BY <1>1, <2>1 DEF Dispatch, Published
  <2>3. QED
    BY <2>2 DEF Step
<1>2. ASSUME NEW d \in Dispatches, NEW e \in Dispatches, NEW c \in Counts, Resend(d, e, c)
      PROVE  Step
  BY <1>2, ResentIsPublished DEF Step
<1>3. QED
  BY <1>1, <1>2 DEF Next, Router, Step

\* A step that moves one existing attempt forward keeps the chain.
LEMMA ChainMove ==
    ASSUME TypeOK, ChainInv,
           NEW d \in Dispatches, NEW c \in Counts, NEW s \in Stage \ {"none"},
           stage[d][c] \in Trying \cup Waiting \cup LogStatus,
           stage[d][c] \in LogStatus => s = "done",
           s = "retry" => c < MaxRetries,
           of[d] \in Malformed => s = "lost",
           Move(d, c, s), UNCHANGED <<of, deadLetters>>
    PROVE  ChainInv'
<1> USE DEF TypeOK, ChainInv, Move, Stage, Running, Trying, Waiting, LogStatus
<1>1. ASSUME NEW e \in Dispatches, NEW k \in Counts
      PROVE  stage[e][k]' = IF e = d /\ k = c THEN s ELSE stage[e][k]
  OBVIOUS
<1>2. QED
  BY <1>1 DEF Counts

\* No step of the gateway or beside it breaks the chain of attempts.
LEMMA ChainStep == TypeOK /\ ChainInv /\ [Step]_vars => ChainInv'
<1> SUFFICES ASSUME TypeOK, ChainInv, [Step]_vars PROVE ChainInv'
  OBVIOUS
<1> USE DEF Stage, Running, Trying, Waiting, LogStatus
<1>1. ASSUME NEW n \in Notifications, NEW d \in Dispatches, NEW c \in 0 .. MaxRetries,
             Published(n, d, c)
      PROVE  ChainInv'
  <2>1. ASSUME NEW e \in Dispatches, NEW k \in Counts
        PROVE  stage[e][k]' = IF e # d THEN stage[e][k]
                              ELSE IF k < c THEN "done" ELSE IF k = c THEN "topic" ELSE "none"
    BY <1>1 DEF Published, Publish, TypeOK
  <2>2. /\ of[d] = None /\ of' = [of EXCEPT ![d] = n] /\ UNCHANGED deadLetters
        /\ n \in Malformed => c = 0
    BY <1>1 DEF Published, Publish
  <2>3. d \notin deadLetters
    BY <2>2 DEF ChainInv
  <2>4. QED
    BY <2>1, <2>2, <2>3 DEF ChainInv, TypeOK, Counts
<1>2. ASSUME NEW d \in Dispatches, ReadDispatch(d) PROVE ChainInv'
  BY <1>2, ChainMove DEF ReadDispatch, Counts
<1>3. ASSUME NEW d \in Dispatches, NEW c \in Counts, ReadRetry(d, c) \/ Wake(d, c)
      PROVE  ChainInv'
  <2>1. of[d] \notin Malformed
    BY <1>3 DEF ReadRetry, Wake, ChainInv
  <2>2. QED
    BY <1>3, <2>1, ChainMove DEF ReadRetry, Wake
<1>4. ASSUME NEW d \in Dispatches, NEW c \in Counts, HydrateProviderConfig(d, c)
      PROVE  ChainInv'
  <2>1. of[d] \notin Malformed
    BY <1>4 DEF HydrateProviderConfig, ChainInv
  <2>2. QED
    BY <1>4, <2>1, ChainMove DEF HydrateProviderConfig
<1>5. ASSUME NEW d \in Dispatches, NEW c \in Counts, Send(d, c) PROVE ChainInv'
  <2>1. PICK s \in Stage \ {"none"} : Move(d, c, s) /\ (s = "retry" => c < MaxRetries)
    BY <1>5 DEF Send, Succeed, FailRetryably, FailPermanently, AfterRetryableError
  <2>2. of[d] \notin Malformed
    BY <1>5 DEF Send, ChainInv
  <2>3. QED
    BY <1>5, <2>1, <2>2, ChainMove DEF Send
<1>6. ASSUME NEW d \in Dispatches, NEW c \in Counts, PublishToRetry(d, c) PROVE ChainInv'
  <2>0. of[d] \notin Malformed
    BY <1>6 DEF PublishToRetry, ChainInv
  <2>1. CASE Move(d, c, "RETRYING")
    BY <1>6, <2>0, <2>1, ChainMove DEF PublishToRetry
  <2>2. CASE stage' = [stage EXCEPT ![d][c] = "RETRYING", ![d][c + 1] = "topic"]
    <3>1. stage[d][c] = "retry" /\ UNCHANGED <<of, deadLetters>>
      BY <1>6 DEF PublishToRetry
    <3>2. c < MaxRetries /\ c + 1 \in Counts
      BY <3>1 DEF ChainInv, Counts
    <3>3. \A k \in Counts : k > c => stage[d][k] = "none"
      BY <3>1 DEF ChainInv
    <3>4. ASSUME NEW e \in Dispatches, NEW k \in Counts
          PROVE  stage[e][k]' = IF e = d /\ k = c THEN "RETRYING"
                                ELSE IF e = d /\ k = c + 1 THEN "topic" ELSE stage[e][k]
      BY <2>2, <3>2 DEF TypeOK, Attempts, Counts
    <3>5. QED
      BY <2>0, <3>1, <3>2, <3>3, <3>4 DEF ChainInv, Counts
  <2>3. QED
    BY <1>6, <2>1, <2>2 DEF PublishToRetry
<1>7. ASSUME NEW d \in Dispatches, NEW c \in Counts, PublishToDLQ(d, c) PROVE ChainInv'
  <2>1. stage[d][c] = "dlq" /\ UNCHANGED of /\ deadLetters' \in {deadLetters, deadLetters \cup {d}}
    BY <1>7 DEF PublishToDLQ
  <2>2. ASSUME NEW e \in Dispatches, NEW k \in Counts
        PROVE  stage[e][k]' = IF e = d /\ k = c THEN "FAILED" ELSE stage[e][k]
    BY <1>7 DEF PublishToDLQ, Move, TypeOK
  <2>3. \A k \in Counts : k # c => stage[d][k] \in {"none", "RETRYING", "done", "lost"}
    BY <2>1 DEF ChainInv, Counts
  <2>4. of[d] \notin Malformed
    BY <2>1 DEF ChainInv
  <2>5. QED
    BY <2>1, <2>2, <2>3, <2>4 DEF ChainInv, Counts
<1>8. ASSUME NEW d \in Dispatches, NEW c \in Counts, UpdateAuditLog(d, c) PROVE ChainInv'
  <2>1. of[d] \notin Malformed
    BY <1>8 DEF UpdateAuditLog, ChainInv
  <2>2. QED
    BY <1>8, <2>1, ChainMove DEF UpdateAuditLog
<1>9. ASSUME Exit PROVE ChainInv'
  <2>1. ASSUME NEW e \in Dispatches, NEW k \in Counts
        PROVE  stage[e][k]' = WhereLeft(stage[e][k])
    BY <1>9 DEF Exit
  <2>2. QED
    BY <1>9, <2>1 DEF Exit, ChainInv, WhereLeft
<1>10. CASE Shutdown \/ Restart \/ RowWritten \/ UNCHANGED vars
  BY <1>10 DEF Shutdown, Restart, RowWritten, vars, ChainInv
<1>11. QED
  BY <1>1, <1>2, <1>3, <1>4, <1>5, <1>6, <1>7, <1>8, <1>9, <1>10
     DEF Step, Gateway, Attempt, ProcessWithAdapters

-----------------------------------------------------------------------------
(* At most one delivery *)

\* Why DeliveredOnce holds: an attempt that delivered is past its answer, none
\* follows it, and its message is no dead letter.
DeliveryInv ==
    "ambiguous" \notin Faults =>
        \A d \in Dispatches, c \in Counts : <<d, c>> \in delivered =>
            /\ stage[d][c] \in {"SENT", "done", "lost"}
            /\ \A k \in Counts : k > c => stage[d][k] = "none"
            /\ d \notin deadLetters

\* A message has at most one attempt that is not past its answer, and no
\* delivered one beside it.
LEMMA NothingBeside ==
    ASSUME TypeOK, ChainInv, DeliveryInv, "ambiguous" \notin Faults,
           NEW d \in Dispatches, NEW c \in Counts, stage[d][c] \in Trying \cup Waiting
    PROVE  /\ \A k \in Counts : <<d, k>> \notin delivered
           /\ \A k \in Counts : k > c => stage[d][k] = "none"
BY DEF TypeOK, ChainInv, DeliveryInv, Trying, Waiting, Counts

\* No step breaks DeliveryInv, crashes and restarts included.
LEMMA DeliveryStep == TypeOK /\ ChainInv /\ DeliveryInv /\ [Step]_vars => DeliveryInv'
<1> SUFFICES ASSUME TypeOK, ChainInv, DeliveryInv, [Step]_vars, "ambiguous" \notin Faults
             PROVE  DeliveryInv'
  BY DEF DeliveryInv
<1> USE DEF Trying, Waiting, LogStatus
<1>1. ASSUME NEW n \in Notifications, NEW d \in Dispatches, NEW c \in 0 .. MaxRetries,
             Published(n, d, c)
      PROVE  DeliveryInv'
  <2>1. \A k \in Counts : stage[d][k] = "none"
    BY <1>1 DEF Published, Publish, ChainInv
  <2>2. \A k \in Counts : <<d, k>> \notin delivered
    BY <2>1 DEF DeliveryInv
  <2>3. QED
    BY <1>1, <2>2 DEF Published, Publish, DeliveryInv, TypeOK
<1>2. ASSUME NEW d \in Dispatches, NEW c \in Counts, NEW s \in Stage,
             stage[d][c] \in Trying \cup Waiting, Move(d, c, s),
             UNCHANGED <<deadLetters, delivered>>
      PROVE  DeliveryInv'
  BY <1>2, NothingBeside DEF Move, DeliveryInv, TypeOK
<1>3. ASSUME NEW d \in Dispatches, ReadDispatch(d) PROVE DeliveryInv'
  BY <1>2, <1>3 DEF ReadDispatch, Stage, Running, Counts
<1>4. ASSUME NEW d \in Dispatches, NEW c \in Counts,
             ReadRetry(d, c) \/ Wake(d, c) \/ HydrateProviderConfig(d, c)
      PROVE  DeliveryInv'
  BY <1>2, <1>4 DEF ReadRetry, Wake, HydrateProviderConfig, Stage, Running
<1>5. ASSUME NEW d \in Dispatches, NEW c \in Counts, Send(d, c) PROVE DeliveryInv'
  <2>1. CASE Succeed(d, c)
    <3>1. d \notin deadLetters /\ UNCHANGED deadLetters
      BY <1>5 DEF Send, ChainInv
    <3>2. \A k \in Counts : k > c => stage[d][k] = "none"
      BY <1>5, NothingBeside DEF Send
    <3>3. \A k \in Counts : <<d, k>> \notin delivered
      BY <1>5, NothingBeside DEF Send
    <3>4. QED
      BY <2>1, <3>1, <3>2, <3>3 DEF Succeed, Move, DeliveryInv, TypeOK, Counts
  <2>2. CASE FailRetryably(d, c) \/ FailPermanently(d, c)
    BY <1>2, <1>5, <2>2 DEF Send, FailRetryably, FailPermanently, AfterRetryableError,
                            Stage, Running
  <2>3. QED
    BY <1>5, <2>1, <2>2 DEF Send
<1>6. ASSUME NEW d \in Dispatches, NEW c \in Counts, PublishToRetry(d, c)
      PROVE  DeliveryInv'
  <2>1. \A k \in Counts : <<d, k>> \notin delivered
    BY <1>6, NothingBeside DEF PublishToRetry
  <2>2. \A e \in Dispatches : e # d => stage'[e] = stage[e]
    BY <1>6 DEF PublishToRetry, Move, TypeOK
  <2>3. UNCHANGED <<deadLetters, delivered>>
    BY <1>6 DEF PublishToRetry
  <2>4. QED
    BY <2>1, <2>2, <2>3 DEF DeliveryInv
<1>7. ASSUME NEW d \in Dispatches, NEW c \in Counts, PublishToDLQ(d, c)
      PROVE  DeliveryInv'
  <2>1. \A k \in Counts : <<d, k>> \notin delivered
    BY <1>7, NothingBeside DEF PublishToDLQ
  <2>2. QED
    BY <1>7, <2>1 DEF PublishToDLQ, Move, DeliveryInv, TypeOK
<1>8. ASSUME NEW d \in Dispatches, NEW c \in Counts, UpdateAuditLog(d, c)
      PROVE  DeliveryInv'
  BY <1>8 DEF UpdateAuditLog, Move, DeliveryInv, TypeOK
<1>9. ASSUME Exit PROVE DeliveryInv'
  BY <1>9 DEF Exit, WhereLeft, DeliveryInv, Running
<1>10. CASE Shutdown \/ Restart \/ RowWritten \/ UNCHANGED vars
  BY <1>10 DEF Shutdown, Restart, RowWritten, vars, DeliveryInv
<1>11. QED
  BY <1>1, <1>3, <1>4, <1>5, <1>6, <1>7, <1>8, <1>9, <1>10
     DEF Step, Gateway, Attempt, ProcessWithAdapters

\* The invariants say what DeliveredOnce does.
LEMMA OneDelivery == TypeOK /\ ChainInv /\ DeliveryInv => DeliveredOnce
<1> SUFFICES ASSUME TypeOK, ChainInv, DeliveryInv, "ambiguous" \notin Faults,
                    NEW d \in Dispatches, NEW c \in Counts, <<d, c>> \in delivered
             PROVE  /\ \A k \in Counts : <<d, k>> \in delivered => k = c
                    /\ ~InProgress(d)
                    /\ d \notin deadLetters
  BY DEF DeliveredOnce, TypeOK, Attempts
<1>1. \A k \in Counts : <<d, k>> \in delivered => k = c
  BY DEF DeliveryInv, Counts
<1>2. ~InProgress(d)
  BY NothingBeside DEF InProgress, Waiting
<1>3. QED
  BY <1>1, <1>2 DEF DeliveryInv

-----------------------------------------------------------------------------
(* Nothing is lost *)

\* A gateway that is never stopped keeps each message in one of its places.
KeptInv == ~Unreliable => gateway = "up" /\ NothingLost

\* While the gateway runs and Kafka accepts its writes, a message taken from the
\* topic is in progress, delivered, a dead letter or unreadable (NothingLost).
LEMMA KeptStep == TypeOK /\ ChainInv /\ KeptInv /\ [Step]_vars => KeptInv'
<1> USE DEF InProgress, Delivered
<1> SUFFICES ASSUME TypeOK, ChainInv, KeptInv, [Step]_vars, ~Unreliable PROVE KeptInv'
  BY DEF KeptInv, Unreliable
<1>a. /\ "crash" \notin Faults /\ "shutdown" \notin Faults /\ "publish" \notin Faults
      /\ ~CommitFails
  BY DEF Unreliable, CommitFails
<1> DEFINE Place(d) == InProgress(d) \/ Delivered(d) \/ d \in deadLetters \/ of[d] \in Malformed
<1>0. ASSUME NEW d \in Dispatches, UNCHANGED <<of, gateway>>,
             \A e \in Dispatches : e # d => stage'[e] = stage[e],
             deadLetters \subseteq deadLetters', delivered \subseteq delivered',
             of[d] # None => Place(d)'
      PROVE  KeptInv'
  BY <1>0 DEF KeptInv, NothingLost
<1>1. ASSUME NEW n \in Notifications, NEW d \in Dispatches, NEW c \in 0 .. MaxRetries,
             Published(n, d, c)
      PROVE  KeptInv'
  <2>1. stage[d][c]' = "topic" /\ c \in Counts
    BY <1>1 DEF Published, Publish, TypeOK, Counts
  <2>2. \A e \in Dispatches : e # d => stage'[e] = stage[e] /\ of'[e] = of[e]
    BY <1>1 DEF Published, Publish, TypeOK
  <2>3. QED
    BY <1>1, <2>1, <2>2 DEF Published, Publish, KeptInv, NothingLost
<1>2. ASSUME NEW d \in Dispatches, NEW c \in Counts,
             NEW s \in Trying \cup Waiting, Move(d, c, s),
             UNCHANGED <<of, deadLetters, gateway>>, delivered \subseteq delivered'
      PROVE  KeptInv'
  <2>1. stage[d][c]' = s
    BY <1>2 DEF Move, TypeOK
  <2>2. QED
    BY <1>0, <1>2, <2>1 DEF Move, TypeOK, Trying, Waiting
<1>3. ASSUME NEW d \in Dispatches, ReadDispatch(d) PROVE KeptInv'
  <2>1. CASE of[d] \in Malformed
    BY <1>0, <1>3, <2>1 DEF ReadDispatch, Move, TypeOK
  <2>2. CASE of[d] \notin Malformed
    BY <1>2, <1>3, <1>a, <2>2 DEF ReadDispatch, Trying, Waiting, Counts
  <2>3. QED
    BY <2>1, <2>2
<1>4. ASSUME NEW d \in Dispatches, NEW c \in Counts,
             ReadRetry(d, c) \/ Wake(d, c) \/ HydrateProviderConfig(d, c)
      PROVE  KeptInv'
  BY <1>2, <1>4, <1>a DEF ReadRetry, Wake, HydrateProviderConfig, Trying, Waiting
<1>5. ASSUME NEW d \in Dispatches, NEW c \in Counts, Send(d, c) PROVE KeptInv'
  <2>1. CASE Succeed(d, c)
    BY <1>0, <1>5, <2>1 DEF Send, Succeed, Move, TypeOK
  <2>2. CASE FailRetryably(d, c) \/ FailPermanently(d, c)
    BY <1>2, <1>5, <2>2
       DEF Send, FailRetryably, FailPermanently, AfterRetryableError, Trying, Waiting
  <2>3. QED
    BY <1>5, <2>1, <2>2 DEF Send
<1>6. ASSUME NEW d \in Dispatches, NEW c \in Counts, PublishToRetry(d, c) PROVE KeptInv'
  <2>1. c + 1 \in Counts
    BY <1>6 DEF PublishToRetry, ChainInv, Counts
  <2>2. stage[d][c + 1]' = "topic"
    BY <1>6, <1>a, <2>1 DEF PublishToRetry, TypeOK
  <2>3. \A e \in Dispatches : e # d => stage'[e] = stage[e]
    BY <1>6, <1>a DEF PublishToRetry, TypeOK
  <2>4. UNCHANGED <<of, gateway, deadLetters, delivered>>
    BY <1>6 DEF PublishToRetry
  <2>5. QED
    BY <1>0, <2>1, <2>2, <2>3, <2>4
<1>7. ASSUME NEW d \in Dispatches, NEW c \in Counts, PublishToDLQ(d, c) PROVE KeptInv'
  BY <1>0, <1>7, <1>a DEF PublishToDLQ, Move, TypeOK
<1>8. ASSUME NEW d \in Dispatches, NEW c \in Counts, UpdateAuditLog(d, c) PROVE KeptInv'
  <2>1. \A k \in Counts : stage[d][k] \in Trying \cup Waiting => stage[d][k]' = stage[d][k]
    BY <1>8 DEF UpdateAuditLog, Move, TypeOK, LogStatus, Trying, Waiting
  <2>2. of[d] # None => Place(d)'
    BY <1>8, <2>1 DEF UpdateAuditLog, KeptInv, NothingLost, Trying, Waiting
  <2>3. QED
    BY <1>0, <1>8, <2>2 DEF UpdateAuditLog, Move, TypeOK
<1>9. ~Shutdown /\ ~Exit /\ ~Restart
  BY <1>a DEF Shutdown, Exit, Restart, KeptInv
<1>10. CASE RowWritten \/ UNCHANGED vars
  BY <1>10 DEF RowWritten, vars, KeptInv, NothingLost
<1>11. QED
  BY <1>1, <1>3, <1>4, <1>5, <1>6, <1>7, <1>8, <1>9, <1>10
     DEF Step, Gateway, Attempt, ProcessWithAdapters

-----------------------------------------------------------------------------
(* The gateway's inductive invariant *)

\* Only a gateway told to stop is draining.
DrainInv == gateway = "draining" => "shutdown" \in Faults

\* Only what was dispatched, and can be read, is delivered or given up.
SourceInv ==
    /\ \A d \in Dispatches, c \in Counts :
          <<d, c>> \in delivered => of[d] # None /\ of[d] \notin Malformed
    /\ \A d \in deadLetters : of[d] # None /\ of[d] \notin Malformed

\* DrainInv holds: only Shutdown starts a drain.
LEMMA DrainStep == DrainInv /\ [Step]_vars => DrainInv'
BY DEF DrainInv, Step, RowWritten, vars, Gateway, Published, ReadDispatch, Attempt, ReadRetry, Wake,
       ProcessWithAdapters, HydrateProviderConfig, Send, PublishToRetry, PublishToDLQ,
       UpdateAuditLog, Shutdown, Exit, Restart

\* SourceInv holds: Send is the only step that delivers and PublishToDLQ the only one
\* that gives up, and their message is one that was read, by ChainInv.
LEMMA SourceStep == TypeOK /\ ChainInv /\ SourceInv /\ [Step]_vars => SourceInv'
<1> SUFFICES ASSUME TypeOK, ChainInv, SourceInv, [Step]_vars PROVE SourceInv'
  OBVIOUS
<1>1. ASSUME NEW d \in Dispatches, NEW c \in Counts, Send(d, c) PROVE SourceInv'
  BY <1>1 DEF Send, Succeed, FailRetryably, FailPermanently, ChainInv, SourceInv
<1>2. ASSUME NEW n \in Notifications, NEW d \in Dispatches, NEW c \in 0 .. MaxRetries,
             Published(n, d, c)
      PROVE  SourceInv'
  BY <1>2 DEF Published, Publish, SourceInv, TypeOK
<1>3. CASE UNCHANGED <<of, deadLetters, delivered>>
  BY <1>3 DEF SourceInv
<1>4. ASSUME NEW d \in Dispatches, NEW c \in Counts, PublishToDLQ(d, c) PROVE SourceInv'
  BY <1>4 DEF PublishToDLQ, ChainInv, SourceInv
<1>5. QED
  BY <1>1, <1>2, <1>3, <1>4
     DEF Step, RowWritten, vars, Gateway, ReadDispatch, Attempt, ReadRetry, Wake, ProcessWithAdapters,
         HydrateProviderConfig, PublishToRetry, UpdateAuditLog, Shutdown, Exit, Restart

GatewayInv == TypeOK /\ ChainInv /\ DeliveryInv /\ KeptInv /\ DrainInv /\ SourceInv

\* The initial state satisfies the inductive invariant.
LEMMA GatewayInit == Init => GatewayInv
BY TypeInit DEF GatewayInv, Init, ChainInv, DeliveryInv, KeptInv, NothingLost, DrainInv, SourceInv

\* Every step of the gateway and of its company keeps it.
LEMMA GatewayStep == GatewayInv /\ [Step]_vars => GatewayInv'
BY TypeStep, ChainStep, DeliveryStep, KeptStep, DrainStep, SourceStep DEF GatewayInv

\* What GatewayInv says to the reader.
LEMMA GatewayPromises ==
    GatewayInv => RetriesInOrder /\ DeliveredOnce /\ (~Unreliable => NothingLost)
<1>1. ChainInv => RetriesInOrder
  BY DEF ChainInv, RetriesInOrder, Counts, Waiting, Trying
<1>2. QED
  BY <1>1, OneDelivery DEF GatewayInv, KeptInv

-----------------------------------------------------------------------------
(* The refinement *)

\* What Outcome says of a message one of whose attempts still has its answer to
\* come, and of every other message a step leaves alone.
LEMMA OutcomeInProgress ==
    ASSUME TypeOK, ChainInv, NEW d \in Dispatches, NEW c \in Counts,
           stage[d][c] \in Trying \cup Waiting
    PROVE  Outcome(d) \in {"pending", "delivered"}
BY DEF Outcome, InProgress, ChainInv, Trying, Waiting

\* A message has the outcome it had if its attempts wait or run as they did.
LEMMA OutcomeFrame ==
    ASSUME NEW d \in Dispatches, of[d]' = of[d],
           \A c \in Counts : stage[d][c] \in Trying \cup Waiting <=> stage[d][c]' \in Trying \cup Waiting,
           d \in deadLetters <=> d \in deadLetters',
           \A c \in Counts : <<d, c>> \in delivered <=> <<d, c>> \in delivered'
    PROVE  Outcome(d)' = Outcome(d)
<1>1. InProgress(d)' <=> InProgress(d)
  BY DEF InProgress, Trying, Waiting
<1>2. Delivered(d)' <=> Delivered(d)
  BY DEF Delivered
<1>3. QED
  BY <1>1, <1>2 DEF Outcome

\* The gateway implements DeliveryOutcome, under every fault: a message is
\* delivered, buried or lost once and for all, and lost only if it cannot be read, the
\* gateway is stopped or Kafka refuses a write (ImplementsDeliveryOutcome).
LEMMA OutcomeStep ==
    GatewayInv /\ [Step]_vars => Promise!Next \/ UNCHANGED [d \in Dispatches |-> Outcome(d)]
<1> DEFINE outcome == [d \in Dispatches |-> Outcome(d)]
<1> SUFFICES ASSUME TypeOK, ChainInv, DrainInv, SourceInv, [Step]_vars
             PROVE  Promise!Next \/ UNCHANGED outcome
  BY DEF GatewayInv
<1>0. ASSUME NEW d \in Dispatches,
             \A e \in Dispatches : e # d => Outcome(e)' = Outcome(e),
             \/ Outcome(d)' = Outcome(d)
             \/ Outcome(d) = "unused" /\ Outcome(d)' = "pending"
             \/ Outcome(d) = "pending" /\ Outcome(d)' \in {"delivered", "buried"}
             \/ Lossy /\ Outcome(d) = "pending" /\ Outcome(d)' = "lost"
      PROVE  Promise!Next \/ UNCHANGED outcome
  <2>1. outcome' = [outcome EXCEPT ![d] = Outcome(d)']
    BY <1>0
  <2>2. CASE Lossy /\ Outcome(d) = "pending" /\ Outcome(d)' = "lost"
    <3>1. outcome' = [e \in Dispatches |-> IF e \in {d} THEN "lost" ELSE outcome[e]]
      BY <2>1, <2>2
    <3>2. {d} \in SUBSET {e \in Dispatches : outcome[e] = "pending"}
      BY <2>2
    <3>3. QED
      BY <2>2, <3>1, <3>2 DEF Promise!Next, Promise!Lose
  <2>3. QED
    BY <1>0, <2>1, <2>2 DEF Promise!Next, Promise!Accept, Promise!Deliver, Promise!Bury
<1>1. ASSUME NEW d \in Dispatches,
             \A e \in Dispatches : e # d => stage'[e] = stage[e] /\ of'[e] = of[e],
             deadLetters' \subseteq deadLetters \cup {d}, deadLetters \subseteq deadLetters',
             delivered' \subseteq delivered \cup {<<d, c>> : c \in Counts},
             delivered \subseteq delivered'
      PROVE  \A e \in Dispatches : e # d => Outcome(e)' = Outcome(e)
  BY <1>1, OutcomeFrame
<1>2. ASSUME NEW d \in Dispatches, NEW c \in Counts, NEW s \in Trying \cup Waiting,
             stage[d][c] \in Trying \cup Waiting, Move(d, c, s),
             UNCHANGED <<of, deadLetters>>,
             delivered' \in {delivered, delivered \cup {<<d, c>>}}
      PROVE  Promise!Next \/ UNCHANGED outcome
  <2>1. stage[d][c]' = s /\ \A e \in Dispatches : e # d => stage'[e] = stage[e]
    BY <1>2 DEF Move, TypeOK
  <2>2. InProgress(d)' /\ of[d] # None /\ d \notin deadLetters
    BY <1>2, <2>1 DEF InProgress, ChainInv, Trying, Waiting
  <2>3. Outcome(d)' \in {"pending", "delivered"}
    BY <1>2, <2>2 DEF Outcome
  <2>4. Outcome(d) = "delivered" => Outcome(d)' = "delivered"
    BY <1>2, <2>2 DEF Outcome, Delivered
  <2>5. QED
    BY <1>0, <1>1, <1>2, <2>1, <2>3, <2>4, OutcomeInProgress
<1>3. ASSUME NEW n \in Notifications, NEW d \in Dispatches, NEW c \in 0 .. MaxRetries,
             Published(n, d, c)
      PROVE  Promise!Next \/ UNCHANGED outcome
  <2>1. /\ stage[d][c]' = "topic" /\ c \in Counts /\ of[d]' = n
        /\ \A e \in Dispatches : e # d => stage'[e] = stage[e] /\ of'[e] = of[e]
        /\ UNCHANGED <<deadLetters, delivered>>
    BY <1>3 DEF Published, Publish, TypeOK, Counts
  <2>2. Outcome(d) = "unused"
    BY <1>3 DEF Published, Publish, Outcome
  <2>3. ~Delivered(d)'
    BY <1>3, <2>1 DEF Published, Publish, Delivered, SourceInv
  <2>4. Outcome(d)' = "pending"
    <3>1. InProgress(d)' /\ d \notin deadLetters
      BY <1>3, <2>1 DEF InProgress, Published, Publish, ChainInv
    <3>2. QED
      BY <2>1, <2>3, <3>1 DEF Outcome
  <2>5. QED
    BY <1>0, <1>1, <2>1, <2>2, <2>4
<1>a. ASSUME NEW d \in Dispatches, NEW c \in Counts, stage[d][c] = "topic", Move(d, c, "lost"),
             UNCHANGED <<of, deadLetters, delivered>>, Lossy
      PROVE  Promise!Next \/ UNCHANGED outcome
  <2>1. /\ \A e \in Dispatches : e # d => stage'[e] = stage[e]
        /\ Delivered(d)' <=> Delivered(d)
    BY <1>a DEF Move, TypeOK, Delivered
  <2>2. Outcome(d) \in {"pending", "delivered"}
    BY <1>a, OutcomeInProgress DEF Waiting
  <2>3. Outcome(d) = "delivered" => Outcome(d)' = "delivered"
    BY <1>a, <2>1 DEF Outcome
  <2>4. Outcome(d) = "pending" => Outcome(d)' \in {"pending", "buried", "lost"}
    BY <1>a, <2>1 DEF Outcome
  <2>5. QED
    BY <1>0, <1>1, <1>a, <2>1, <2>2, <2>3, <2>4
<1>4. ASSUME NEW d \in Dispatches, ReadDispatch(d)
      PROVE  Promise!Next \/ UNCHANGED outcome
  <2>1. CASE Move(d, 0, "hydrate")
    BY <1>2, <1>4, <2>1 DEF ReadDispatch, Trying, Waiting, Counts
  <2>2. CASE Move(d, 0, "lost") /\ (of[d] \in Malformed \/ CommitFails)
    BY <1>4, <1>a, <2>2 DEF ReadDispatch, Counts, Lossy, Unreliable, CommitFails
  <2>3. QED
    BY <1>4, <2>1, <2>2 DEF ReadDispatch
<1>5. ASSUME NEW d \in Dispatches, NEW c \in Counts,
             ReadRetry(d, c) \/ Wake(d, c) \/ HydrateProviderConfig(d, c)
      PROVE  Promise!Next \/ UNCHANGED outcome
  <2>1. CASE CommitFails /\ stage[d][c] = "topic" /\ Move(d, c, "lost")
             /\ UNCHANGED <<of, deadLetters, delivered>>
    BY <1>a, <2>1 DEF Lossy, Unreliable, CommitFails
  <2>2. QED
    BY <1>2, <1>5, <2>1 DEF ReadRetry, Wake, HydrateProviderConfig, Trying, Waiting
<1>6. ASSUME NEW d \in Dispatches, NEW c \in Counts, Send(d, c)
      PROVE  Promise!Next \/ UNCHANGED outcome
  <2>1. CASE Succeed(d, c)
    <3>1. /\ \A e \in Dispatches : e # d => stage'[e] = stage[e]
          /\ UNCHANGED <<of, deadLetters>> /\ delivered' = delivered \cup {<<d, c>>}
      BY <1>6, <2>1 DEF Send, Succeed, Move, TypeOK
    <3>2. Outcome(d)' = "delivered"
      <4>1. of[d] # None
        BY <1>6 DEF Send, ChainInv
      <4>2. QED
        BY <3>1, <4>1 DEF Outcome, Delivered
    <3>3. Outcome(d) \in {"pending", "delivered"}
      BY <1>6, OutcomeInProgress DEF Send, Trying
    <3>4. QED
      BY <1>0, <1>1, <3>1, <3>2, <3>3
  <2>2. CASE FailRetryably(d, c) \/ FailPermanently(d, c)
    BY <1>2, <1>6, <2>2
       DEF Send, FailRetryably, FailPermanently, AfterRetryableError, Trying
  <2>3. QED
    BY <1>6, <2>1, <2>2 DEF Send
<1>7. ASSUME NEW d \in Dispatches, NEW c \in Counts, PublishToRetry(d, c) \/ PublishToDLQ(d, c)
      PROVE  Promise!Next \/ UNCHANGED outcome
  <2>1. /\ \A e \in Dispatches : e # d => stage'[e] = stage[e]
        /\ UNCHANGED <<of, delivered>>
        /\ deadLetters' \in {deadLetters, deadLetters \cup {d}}
    BY <1>7 DEF PublishToRetry, PublishToDLQ, Move, TypeOK
  <2>2. Outcome(d) \in {"pending", "delivered"}
    BY <1>7, OutcomeInProgress DEF PublishToRetry, PublishToDLQ, Trying
  <2>3. of[d] # None
    BY <1>7 DEF PublishToRetry, PublishToDLQ, ChainInv
  <2>4. Outcome(d) = "delivered" => Outcome(d)' = "delivered"
    BY <2>1, <2>3 DEF Outcome, Delivered
  <2>5. Outcome(d) = "pending" => Outcome(d)' \in {"pending", "buried", "lost"}
    BY <2>1, <2>3 DEF Outcome, Delivered
  <2>6. Outcome(d)' = "lost" => Lossy
    <3>1. CASE "publish" \in Faults
      BY <3>1 DEF Lossy, Unreliable
    <3>2. CASE "publish" \notin Faults
      <4>1. CASE PublishToRetry(d, c)
        <5>1. c + 1 \in Counts
          BY <4>1 DEF PublishToRetry, ChainInv, Counts
        <5>2. stage[d][c + 1]' = "topic"
          BY <3>2, <4>1, <5>1 DEF PublishToRetry, TypeOK
        <5>3. InProgress(d)'
          BY <5>1, <5>2 DEF InProgress
        <5>4. QED
          BY <5>3 DEF Outcome
      <4>2. CASE PublishToDLQ(d, c)
        BY <3>2, <4>2 DEF PublishToDLQ, Outcome
      <4>3. QED
        BY <1>7, <4>1, <4>2
    <3>3. QED
      BY <3>1, <3>2
  <2>7. QED
    BY <1>0, <1>1, <2>1, <2>2, <2>4, <2>5, <2>6
<1>8. ASSUME NEW d \in Dispatches, NEW c \in Counts, UpdateAuditLog(d, c)
      PROVE  UNCHANGED outcome
  <2>1. \A e \in Dispatches, k \in Counts :
            stage[e][k] \in Trying \cup Waiting <=> stage[e][k]' \in Trying \cup Waiting
    BY <1>8 DEF UpdateAuditLog, Move, TypeOK, LogStatus, Trying, Waiting
  <2>2. UNCHANGED <<of, deadLetters, delivered>>
    BY <1>8 DEF UpdateAuditLog
  <2>3. QED
    BY <2>1, <2>2, OutcomeFrame
<1>9. ASSUME Exit PROVE Promise!Next
  <2>1. Lossy
    BY <1>9 DEF Exit, DrainInv, Lossy, Unreliable
  <2>2. UNCHANGED <<of, deadLetters, delivered>>
    BY <1>9 DEF Exit
  <2>3. \A d \in Dispatches : InProgress(d)' => InProgress(d)
    BY <1>9 DEF Exit, InProgress, WhereLeft, Running, Trying
  <2>4. \A d \in Dispatches :
            \/ Outcome(d)' = Outcome(d)
            \/ Outcome(d) = "pending" /\ Outcome(d)' = "lost"
    <3> TAKE d \in Dispatches
    <3>1. Delivered(d)' <=> Delivered(d)
      BY <2>2 DEF Delivered
    <3>2. CASE InProgress(d)'
      BY <2>2, <2>3, <3>1, <3>2 DEF Outcome
    <3>3. CASE ~InProgress(d)'
      BY <2>2, <3>1, <3>3 DEF Outcome
    <3>4. QED
      BY <3>2, <3>3
  <2> DEFINE gone == {d \in Dispatches : Outcome(d) = "pending" /\ Outcome(d)' = "lost"}
  <2>5. outcome' = [d \in Dispatches |-> IF d \in gone THEN "lost" ELSE outcome[d]]
    BY <2>4
  <2>6. gone \in SUBSET {d \in Dispatches : outcome[d] = "pending"}
    OBVIOUS
  <2>7. QED
    BY <2>1, <2>5, <2>6 DEF Promise!Next, Promise!Lose
<1>10. CASE Shutdown \/ Restart \/ RowWritten \/ UNCHANGED vars
  BY <1>10, OutcomeFrame DEF Shutdown, Restart, RowWritten, vars
<1>11. QED
  BY <1>3, <1>4, <1>5, <1>6, <1>7, <1>8, <1>9, <1>10
     DEF Step, Gateway, Attempt, ProcessWithAdapters

\* The initial states of the gateway are initial states of DeliveryOutcome.
LEMMA OutcomeStarts == Init => Promise!Init
BY DEF Init, Promise!Init, Outcome

-----------------------------------------------------------------------------
(* The gateway with the router *)

\* The inductive invariant holds for the gateway fed by the router.
LEMMA GatewayHolds == Spec => []GatewayInv
<1>1. GatewayInv /\ [Next]_vars => GatewayInv'
  BY NextIsStep, GatewayStep DEF GatewayInv
<1>2. QED
  BY GatewayInit, <1>1, PTL DEF Spec

\* Types, order and bound of the retries, at most one delivery, nothing lost in an
\* environment that loses nothing but what the gateway cannot read: what the gateway
\* keeps for the router.
THEOREM GatewayCorrect ==
    Spec => [](TypeOK /\ RetriesInOrder /\ DeliveredOnce /\ (~Unreliable => NothingLost))
<1>1. GatewayInv => TypeOK
  BY DEF GatewayInv
<1>2. QED
  BY <1>1, GatewayPromises, GatewayHolds, PTL

\* Fed by the router alone, the gateway implements DeliveryOutcome.
THEOREM GatewayRefinesOutcome == Spec => ImplementsDeliveryOutcome
<1> DEFINE outcome == [d \in Dispatches |-> Outcome(d)]
<1>1. GatewayInv /\ [Next]_vars => [Promise!Next]_outcome
  BY NextIsStep, OutcomeStep DEF GatewayInv
<1>2. QED
  BY <1>1, OutcomeStarts, GatewayHolds, PTL DEF Spec, ImplementsDeliveryOutcome, Promise!Spec

-----------------------------------------------------------------------------
(* The gateway with the dead letter consumer and the operators *)

USE MaxCopiesAssumption, NoRowAssumption

\* Work is only done on what is there: the consumer handles dead letters, rows
\* are made of them, and an operator holds rows that were once created.
DeskInv ==
    /\ \A d \in Dispatches : desk[d] # "unread" => d \in deadLetters
    /\ \A r \in Rows : rows[r] # "none" => r[1] \in deadLetters
    /\ \A o \in Operators, r \in Rows : r \in op[o].todo \/ r = op[o].row => rows[r] # "none"

\* What an operator retries has a notification, so that the message emitted for it
\* is one the gateway can be given.
LEMMA RetriedHasSource ==
    ASSUME DLQTypeOK, ChainInv, DeskInv, NEW o \in Operators, NEW r \in Rows,
           r \in op[o].todo \/ r = op[o].row
    PROVE  of[r[1]] \in Notifications
<1>1. r[1] \in Dispatches /\ r[1] \in deadLetters
  BY DEF DeskInv, Rows
<1>2. QED
  BY <1>1 DEF ChainInv, DLQTypeOK, TypeOK

\* To the gateway, consumer and operators are some of its possible company.
LEMMA DLQNextIsStep == DLQTypeOK /\ ChainInv /\ DeskInv /\ [DLQNext]_allVars => [Step]_vars
<1> SUFFICES ASSUME DLQTypeOK, ChainInv, DeskInv, [DLQNext]_allVars PROVE [Step]_vars
  OBVIOUS
<1>0. TypeOK /\ status \in [Notifications -> StatusValues]
  BY DEF DLQTypeOK, TypeOK, StatusValues
<1>1. ASSUME Gateway \/ Router PROVE [Step]_vars
  BY <1>0, <1>1, NextIsStep DEF Next
<1>r. ASSUME NEW d \in Dispatches, NEW e \in Dispatches, NEW c \in Counts, ResendDispatch(d, e, c)
      PROVE  [Step]_vars
  BY <1>0, <1>r, ResentIsPublished DEF ResendDispatch, Step
<1>2. ASSUME NEW d \in Dispatches, HandleDeadLetter(d) \/ ResendDeadLetter(d) PROVE [Step]_vars
  <2>1. CASE LogFailed(d)
    <3>1. status' \in [Notifications -> StatusValues]
      BY <1>0, <2>1 DEF LogFailed, SetStatus, StatusValues, LogStatus
    <3>2. QED
      BY <2>1, <3>1 DEF LogFailed, RowWritten, Step
  <2>2. QED
    BY <1>2, <2>1 DEF HandleDeadLetter, CreateFailedNotification, CommitOffset, ResendDeadLetter
<1>3. ASSUME NEW o \in Operators, NEW r \in Rows, NEW d \in Dispatches, EmitDispatch(o, r, d)
      PROVE  [Step]_vars
  <2>1. CASE Publish(of[r[1]], d, 0)
    <3>1. of[r[1]] \in Notifications
      BY <1>3, RetriedHasSource DEF EmitDispatch
    <3>2. Published(of[r[1]], d, 0)
      BY <1>0, <1>3, <2>1 DEF EmitDispatch, Published
    <3>3. QED
      BY <3>1, <3>2 DEF Step
  <2>2. CASE UNCHANGED <<of, stage>>
    BY <1>3, <2>2 DEF EmitDispatch, vars
  <2>3. QED
    BY <1>3, <2>1, <2>2 DEF EmitDispatch
<1>4. ASSUME NEW o \in Operators, UpdateRow(o) PROVE [Step]_vars
  <2>1. status' \in [Notifications -> StatusValues]
    BY <1>0, <1>4 DEF UpdateRow, StatusValues, LogStatus
  <2>2. QED
    BY <1>4, <2>1 DEF UpdateRow, RowWritten, Step
<1>5. ASSUME NEW o \in Operators, NEW r \in Rows, RetryAll(o) \/ RetryNotification(o, r)
      PROVE  [Step]_vars
  BY <1>5 DEF RetryAll, RetryNotification
<1>6. ASSUME NEW r \in Rows, PurgeNotification(r) PROVE [Step]_vars
  BY <1>6 DEF PurgeNotification
<1>7. CASE WorkerCrash \/ UNCHANGED allVars
  BY <1>7 DEF WorkerCrash, allVars
<1>8. QED
  BY <1>1, <1>r, <1>2, <1>3, <1>4, <1>5, <1>6, <1>7 DEF DLQNext, Operator, RetryAll

Request == [kind : {"one", "all"}, todo : SUBSET Rows, row : Rows \cup {None}]

\* How each step of an operator changes the request, as one update of it.
LEMMA RequestChanges ==
    ASSUME DLQTypeOK, NEW o \in Operators, Operator(o)
    PROVE  \E x \in Request : op' = [op EXCEPT ![o] = x]
<1> USE DEF Request
<1>0. op[o].kind \in {"one", "all"} /\ op[o].todo \in SUBSET Rows /\ op[o].row \in Rows \cup {None}
  BY DEF DLQTypeOK
<1>t. op \in [Operators -> Request]
  BY DEF DLQTypeOK
<1>1. ASSUME NEW r \in Rows, RetryNotification(o, r) PROVE \E x \in Request : op' = [op EXCEPT ![o] = x]
  <2>1. op' = [op EXCEPT ![o] = [@ EXCEPT !.todo = {r}]]
    BY <1>1 DEF RetryNotification
  <2>2. [op[o] EXCEPT !.todo = {r}] \in Request
    BY <1>0, <1>t
  <2>3. QED
    BY <2>1, <2>2
<1>2. CASE RetryAll(o)
  <2> DEFINE failed == {r \in Rows : rows[r] = "failed"}
  <2> HIDE DEF failed
  <2>1. op' = [op EXCEPT ![o].kind = "all", ![o].todo = failed] /\ failed \in SUBSET Rows
    BY <1>2 DEF RetryAll, failed
  <2>2. op' = [op EXCEPT ![o] = [@ EXCEPT !.kind = "all", !.todo = failed]]
    BY <1>t, <2>1
  <2>3. [op[o] EXCEPT !.kind = "all", !.todo = failed] \in Request
    BY <1>0, <1>t, <2>1
  <2>4. QED
    BY <2>2, <2>3
<1>3. ASSUME NEW r \in Rows, NEW d \in Dispatches, EmitDispatch(o, r, d)
      PROVE  \E x \in Request : op' = [op EXCEPT ![o] = x]
  <2>1. op' = [op EXCEPT ![o] = [kind |-> op[o].kind, todo |-> op[o].todo \ {r}, row |-> r]]
    BY <1>t, <1>3 DEF EmitDispatch
  <2>2. [kind |-> op[o].kind, todo |-> op[o].todo \ {r}, row |-> r] \in Request
    BY <1>0
  <2>3. QED
    BY <2>1, <2>2
<1>4. CASE UpdateRow(o)
  <2>1. Idle \in Request
    BY DEF Idle
  <2>2. [op[o] EXCEPT !.row = None] \in Request
    BY <1>0, <1>t
  <2>3. PICK x \in {Idle, [op[o] EXCEPT !.row = None]} : op' = [op EXCEPT ![o] = x]
    BY <1>4 DEF UpdateRow
  <2>4. QED
    BY <2>1, <2>2, <2>3
<1>5. QED
  BY <1>1, <1>2, <1>3, <1>4 DEF Operator

\* Consumer and operators keep the types, given the gateway does.
LEMMA DLQTypeStep ==
    ASSUME DLQTypeOK, TypeOK', [DLQNext]_allVars
    PROVE  DLQTypeOK'
<1> DEFINE DeskValues == {"unread", "created", "handled", "committed"}
           RowValues == Present \cup {"none", "purged"}
<1>1. desk' \in [Dispatches -> DeskValues]
  <2>0. desk \in [Dispatches -> DeskValues]
    BY DEF DLQTypeOK
  <2>1. ASSUME NEW d \in Dispatches, HandleDeadLetter(d) PROVE desk' \in [Dispatches -> DeskValues]
    BY <2>0, <2>1 DEF HandleDeadLetter, CreateFailedNotification, LogFailed, CommitOffset
  <2>2. CASE WorkerCrash
    BY <2>0, <2>2 DEF WorkerCrash
  <2>3. ASSUME NEW d \in Dispatches, ResendDeadLetter(d) PROVE desk' \in [Dispatches -> DeskValues]
    BY <2>0, <2>3 DEF ResendDeadLetter
  <2>4. QED
    BY <2>0, <2>1, <2>2, <2>3
       DEF DLQNext, ResendDispatch, Operator, RetryNotification, RetryAll, EmitDispatch, UpdateRow,
           PurgeNotification, allVars, deskVars
<1>2. rows' \in [Rows -> RowValues]
  <2>0. rows \in [Rows -> RowValues] /\ "failed" \in RowValues /\ "retried" \in RowValues
    BY DEF DLQTypeOK, Present
  <2>1. ASSUME NEW d \in Dispatches, HandleDeadLetter(d) PROVE rows' \in [Rows -> RowValues]
    BY <2>0, <2>1 DEF HandleDeadLetter, CreateFailedNotification, LogFailed, CommitOffset
  <2>2. ASSUME NEW o \in Operators, UpdateRow(o) PROVE rows' \in [Rows -> RowValues]
    BY <2>0, <2>2 DEF UpdateRow
  <2>3. ASSUME NEW r \in Rows, PurgeNotification(r) PROVE rows' \in [Rows -> RowValues]
    BY <2>0, <2>3 DEF PurgeNotification
  <2>4. QED
    BY <2>0, <2>1, <2>2, <2>3
       DEF DLQNext, ResendDispatch, ResendDeadLetter, WorkerCrash, Operator, RetryNotification,
           RetryAll, EmitDispatch, allVars, deskVars
<1>3. op' \in [Operators -> Request]
  <2>0. op \in [Operators -> Request]
    BY DEF DLQTypeOK, Request
  <2>1. ASSUME NEW o \in Operators, Operator(o) PROVE op' \in [Operators -> Request]
    BY <2>0, <2>1, RequestChanges
  <2>2. CASE WorkerCrash
    BY <2>2 DEF WorkerCrash, Idle, Request
  <2>3. CASE UNCHANGED op
    BY <2>0, <2>3
  <2>4. QED
    BY <2>1, <2>2, <2>3
       DEF DLQNext, HandleDeadLetter, CreateFailedNotification, LogFailed, CommitOffset,
           ResendDispatch, ResendDeadLetter, PurgeNotification, allVars, deskVars
<1>4. origin' \in [Dispatches -> Rows \cup {None}]
  <2>0. origin \in [Dispatches -> Rows \cup {None}]
    BY DEF DLQTypeOK
  <2>1. ASSUME NEW o \in Operators, NEW r \in Rows, NEW d \in Dispatches, EmitDispatch(o, r, d)
        PROVE  origin' \in [Dispatches -> Rows \cup {None}]
    BY <2>0, <2>1 DEF EmitDispatch
  <2>2. ASSUME NEW d \in Dispatches, NEW e \in Dispatches, NEW c \in Counts, ResendDispatch(d, e, c)
        PROVE  origin' \in [Dispatches -> Rows \cup {None}]
    BY <2>0, <2>2 DEF ResendDispatch
  <2>3. CASE UNCHANGED origin
    BY <2>0, <2>3
  <2>4. QED
    BY <2>1, <2>2, <2>3
       DEF DLQNext, HandleDeadLetter, CreateFailedNotification, LogFailed, CommitOffset,
           ResendDeadLetter, WorkerCrash, Operator, RetryNotification, RetryAll, UpdateRow,
           PurgeNotification, allVars, deskVars
<1>5. QED
  BY <1>1, <1>2, <1>3, <1>4 DEF DLQTypeOK, Request

\* Dead letters stay, and a row once created is never none again.
LEMMA NothingIsTakenBack ==
    ASSUME DLQTypeOK, [DLQNext]_allVars, [Step]_vars
    PROVE  /\ deadLetters \subseteq deadLetters'
           /\ \A r \in Rows : rows[r] # "none" => rows[r]' # "none"
<1>1. deadLetters \subseteq deadLetters'
  BY DEF Step, RowWritten, Published, vars, Gateway, ReadDispatch, Attempt, ReadRetry, Wake,
         ProcessWithAdapters, HydrateProviderConfig, Send, PublishToRetry, PublishToDLQ,
         UpdateAuditLog, Shutdown, Exit, Restart
<1>2. \A r \in Rows : rows[r] # "none" => rows[r]' # "none"
  <2> SUFFICES ASSUME NEW r \in Rows, rows[r] # "none" PROVE rows[r]' # "none"
    OBVIOUS
  <2>0. rows \in [Rows -> Present \cup {"none", "purged"}]
    BY DEF DLQTypeOK
  <2>1. QED
    BY <2>0
       DEF DLQNext, HandleDeadLetter, CreateFailedNotification, LogFailed, CommitOffset,
           ResendDispatch, ResendDeadLetter, WorkerCrash, Operator, RetryNotification, RetryAll,
           EmitDispatch, UpdateRow, PurgeNotification, allVars, deskVars
<1>3. QED
  BY <1>1, <1>2

\* What work is done on stays there.
LEMMA DeskStep ==
    ASSUME DLQTypeOK, DLQTypeOK', DeskInv, [DLQNext]_allVars, [Step]_vars
    PROVE  DeskInv'
<1>1. \A d \in Dispatches : desk[d]' # "unread" => d \in deadLetters'
  <2> SUFFICES ASSUME NEW d \in Dispatches, desk[d]' # "unread" PROVE d \in deadLetters
    BY NothingIsTakenBack
  <2>0. desk \in [Dispatches -> {"unread", "created", "handled", "committed"}]
    BY DEF DLQTypeOK
  <2>1. desk[d] # "unread" => d \in deadLetters
    BY DEF DeskInv
  <2>2. QED
    BY <2>0, <2>1
       DEF DLQNext, HandleDeadLetter, CreateFailedNotification, LogFailed, CommitOffset,
           ResendDispatch, ResendDeadLetter, WorkerCrash, Operator, RetryNotification, RetryAll,
           EmitDispatch, UpdateRow, PurgeNotification, allVars, deskVars
<1>2. \A r \in Rows : rows[r]' # "none" => r[1] \in deadLetters'
  <2> SUFFICES ASSUME NEW r \in Rows, rows[r]' # "none" PROVE r[1] \in deadLetters
    BY NothingIsTakenBack DEF Rows
  <2>0. rows \in [Rows -> Present \cup {"none", "purged"}]
    BY DEF DLQTypeOK
  <2>1. rows[r] # "none" => r[1] \in deadLetters
    BY DEF DeskInv
  <2>2. CASE rows[r]' = rows[r]
    BY <2>1, <2>2
  <2>3. ASSUME NEW d \in Dispatches, CreateFailedNotification(d) PROVE r[1] \in deadLetters
    <3>1. CASE UNCHANGED rows
      BY <2>1, <3>1
    <3>2. ASSUME NEW k \in 1 .. MaxCopies, rows' = [rows EXCEPT ![<<d, k>>] = "failed"]
          PROVE  r[1] \in deadLetters
      <4>1. CASE r = <<d, k>>
        BY <2>3, <4>1 DEF CreateFailedNotification
      <4>2. CASE r # <<d, k>>
        BY <2>0, <2>1, <3>2, <4>2
      <4>3. QED
        BY <4>1, <4>2
    <3>3. QED
      BY <2>3, <3>1, <3>2 DEF CreateFailedNotification
  <2>4. ASSUME NEW o \in Operators, UpdateRow(o) PROVE r[1] \in deadLetters
    BY <2>0, <2>1, <2>4 DEF UpdateRow, Present
  <2>5. ASSUME NEW p \in Rows, PurgeNotification(p) PROVE r[1] \in deadLetters
    BY <2>0, <2>1, <2>5 DEF PurgeNotification, Present
  <2>6. QED
    BY <2>2, <2>3, <2>4, <2>5
       DEF DLQNext, HandleDeadLetter, LogFailed, CommitOffset, ResendDispatch, ResendDeadLetter,
           WorkerCrash, Operator, RetryNotification, RetryAll, EmitDispatch, allVars, deskVars
<1>3. \A o \in Operators, r \in Rows : r \in op[o].todo' \/ r = op[o].row' => rows[r]' # "none"
  <2> SUFFICES ASSUME NEW o \in Operators, NEW r \in Rows, r \in op[o].todo' \/ r = op[o].row'
               PROVE  rows[r] # "none"
    BY NothingIsTakenBack
  <2>0. op \in [Operators -> Request]
    BY DEF DLQTypeOK, Request
  <2>1. r \in op[o].todo \/ r = op[o].row => rows[r] # "none"
    BY DEF DeskInv
  <2>n. None \notin Rows
    BY DEF Rows
  <2>2. ASSUME NEW p \in Rows, RetryNotification(o, p) PROVE rows[r] # "none"
    BY <2>0, <2>1, <2>2 DEF RetryNotification, Request, Present
  <2>3. CASE RetryAll(o)
    <3> DEFINE failed == {p \in Rows : rows[p] = "failed"}
    <3>1. op' = [op EXCEPT ![o].kind = "all", ![o].todo = failed]
      BY <2>3 DEF RetryAll
    <3>2. op[o].todo' = failed /\ op[o].row' = op[o].row
      BY <2>0, <3>1 DEF Request
    <3>3. QED
      BY <2>1, <3>2
  <2>4. ASSUME NEW p \in Rows, NEW d \in Dispatches, EmitDispatch(o, p, d) PROVE rows[r] # "none"
    <3>1. op' = [op EXCEPT ![o].row = p, ![o].todo = @ \ {p}] /\ p \in op[o].todo
      BY <2>4 DEF EmitDispatch
    <3>2. op[o].todo' \subseteq op[o].todo /\ op[o].row' = p
      BY <2>0, <3>1 DEF Request
    <3>3. QED
      BY <2>1, <3>1, <3>2
  <2>5. CASE UpdateRow(o)
    <3>1. op[o]' = Idle \/ op[o]' = [op[o] EXCEPT !.row = None]
      BY <2>0, <2>5 DEF UpdateRow
    <3>2. op[o].row' = None /\ op[o].todo' \subseteq op[o].todo
      BY <2>0, <3>1 DEF Idle, Request
    <3>3. QED
      BY <2>1, <2>n, <3>2
  <2>6. CASE WorkerCrash
    BY <2>n, <2>6 DEF WorkerCrash, Idle
  <2>7. CASE op[o]' = op[o]
    BY <2>1, <2>7
  <2>8. ASSUME NEW q \in Operators, q # o, Operator(q) PROVE op[o]' = op[o]
    BY <2>0, <2>8, RequestChanges
  <2>9. QED
    BY <2>2, <2>3, <2>4, <2>5, <2>6, <2>7, <2>8
       DEF DLQNext, HandleDeadLetter, CreateFailedNotification, LogFailed, CommitOffset,
           ResendDispatch, ResendDeadLetter, Operator, PurgeNotification, allVars, deskVars
<1>4. QED
  BY <1>1, <1>2, <1>3 DEF DeskInv

\* Desk, rows and requests start empty.
LEMMA DLQStarts == DLQInit => DLQTypeOK /\ DeskInv
<1> SUFFICES ASSUME DLQInit PROVE DLQTypeOK /\ DeskInv
  OBVIOUS
<1>1. DLQTypeOK
  BY TypeInit DEF DLQInit, DLQTypeOK, Idle
<1>2. \A o \in Operators : op[o].todo = {} /\ op[o].row = None
  BY DEF DLQInit, Idle
<1>3. QED
  BY <1>1, <1>2 DEF DLQInit, DeskInv, Rows

\* The inductive invariant of the composition.
DLQInv == GatewayInv /\ DLQTypeOK /\ DeskInv

\* The invariant of the composition is inductive, and its steps are the gateway's.
LEMMA DLQStep == DLQInv /\ [DLQNext]_allVars => DLQInv' /\ [Step]_vars
<1> SUFFICES ASSUME DLQInv, [DLQNext]_allVars PROVE DLQInv' /\ [Step]_vars
  OBVIOUS
<1>1. [Step]_vars
  BY DLQNextIsStep DEF DLQInv, GatewayInv
<1>2. GatewayInv'
  BY <1>1, GatewayStep DEF DLQInv
<1>3. DLQTypeOK'
  BY <1>2, DLQTypeStep DEF DLQInv, GatewayInv
<1>4. DeskInv'
  BY <1>1, <1>3, DeskStep DEF DLQInv
<1>5. QED
  BY <1>1, <1>2, <1>3, <1>4 DEF DLQInv

\* It holds in every reachable state.
LEMMA DLQHolds == DLQSpec => []DLQInv
<1>1. DLQInit => DLQInv
  BY DLQStarts, GatewayInit DEF DLQInit, DLQInv
<1>2. QED
  BY <1>1, DLQStep, PTL DEF DLQSpec

\* The types of the whole: gateway, consumer, failed_notifications, operators.
THEOREM TypeCorrect == DLQSpec => []DLQTypeOK
<1>1. DLQInv => DLQTypeOK
  BY DEF DLQInv
<1>2. QED
  BY <1>1, DLQHolds, PTL

\* Retries follow one another, never exceed maxRetries, and end before a dead
\* letter is written; operators retrying dead letters do not change that
\* (RetriesInOrder, main.go:149-187, 269-313).
THEOREM RetriesOrdered == DLQSpec => []RetriesInOrder
<1>1. DLQInv => RetriesInOrder
  BY GatewayPromises DEF DLQInv
<1>2. QED
  BY <1>1, DLQHolds, PTL

\* A message is delivered at most once, and then neither retried nor
\* dead-lettered, whichever of gateway and worker crashes when, unless a provider
\* delivers and reports an error (DeliveredOnce, main.go:118-147, 250-281).
THEOREM AtMostOnce == DLQSpec => []DeliveredOnce
<1>1. DLQInv => DeliveredOnce
  BY GatewayPromises DEF DLQInv
<1>2. QED
  BY <1>1, DLQHolds, PTL

\* While the gateway is not stopped and Kafka accepts its writes, a message is on its
\* way, delivered, a dead letter, or one whose payload the gateway cannot read
\* (NothingLost).
THEOREM LosslessGateway == ASSUME ~Unreliable PROVE DLQSpec => []NothingLost
<1>1. DLQInv => NothingLost
  BY GatewayPromises DEF DLQInv
<1>2. QED
  BY <1>1, DLQHolds, PTL

\* Under every fault of gateway and worker, and whatever operators retry or purge,
\* a message is delivered, buried or lost once and for all, and lost only if it cannot
\* be read, the gateway is stopped or Kafka refuses a write
\* (ImplementsDeliveryOutcome).
THEOREM RefinesDeliveryOutcome == DLQSpec => ImplementsDeliveryOutcome
<1> DEFINE outcome == [d \in Dispatches |-> Outcome(d)]
<1>1. DLQInit => Promise!Init
  BY OutcomeStarts DEF DLQInit
<1>2. DLQInv /\ [DLQNext]_allVars => [Promise!Next]_outcome
  BY DLQStep, OutcomeStep DEF DLQInv
<1>3. QED
  BY <1>1, <1>2, DLQHolds, PTL DEF DLQSpec, ImplementsDeliveryOutcome, Promise!Spec

-----------------------------------------------------------------------------
(* What the worker keeps of the dead letters *)

\* A message keeps its notification.
LEMMA SourceKept ==
    ASSUME TypeOK, [Step]_vars, NEW d \in Dispatches, of[d] # None
    PROVE  of[d]' = of[d]
BY DEF TypeOK, Step, RowWritten, Published, Publish, vars, Gateway, ReadDispatch, Attempt, ReadRetry,
       Wake, ProcessWithAdapters, HydrateProviderConfig, Send, PublishToRetry, PublishToDLQ,
       UpdateAuditLog, Shutdown, Exit, Restart

\* A dead letter that has been handled has its row, or is one that the table cannot
\* hold.
LettersHaveRows ==
    \A d \in Dispatches : desk[d] # "unread" =>
        of[d] \in RealTime \/ \E k \in 1 .. MaxCopies : rows[<<d, k>>] # "none"

\* A dead letter handled by a worker whose transactions succeed has its row in
\* failed_notifications, however often the worker dies and consumes it again, unless
\* it is a realtime one: until the row is there the message counts as unread.
LEMMA LettersAreKept == ASSUME "postgres" \notin Faults PROVE DLQSpec => []LettersHaveRows
<1>1. DLQInit => LettersHaveRows
  BY DEF DLQInit, LettersHaveRows
<1>2. DLQInv /\ LettersHaveRows /\ [DLQNext]_allVars => LettersHaveRows'
  <2> SUFFICES ASSUME DLQInv, LettersHaveRows, [DLQNext]_allVars,
                      NEW d \in Dispatches, desk[d]' # "unread"
               PROVE  of[d]' \in RealTime \/ \E k \in 1 .. MaxCopies : rows[<<d, k>>]' # "none"
    BY DEF LettersHaveRows
  <2>0. /\ desk \in [Dispatches -> {"unread", "created", "handled", "committed"}]
        /\ rows \in [Rows -> Present \cup {"none", "purged"}]
        /\ TypeOK /\ ChainInv /\ DeskInv /\ [Step]_vars
    BY DLQStep DEF DLQInv, DLQTypeOK, GatewayInv
  <2>1. CASE desk[d] # "unread"
    <3>1. of[d]' = of[d]
      BY <2>0, <2>1, SourceKept DEF DeskInv, ChainInv
    <3>2. ASSUME NEW k \in 1 .. MaxCopies, rows[<<d, k>>] # "none"
          PROVE  rows[<<d, k>>]' # "none"
      <4>1. <<d, k>> \in Rows
        BY DEF Rows
      <4>2. QED
        BY <3>2, <4>1, DLQStep, NothingIsTakenBack DEF DLQInv
    <3>3. QED
      BY <2>1, <3>1, <3>2 DEF LettersHaveRows
  <2>2. CASE desk[d] = "unread"
    <3>1. CreateFailedNotification(d)
      BY <2>0, <2>2
         DEF DLQNext, HandleDeadLetter, CreateFailedNotification, LogFailed, CommitOffset,
             ResendDispatch, ResendDeadLetter, WorkerCrash, Operator, RetryNotification, RetryAll,
             EmitDispatch, UpdateRow, PurgeNotification, allVars, deskVars
    <3>2. CASE of[d] \in RealTime
      BY <3>1, <3>2 DEF CreateFailedNotification, vars
    <3>3. ASSUME NEW k \in 1 .. MaxCopies, rows' = [rows EXCEPT ![<<d, k>>] = "failed"]
          PROVE  rows[<<d, k>>]' # "none"
      <4>1. <<d, k>> \in Rows
        BY DEF Rows
      <4>2. QED
        BY <2>0, <3>3, <4>1
    <3>4. QED
      BY <3>1, <3>2, <3>3 DEF CreateFailedNotification
  <2>3. QED
    BY <2>1, <2>2
<1>3. QED
  BY <1>1, <1>2, DLQHolds, PTL DEF DLQSpec

\* Why RetryIsRecorded holds: a request holds a row only after it has emitted it.
RetryInv ==
    /\ RetryIsRecorded
    /\ \A o \in Operators : op[o].row # None => \E d \in Dispatches : origin[d] = op[o].row
    /\ \A d \in Dispatches : of[d] = None => origin[d] = None

\* An identifier given to a message stays given.
LEMMA SourceStays == TypeOK /\ [Step]_vars => \A d \in Dispatches : of[d]' = None => of[d] = None
<1> SUFFICES ASSUME TypeOK, [Step]_vars, NEW d \in Dispatches, of[d]' = None PROVE of[d] = None
  OBVIOUS
<1>1. ASSUME NEW n \in Notifications, NEW e \in Dispatches, NEW c \in 0 .. MaxRetries,
             Published(n, e, c)
      PROVE  of[d] = None
  BY <1>1 DEF Published, Publish, TypeOK
<1>2. QED
  BY <1>1
     DEF Step, RowWritten, vars, Gateway, ReadDispatch, Attempt, ReadRetry, Wake,
         ProcessWithAdapters, HydrateProviderConfig, Send, PublishToRetry, PublishToDLQ,
         UpdateAuditLog, Shutdown, Exit, Restart

\* An operator's emit, the update after it and everybody else's steps keep it.
LEMMA RetryStep ==
    ASSUME "worker" \notin Faults, "publish" \notin Faults, "postgres" \notin Faults,
           DLQInv, RetryInv, [DLQNext]_allVars
    PROVE  RetryInv'
<1> USE DEF RetryInv, RetryIsRecorded
<1>0. /\ op \in [Operators -> Request]
      /\ rows \in [Rows -> Present \cup {"none", "purged"}]
      /\ origin \in [Dispatches -> Rows \cup {None}]
      /\ of \in [Dispatches -> Notifications \cup {None}]
      /\ None \notin Rows
  BY DEF DLQInv, GatewayInv, TypeOK, DLQTypeOK, Request, Rows
<1>1. \A d \in Dispatches : of[d]' = None => of[d] = None
  BY DLQStep, SourceStays DEF DLQInv, GatewayInv
<1>2. CASE UNCHANGED <<rows, op, origin>>
  BY <1>1, <1>2
<1>3. ASSUME NEW d \in Dispatches, CreateFailedNotification(d) PROVE RetryInv'
  <2>1. UNCHANGED <<of, op, origin>>
    BY <1>3 DEF CreateFailedNotification, vars
  <2>2. CASE UNCHANGED rows
    BY <1>2, <2>1, <2>2
  <2>3. ASSUME NEW k \in 1 .. MaxCopies, rows[<<d, k>>] = "none",
               rows' = [rows EXCEPT ![<<d, k>>] = "failed"]
        PROVE  RetryInv'
    <3>1. PICK p \in Rows : p = <<d, k>>
      BY DEF Rows
    <3>2. \A r \in Rows : rows[r]' = IF r = p THEN "failed" ELSE rows[r]
      BY <1>0, <2>3, <3>1
    <3>3. \A o \in Operators : op[o].row # p
      BY <2>3, <3>1 DEF DLQInv, DeskInv
    <3>4. \A e \in Dispatches : origin[e] # p
      BY <1>0, <2>3, <3>1, <3>3
    <3>5. \A r \in Rows : rows[r]' = "retried" => rows[r] = "retried"
      BY <3>2
    <3>6. \A e \in Dispatches : origin[e] # None => rows'[origin[e]] = rows[origin[e]]
      BY <1>0, <3>2, <3>4
    <3>7. QED
      BY <2>1, <3>5, <3>6
  <2>4. CASE rows' # rows
    <3>1. PICK k \in 1 .. MaxCopies :
              /\ \A j \in 1 .. MaxCopies : rows[<<d, j>>] = "none" <=> j >= k
              /\ rows' = [rows EXCEPT ![<<d, k>>] = "failed"]
      BY <1>3, <2>4 DEF CreateFailedNotification
    <3>2. rows[<<d, k>>] = "none"
      BY <3>1
    <3>3. QED
      BY <2>3, <3>1, <3>2
  <2>5. QED
    BY <2>2, <2>4
<1>4. ASSUME NEW o \in Operators, NEW r \in Rows, RetryAll(o) \/ RetryNotification(o, r)
      PROVE  RetryInv'
  <2>1. UNCHANGED <<of, rows, origin>>
    BY <1>4 DEF RetryAll, RetryNotification, vars
  <2>2. \A q \in Operators : op[q].row' = op[q].row
    BY <1>0, <1>4 DEF RetryAll, RetryNotification, Request
  <2>3. QED
    BY <2>1, <2>2
<1>5. ASSUME NEW o \in Operators, NEW r \in Rows, NEW d \in Dispatches, EmitDispatch(o, r, d)
      PROVE  RetryInv'
  <2>1. of[d] = None /\ origin' = [origin EXCEPT ![d] = r] /\ UNCHANGED rows
    BY <1>5 DEF EmitDispatch, Publish
  <2>2. op[o].row = None /\ r \in op[o].todo
        /\ op' = [op EXCEPT ![o].row = r, ![o].todo = @ \ {r}]
    BY <1>5 DEF EmitDispatch
  <2>3. \A q \in Operators : op[q].row' = IF q = o THEN r ELSE op[q].row
    BY <1>0, <2>2 DEF Request
  <2>4. \A e \in Dispatches : origin[e]' = IF e = d THEN r ELSE origin[e]
    BY <1>0, <2>1
  <2>5. origin[d] = None
    BY <2>1
  <2>6. \A e \in Dispatches : origin[e] # None => origin[e]' = origin[e]
    BY <2>4, <2>5
  <2>7. \A p \in Rows : rows[p]' = "retried" => \E e \in Dispatches : origin[e]' = p
    BY <1>0, <2>1, <2>6
  <2>8. \A e \in Dispatches : origin[e]' # None =>
            \/ rows[origin[e]]' \in {"retried", "purged"}
            \/ \E q \in Operators : op[q].row' = origin[e]'
    <3> TAKE e \in Dispatches
    <3>1. CASE e = d
      BY <2>3, <2>4, <3>1
    <3>2. CASE e # d
      <4>1. origin[e]' = origin[e]
        BY <2>4, <3>2
      <4>2. \A q \in Operators : op[q].row # None => op[q].row' = op[q].row
        BY <2>2, <2>3
      <4>3. QED
        BY <2>1, <4>1, <4>2
    <3>3. QED
      BY <3>1, <3>2
  <2>9. \A q \in Operators : op[q].row' # None => \E e \in Dispatches : origin[e]' = op[q].row'
    BY <2>3, <2>4, <2>6
  <2>10. of[d]' # None
    BY <1>0, <1>5, RetriedHasSource DEF EmitDispatch, Publish, DLQInv, GatewayInv
  <2>11. \A e \in Dispatches : of[e]' = None => origin[e]' = None
    BY <1>1, <2>4, <2>10
  <2>12. QED
    BY <2>7, <2>8, <2>9, <2>11
<1>6. ASSUME NEW o \in Operators, UpdateRow(o) PROVE RetryInv'
  <2>1. PICK p \in Rows : p = op[o].row
    BY <1>0, <1>6 DEF UpdateRow, Request
  <2>2. UNCHANGED <<of, origin>>
    BY <1>6 DEF UpdateRow
  <2>3. \A q \in Operators : op[q].row' = IF q = o THEN None ELSE op[q].row
    <3>1. op[o]' = Idle \/ op[o]' = [op[o] EXCEPT !.row = None]
      BY <1>0, <1>6 DEF UpdateRow
    <3>2. op[o].row' = None
      BY <1>0, <3>1 DEF Idle, Request
    <3>3. \A q \in Operators : q # o => op[q]' = op[q]
      BY <1>0, <1>6 DEF UpdateRow
    <3>4. QED
      BY <3>2, <3>3
  <2>4. rows'[p] \in {"retried", "purged"} /\ \A r \in Rows : r # p => rows'[r] = rows[r]
    <3>1. rows[p] # "none"
      BY <2>1 DEF DLQInv, DeskInv
    <3>2. QED
      BY <1>0, <1>6, <2>1, <3>1 DEF UpdateRow, Present
  <2>5. \E e \in Dispatches : origin[e] = p
    BY <1>0, <2>1
  <2>6. \A r \in Rows : rows[r]' = "retried" => \E e \in Dispatches : origin[e] = r
    BY <2>4, <2>5
  <2>7. \A e \in Dispatches : origin[e] # None =>
            \/ rows'[origin[e]] \in {"retried", "purged"}
            \/ \E q \in Operators : op[q].row' = origin[e]
    <3> TAKE e \in Dispatches
    <3>1. CASE origin[e] = p
      BY <2>4, <3>1
    <3>2. CASE origin[e] # None /\ origin[e] # p
      BY <1>0, <2>1, <2>3, <2>4, <3>2
    <3>3. QED
      BY <3>1, <3>2
  <2>8. QED
    BY <2>2, <2>3, <2>6, <2>7
<1>7. ASSUME NEW r \in Rows, PurgeNotification(r) PROVE RetryInv'
  <2>1. UNCHANGED <<of, op, origin>>
    BY <1>7 DEF PurgeNotification, vars
  <2>2. \A p \in Rows : rows[p]' = IF p = r THEN "purged" ELSE rows[p]
    BY <1>0, <1>7 DEF PurgeNotification
  <2>3. QED
    BY <1>0, <2>1, <2>2
<1>8. ASSUME NEW d \in Dispatches, NEW e \in Dispatches, NEW c \in Counts, ResendDispatch(d, e, c)
      PROVE  RetryInv'
  <2>1. /\ of[d] # None /\ of[e] = None /\ UNCHANGED <<rows, op>>
        /\ origin' = [origin EXCEPT ![e] = origin[d]]
    BY <1>8 DEF ResendDispatch, Resend, Publish, DLQInv, GatewayInv, ChainInv
  <2>2. of[e]' = of[d]
    BY <1>0, <1>8 DEF ResendDispatch, Resend, Publish
  <2>3. \A x \in Dispatches : origin[x]' = IF x = e THEN origin[d] ELSE origin[x]
    BY <1>0, <2>1
  <2>4. \A x \in Dispatches : origin[x] # None => origin[x]' = origin[x]
    BY <2>1, <2>3
  <2>5. QED
    BY <1>0, <1>1, <2>1, <2>2, <2>3, <2>4
<1>9. QED
  BY <1>2, <1>3, <1>4, <1>5, <1>6, <1>7, <1>8
     DEF DLQNext, HandleDeadLetter, LogFailed, CommitOffset, ResendDeadLetter, WorkerCrash, Operator,
         RetryAll, allVars, deskVars

\* While the worker lives and its writes succeed, a row marked as retried was
\* dispatched again, and a row dispatched again is marked, purged, or held by the
\* request that will mark it, however requests interleave (RetryIsRecorded).
THEOREM RetriesRecorded ==
    ASSUME "worker" \notin Faults, "publish" \notin Faults, "postgres" \notin Faults
    PROVE  DLQSpec => []RetryIsRecorded
<1>1. DLQInit => RetryInv
  <2> SUFFICES ASSUME DLQInit PROVE RetryInv
    OBVIOUS
  <2>1. \A o \in Operators : op[o].row = None
    BY DEF DLQInit, Idle
  <2>2. \A d \in Dispatches : origin[d] = None
    BY DEF DLQInit
  <2>3. \A r \in Rows : rows[r] = "none"
    BY DEF DLQInit
  <2>4. QED
    BY <2>1, <2>2, <2>3 DEF RetryInv, RetryIsRecorded
<1>2. DLQInv /\ RetryInv /\ [DLQNext]_allVars => RetryInv'
  BY RetryStep
<1>3. RetryInv => RetryIsRecorded
  BY DEF RetryInv
<1>4. QED
  BY <1>1, <1>2, <1>3, DLQHolds, PTL DEF DLQSpec

-----------------------------------------------------------------------------
(* The log row *)

\* An environment in which at most the worker dies.
Calm == Faults \subseteq {"worker"}

\* Where a message comes from: a notification has one message that no operator
\* emitted, and the others are of the notification whose dead letter was retried.
\* A request holds a row only after it has emitted it.
Lineage ==
    /\ \A d, e \in Dispatches :
          of[d] # None /\ of[d] = of[e] /\ origin[d] = None /\ origin[e] = None => d = e
    /\ \A d \in Dispatches : origin[d] # None => of[d] # None /\ of[d] = of[origin[d][1]]
    /\ \A o \in Operators : op[o].row # None => \E d \in Dispatches : origin[d] = op[o].row
    /\ Operators = {} => \A d \in Dispatches : origin[d] = None

\* Who is about to write RETRYING is followed by an attempt that waits; who is
\* about to write SENT was accepted; who is about to write FAILED is buried.
AboutToWrite ==
    \A d \in Dispatches, c \in Counts :
        /\ stage[d][c] = "RETRYING" => stage[d][c + 1] \in Waiting
        /\ stage[d][c] = "SENT" => <<d, c>> \in delivered
        /\ stage[d][c] = "FAILED" => d \in deadLetters

\* Some attempt of n will still write its log row.
Busy(n) ==
    \E d \in Dispatches, c \in Counts : of[d] = n /\ stage[d][c] \in Running \cup Waiting

\* A retry of n has been recorded.
Marked(n) ==
    \E d \in Dispatches :
        of[d] = n /\ origin[d] # None /\ rows[origin[d]] \in {"retried", "purged"}

\* What the log row of n may say, and why.
RowTells(n) ==
    /\ status[n] = "SENT" => \E d \in Dispatches : of[d] = n /\ Delivered(d)
    /\ status[n] = "FAILED" => \E d \in Dispatches : of[d] = n /\ d \in deadLetters
    /\ status[n] = "PENDING" => Busy(n) \/ n \in Malformed
    /\ status[n] = "RETRYING" => n \notin Malformed /\ (Busy(n) \/ Marked(n))

LogRow == \A n \in Notifications \ RealTime : RowTells(n)

StatusInv == Lineage /\ AboutToWrite /\ LogRow

\* Messages and their origins are given once; deliveries, dead letters and the
\* records of retries stay.
LEMMA Lasting ==
    ASSUME DLQInv, Lineage, [DLQNext]_allVars
    PROVE  /\ \A d \in Dispatches : of[d] # None => of'[d] = of[d] /\ origin'[d] = origin[d]
           /\ deadLetters \subseteq deadLetters'
           /\ delivered \subseteq delivered'
           /\ \A r \in Rows : rows[r] \in {"retried", "purged"} => rows'[r] \in {"retried", "purged"}
<1>0. /\ [Step]_vars /\ DLQTypeOK /\ TypeOK
      /\ origin \in [Dispatches -> Rows \cup {None}]
      /\ rows \in [Rows -> Present \cup {"none", "purged"}]
  BY DLQStep DEF DLQInv, DLQTypeOK, GatewayInv
<1>1. \A d \in Dispatches : of[d] # None => of'[d] = of[d]
  BY <1>0, SourceKept
<1>2. ASSUME NEW d \in Dispatches, of[d] # None PROVE origin'[d] = origin[d]
  <2>1. ASSUME NEW o \in Operators, NEW r \in Rows, NEW e \in Dispatches, EmitDispatch(o, r, e)
        PROVE  origin'[d] = origin[d]
    BY <1>0, <1>2, <2>1 DEF EmitDispatch, Publish
  <2>2. ASSUME NEW x \in Dispatches, NEW e \in Dispatches, NEW c \in Counts, ResendDispatch(x, e, c)
        PROVE  origin'[d] = origin[d]
    BY <1>0, <1>2, <2>2 DEF ResendDispatch, Resend, Publish
  <2>3. CASE UNCHANGED origin
    BY <2>3
  <2>4. QED
    BY <2>1, <2>2, <2>3
       DEF DLQNext, HandleDeadLetter, CreateFailedNotification, LogFailed, CommitOffset,
           ResendDeadLetter, WorkerCrash, Operator, RetryNotification, RetryAll, UpdateRow,
           PurgeNotification, allVars, deskVars
<1>3. deadLetters \subseteq deadLetters'
  BY <1>0, NothingIsTakenBack
<1>4. delivered \subseteq delivered'
  BY <1>0
     DEF Step, RowWritten, Published, vars, Gateway, ReadDispatch, Attempt, ReadRetry, Wake,
         ProcessWithAdapters, HydrateProviderConfig, Send, Succeed, FailRetryably,
         FailPermanently, PublishToRetry, PublishToDLQ, UpdateAuditLog, Shutdown, Exit, Restart
<1>5. ASSUME NEW r \in Rows, rows[r] \in {"retried", "purged"}
      PROVE  rows'[r] \in {"retried", "purged"}
  <2>1. ASSUME NEW d \in Dispatches, CreateFailedNotification(d) PROVE rows'[r] = rows[r]
    <3>1. ASSUME NEW k \in 1 .. MaxCopies, rows[<<d, k>>] = "none",
                 rows' = [rows EXCEPT ![<<d, k>>] = "failed"]
          PROVE  rows'[r] = rows[r]
      BY <1>5, <3>1
    <3>2. CASE rows' # rows
      <4>1. PICK k \in 1 .. MaxCopies :
                /\ \A j \in 1 .. MaxCopies : rows[<<d, j>>] = "none" <=> j >= k
                /\ rows' = [rows EXCEPT ![<<d, k>>] = "failed"]
        BY <2>1, <3>2 DEF CreateFailedNotification
      <4>2. rows[<<d, k>>] = "none"
        BY <4>1
      <4>3. QED
        BY <3>1, <4>1, <4>2
    <3>3. QED
      BY <3>2
  <2>2. ASSUME NEW o \in Operators, UpdateRow(o) PROVE rows'[r] \in {"retried", "purged"}
    BY <1>0, <1>5, <2>2 DEF UpdateRow
  <2>3. ASSUME NEW p \in Rows, PurgeNotification(p) PROVE rows'[r] \in {"retried", "purged"}
    BY <1>0, <1>5, <2>3 DEF PurgeNotification
  <2>4. CASE UNCHANGED rows
    BY <1>5, <2>4
  <2>5. QED
    BY <1>5, <2>1, <2>2, <2>3, <2>4
       DEF DLQNext, ResendDispatch, ResendDeadLetter, HandleDeadLetter, LogFailed, CommitOffset,
           WorkerCrash, Operator, RetryNotification, RetryAll, EmitDispatch, allVars, deskVars
<1>6. QED
  BY <1>1, <1>2, <1>3, <1>4, <1>5

\* A retry once recorded stays so.
LEMMA MarkedStays ==
    ASSUME DLQInv, Lineage, [DLQNext]_allVars,
           NEW n \in Notifications, Marked(n)
    PROVE  Marked(n)'
<1>1. PICK d \in Dispatches : of[d] = n /\ origin[d] # None /\ rows[origin[d]] \in {"retried", "purged"}
  BY DEF Marked
<1>2. origin[d] \in Rows
  BY <1>1 DEF DLQInv, DLQTypeOK
<1>3. of'[d] = n /\ origin'[d] = origin[d]
  BY <1>1, Lasting
<1>4. rows'[origin[d]] \in {"retried", "purged"}
  BY <1>1, <1>2, Lasting
<1>5. QED
  BY <1>1, <1>3, <1>4 DEF Marked

\* A request comes to hold a row only by emitting it.
LEMMA RowHeld ==
    ASSUME DLQTypeOK, [DLQNext]_allVars, NEW q \in Operators, op'[q].row # None
    PROVE  \/ op'[q].row = op[q].row
           \/ \E r \in Rows, d \in Dispatches : EmitDispatch(q, r, d) /\ op'[q].row = r
<1>0. op \in [Operators -> Request]
  BY DEF DLQTypeOK, Request
<1>1. ASSUME NEW o \in Operators, NEW r \in Rows, NEW d \in Dispatches, EmitDispatch(o, r, d)
      PROVE  op'[q].row = IF q = o THEN r ELSE op[q].row
  BY <1>0, <1>1 DEF EmitDispatch, Request
<1>2. ASSUME NEW o \in Operators, UpdateRow(o) PROVE op'[q].row = op[q].row
  <2>1. op'[o] = Idle \/ op'[o] = [op[o] EXCEPT !.row = None]
    BY <1>0, <1>2 DEF UpdateRow
  <2>2. op'[o].row = None
    BY <1>0, <2>1 DEF Idle, Request
  <2>3. q # o => op'[q] = op[q]
    BY <1>0, <1>2 DEF UpdateRow
  <2>4. QED
    BY <2>2, <2>3
<1>3. ASSUME NEW o \in Operators, NEW r \in Rows, RetryAll(o) \/ RetryNotification(o, r)
      PROVE  op'[q].row = op[q].row
  BY <1>0, <1>3 DEF RetryAll, RetryNotification, Request
<1>4. ~WorkerCrash
  BY DEF WorkerCrash, Idle
<1>5. CASE UNCHANGED op
  BY <1>5
<1>6. QED
  BY <1>1, <1>2, <1>3, <1>4, <1>5
     DEF DLQNext, ResendDispatch, ResendDeadLetter, HandleDeadLetter, CreateFailedNotification,
         LogFailed, CommitOffset, Operator, RetryAll, PurgeNotification, allVars, deskVars

\* Router and operators keep Lineage, whoever else steps, while no message is resent.
LEMMA LineageStep ==
    ASSUME "publish" \notin Faults, "resend" \notin Faults, DLQInv, Lineage, [DLQNext]_allVars
    PROVE  Lineage'
<1>0. /\ DLQTypeOK /\ TypeOK /\ ChainInv /\ DeskInv
      /\ origin \in [Dispatches -> Rows \cup {None}]
      /\ of \in [Dispatches -> Notifications \cup {None}]
      /\ None \notin Rows
  BY DEF DLQInv, DLQTypeOK, GatewayInv, TypeOK, Rows
<1> DEFINE Routed(n, d) == Dispatch(n, d) /\ UNCHANGED origin
           Emitted(o, r, d) == /\ EmitDispatch(o, r, d)
                               /\ of[d] = None /\ of' = [of EXCEPT ![d] = of[r[1]]]
                               /\ origin' = [origin EXCEPT ![d] = r]
                               /\ of[r[1]] \in Notifications
<1>1. \/ UNCHANGED <<of, origin>>
      \/ \E n \in Notifications, d \in Dispatches : Routed(n, d)
      \/ \E o \in Operators, r \in Rows, d \in Dispatches : Emitted(o, r, d)
  <2>1. ASSUME NEW o \in Operators, NEW r \in Rows, NEW d \in Dispatches, EmitDispatch(o, r, d)
        PROVE  Emitted(o, r, d)
    BY <1>0, <2>1, RetriedHasSource DEF EmitDispatch, Publish
  <2>2. CASE Gateway /\ UNCHANGED deskVars
    BY <2>2
       DEF Gateway, ReadDispatch, Attempt, ReadRetry, Wake, ProcessWithAdapters,
           HydrateProviderConfig, Send, PublishToRetry, PublishToDLQ, UpdateAuditLog, Shutdown,
           Exit, Restart, deskVars
  <2>3. CASE (Gateway \/ Router) /\ UNCHANGED deskVars
    BY <2>2, <2>3 DEF Router, deskVars
  <2>4. ~\E d, e \in Dispatches, c \in Counts : ResendDispatch(d, e, c)
    BY DEF ResendDispatch, Resend
  <2>5. QED
    BY <2>1, <2>3, <2>4
       DEF DLQNext, ResendDeadLetter, HandleDeadLetter, CreateFailedNotification, LogFailed, CommitOffset,
           WorkerCrash, Operator, RetryNotification, RetryAll, UpdateRow, PurgeNotification,
           allVars, vars, deskVars
<1>2. ASSUME NEW d \in Dispatches, NEW e \in Dispatches,
             of'[d] # None, of'[d] = of'[e], origin'[d] = None, origin'[e] = None
      PROVE  d = e
  <2>1. CASE UNCHANGED <<of, origin>>
    BY <1>2, <2>1 DEF Lineage
  <2>2. ASSUME NEW n \in Notifications, NEW x \in Dispatches, Routed(n, x) PROVE d = e
    <3>1. of[x] = None /\ (\A y \in Dispatches : of[y] # n) /\ origin' = origin
      BY <2>2 DEF Dispatch, Publish
    <3>2. \A y \in Dispatches : of'[y] = IF y = x THEN n ELSE of[y]
      BY <1>0, <2>2 DEF Dispatch, Publish
    <3>3. QED
      BY <1>2, <3>1, <3>2 DEF Lineage
  <2>3. ASSUME NEW o \in Operators, NEW r \in Rows, NEW x \in Dispatches, Emitted(o, r, x)
        PROVE  d = e
    <3>1. d # x /\ e # x
      BY <1>0, <1>2, <2>3
    <3>2. of'[d] = of[d] /\ of'[e] = of[e] /\ origin'[d] = origin[d] /\ origin'[e] = origin[e]
      BY <1>0, <2>3, <3>1
    <3>3. QED
      BY <1>2, <3>2 DEF Lineage
  <2>4. QED
    BY <1>1, <2>1, <2>2, <2>3
<1>3. ASSUME NEW d \in Dispatches, origin'[d] # None
      PROVE  of'[d] # None /\ of'[d] = of'[origin'[d][1]]
  <2>1. CASE origin[d] # None
    <3>1. of[d] # None /\ of[d] = of[origin[d][1]]
      BY <2>1 DEF Lineage
    <3>2. origin[d][1] \in Dispatches
      BY <1>0, <2>1 DEF Rows
    <3>3. QED
      BY <3>1, <3>2, Lasting
  <2>2. CASE origin[d] = None
    <3>1. PICK o \in Operators, r \in Rows : Emitted(o, r, d)
      BY <1>0, <1>1, <1>3, <2>2
    <3>2. r[1] \in Dispatches /\ of[r[1]] # None
      BY <1>0, <3>1 DEF Rows
    <3>3. of'[d] = of[r[1]] /\ origin'[d] = r
      BY <1>0, <3>1
    <3>4. of'[r[1]] = of[r[1]]
      BY <3>2, Lasting
    <3>5. QED
      BY <3>2, <3>3, <3>4
  <2>3. QED
    BY <2>1, <2>2
<1>4. ASSUME NEW q \in Operators, op'[q].row # None
      PROVE  \E d \in Dispatches : origin'[d] = op'[q].row
  <2>1. CASE op'[q].row = op[q].row
    <3>1. PICK d \in Dispatches : origin[d] = op[q].row /\ origin[d] # None
      BY <1>4, <2>1 DEF Lineage
    <3>2. origin'[d] = origin[d]
      BY <3>1, Lasting DEF Lineage
    <3>3. QED
      BY <2>1, <3>1, <3>2
  <2>2. ASSUME NEW r \in Rows, NEW d \in Dispatches, EmitDispatch(q, r, d), op'[q].row = r
        PROVE  origin'[d] = op'[q].row
    BY <1>0, <2>2 DEF EmitDispatch
  <2>3. QED
    BY <1>0, <1>4, <2>1, <2>2, RowHeld
<1>5. ASSUME Operators = {}, NEW d \in Dispatches PROVE origin'[d] = None
  BY <1>1, <1>5 DEF Lineage
<1>6. QED
  BY <1>2, <1>3, <1>4, <1>5 DEF Lineage

\* A step of one attempt keeps AboutToWrite, unless it wakes before the attempt that
\* created it has written.
LEMMA AboutToWriteMove ==
    ASSUME TypeOK, ChainInv, AboutToWrite,
           NEW d \in Dispatches, NEW c \in Counts, NEW s \in Stage \ {"none", "RETRYING"},
           Move(d, c, s), delivered \subseteq delivered', deadLetters \subseteq deadLetters',
           s = "SENT" => <<d, c>> \in delivered', s = "FAILED" => d \in deadLetters',
           stage[d][c] \in Waiting /\ c > 0 /\ stage[d][c - 1] = "RETRYING" => s = "asleep"
    PROVE  AboutToWrite'
<1> USE DEF Waiting
<1>1. \A e \in Dispatches, k \in Counts : stage'[e][k] = IF e = d /\ k = c THEN s ELSE stage[e][k]
  BY DEF Move, TypeOK
<1> SUFFICES ASSUME NEW e \in Dispatches, NEW k \in Counts
             PROVE  /\ stage'[e][k] = "RETRYING" => stage'[e][k + 1] \in Waiting
                    /\ stage'[e][k] = "SENT" => <<e, k>> \in delivered'
                    /\ stage'[e][k] = "FAILED" => e \in deadLetters'
  BY DEF AboutToWrite
<1>2. CASE stage'[e][k] = "RETRYING"
  <2>1. stage[e][k] = "RETRYING" /\ k + 1 \in Counts
    BY <1>1, <1>2 DEF ChainInv, Counts
  <2>2. stage[e][k + 1] \in Waiting
    BY <2>1 DEF AboutToWrite
  <2>3. CASE e = d /\ k + 1 = c
    <3>1. c > 0 /\ c - 1 = k
      BY <2>3 DEF Counts
    <3>2. QED
      BY <1>1, <1>2, <2>1, <2>2, <2>3, <3>1
  <2>4. CASE ~(e = d /\ k + 1 = c)
    BY <1>1, <1>2, <2>1, <2>2, <2>4
  <2>5. QED
    BY <2>3, <2>4
<1>3. CASE stage'[e][k] # "RETRYING"
  BY <1>1, <1>3 DEF AboutToWrite
<1>4. QED
  BY <1>2, <1>3

\* The attempt after one answered retryably exists before RETRYING is written.
LEMMA AboutToWriteRetry ==
    ASSUME TypeOK, ChainInv, AboutToWrite, "publish" \notin Faults,
           NEW d \in Dispatches, NEW c \in Counts, PublishToRetry(d, c)
    PROVE  AboutToWrite'
<1> USE DEF Waiting
<1>1. stage[d][c] = "retry" /\ UNCHANGED <<deadLetters, delivered>>
  BY DEF PublishToRetry
<1>2. c < MaxRetries /\ c + 1 \in Counts
  BY <1>1 DEF ChainInv, Counts
<1>3. \A e \in Dispatches, k \in Counts :
          stage'[e][k] = IF e = d /\ k = c THEN "RETRYING"
                         ELSE IF e = d /\ k = c + 1 THEN "topic" ELSE stage[e][k]
  BY <1>2 DEF PublishToRetry, TypeOK, Counts
<1> SUFFICES ASSUME NEW e \in Dispatches, NEW k \in Counts
             PROVE  /\ stage'[e][k] = "RETRYING" => stage'[e][k + 1] \in Waiting
                    /\ stage'[e][k] = "SENT" => <<e, k>> \in delivered
                    /\ stage'[e][k] = "FAILED" => e \in deadLetters
  BY <1>1 DEF AboutToWrite
<1>4. CASE e = d /\ k = c
  BY <1>2, <1>3, <1>4 DEF Counts
<1>5. CASE ~(e = d /\ k = c) /\ stage'[e][k] = "RETRYING"
  <2>1. stage[e][k] = "RETRYING" /\ k + 1 \in Counts
    BY <1>3, <1>5 DEF ChainInv, Counts
  <2>2. stage[e][k + 1] \in Waiting
    BY <2>1 DEF AboutToWrite
  <2>3. QED
    BY <1>1, <1>3, <2>1, <2>2
<1>6. CASE stage'[e][k] # "RETRYING"
  BY <1>3, <1>6 DEF AboutToWrite
<1>7. QED
  BY <1>4, <1>5, <1>6

\* Of a gateway that is never stopped and whose writes succeed, in any company.
LEMMA AboutToWriteStep ==
    ASSUME Calm, TypeOK, ChainInv, KeptInv, AboutToWrite, [Step]_vars
    PROVE  AboutToWrite'
<1>0. /\ "publish" \notin Faults /\ "slowLog" \notin Faults /\ "crash" \notin Faults
      /\ ~CommitFails /\ gateway = "up"
  BY DEF Calm, KeptInv, Unreliable, CommitFails
<1>1. ASSUME NEW n \in Notifications, NEW d \in Dispatches, NEW c \in 0 .. MaxRetries,
             Published(n, d, c)
      PROVE  AboutToWrite'
  <2>1. UNCHANGED <<deadLetters, delivered>>
    BY <1>1 DEF Published
  <2>2. ASSUME NEW e \in Dispatches, NEW k \in Counts
        PROVE  \/ e # d /\ stage'[e] = stage[e]
               \/ stage'[e][k] \in {"done", "topic", "none"}
    BY <1>1, <2>2 DEF Published, Publish, TypeOK
  <2>3. QED
    BY <2>1, <2>2 DEF AboutToWrite
<1>2. ASSUME NEW d \in Dispatches, ReadDispatch(d) PROVE AboutToWrite'
  <2>1. 0 \in Counts /\ ~(0 > 0)
    BY DEF Counts
  <2>2. PICK s \in {"hydrate", "lost"} : Move(d, 0, s) /\ UNCHANGED <<deadLetters, delivered>>
    BY <1>2 DEF ReadDispatch
  <2>3. {"hydrate", "lost"} \subseteq Stage \ {"none", "RETRYING"}
    BY DEF Stage, Running, Trying
  <2>4. QED
    BY <2>1, <2>2, <2>3, AboutToWriteMove
<1>3. ASSUME NEW d \in Dispatches, NEW c \in Counts, ReadRetry(d, c) \/ Wake(d, c)
      PROVE  AboutToWrite'
  BY <1>0, <1>3, AboutToWriteMove DEF ReadRetry, Wake, Stage, Running, Trying
<1>4. ASSUME NEW d \in Dispatches, NEW c \in Counts,
             \/ HydrateProviderConfig(d, c)
             \/ Send(d, c)
             \/ PublishToDLQ(d, c)
             \/ UpdateAuditLog(d, c)
      PROVE  AboutToWrite'
  <2>1. stage[d][c] \notin Waiting
    BY <1>4 DEF HydrateProviderConfig, Send, PublishToDLQ, UpdateAuditLog, Waiting, LogStatus
  <2>2. PICK s \in Stage \ {"none", "RETRYING"} :
            /\ Move(d, c, s)
            /\ s = "SENT" => <<d, c>> \in delivered'
            /\ s = "FAILED" => d \in deadLetters'
    BY <1>0, <1>4
       DEF HydrateProviderConfig, Send, Succeed, FailRetryably, FailPermanently,
           AfterRetryableError, PublishToDLQ, UpdateAuditLog, Stage, Running, Trying, LogStatus
  <2>3. deadLetters \subseteq deadLetters' /\ delivered \subseteq delivered'
    BY <1>4
       DEF HydrateProviderConfig, Send, Succeed, FailRetryably, FailPermanently, PublishToDLQ,
           UpdateAuditLog
  <2>4. QED
    BY <2>1, <2>2, <2>3, AboutToWriteMove
<1>5. ASSUME NEW d \in Dispatches, NEW c \in Counts, PublishToRetry(d, c) PROVE AboutToWrite'
  BY <1>0, <1>5, AboutToWriteRetry
<1>6. ~Exit
  BY <1>0 DEF Exit
<1>7. CASE RowWritten \/ Shutdown \/ Restart \/ UNCHANGED vars
  BY <1>7 DEF RowWritten, Shutdown, Restart, vars, AboutToWrite
<1>8. QED
  BY <1>1, <1>2, <1>3, <1>4, <1>5, <1>6, <1>7 DEF Step, Gateway, Attempt, ProcessWithAdapters

\* An attempt of a readable message that will write its log row will still do so after
\* any step but that write.
LEMMA BusyStays ==
    ASSUME Calm, TypeOK, ChainInv, KeptInv, [Step]_vars,
           NEW n \in Notifications \ Malformed, Busy(n),
           \A d \in Dispatches, c \in Counts : of[d] = n => ~UpdateAuditLog(d, c)
    PROVE  Busy(n)'
<1>0. "crash" \notin Faults /\ gateway = "up" /\ "publish" \notin Faults /\ ~CommitFails
  BY DEF Calm, KeptInv, Unreliable, CommitFails
<1>1. PICK d \in Dispatches, c \in Counts : of[d] = n /\ stage[d][c] \in Running \cup Waiting
  BY DEF Busy
<1>2. of'[d] = n
  BY <1>1, SourceKept
<1>3. ASSUME NEW e \in Dispatches, NEW k \in Counts, NEW s \in Running \cup Waiting, Move(e, k, s)
      PROVE  stage'[d][c] \in Running \cup Waiting
  BY <1>1, <1>3 DEF Move, TypeOK
<1>4. ASSUME NEW m \in Notifications, NEW e \in Dispatches, NEW k \in 0 .. MaxRetries,
             Published(m, e, k)
      PROVE  stage'[d][c] \in Running \cup Waiting
  <2>1. e # d /\ stage'[d] = stage[d]
    BY <1>1, <1>4 DEF Published, Publish, TypeOK
  <2>2. QED
    BY <1>1, <2>1
<1>5. ASSUME NEW e \in Dispatches, ReadDispatch(e) PROVE stage'[d][c] \in Running \cup Waiting
  <2>1. CASE e = d
    <3>1. Move(d, 0, "hydrate") /\ 0 \in Counts /\ "hydrate" \in Running \cup Waiting
      BY <1>0, <1>1, <1>5, <2>1 DEF ReadDispatch, Counts, Running, Trying
    <3>2. QED
      BY <3>1, <1>3
  <2>2. CASE e # d
    BY <1>1, <1>5, <2>2 DEF ReadDispatch, Move, TypeOK
  <2>3. QED
    BY <2>1, <2>2
<1>6. ASSUME NEW e \in Dispatches, NEW k \in Counts,
             \/ ReadRetry(e, k)
             \/ Wake(e, k)
             \/ HydrateProviderConfig(e, k)
             \/ Send(e, k)
             \/ PublishToDLQ(e, k)
      PROVE  stage'[d][c] \in Running \cup Waiting
  <2>1. PICK s \in Running \cup Waiting : Move(e, k, s)
    BY <1>0, <1>6
       DEF ReadRetry, Wake, HydrateProviderConfig, Send, Succeed, FailRetryably,
           FailPermanently, AfterRetryableError, PublishToDLQ, Running, Trying, LogStatus, Waiting
  <2>2. QED
    BY <2>1, <1>3
<1>7. ASSUME NEW e \in Dispatches, NEW k \in Counts, PublishToRetry(e, k)
      PROVE  stage'[d][c] \in Running \cup Waiting
  BY <1>0, <1>1, <1>7 DEF PublishToRetry, TypeOK, Running, LogStatus, Waiting
<1>8. ASSUME NEW e \in Dispatches, NEW k \in Counts, UpdateAuditLog(e, k)
      PROVE  stage'[d][c] \in Running \cup Waiting
  BY <1>1, <1>8 DEF UpdateAuditLog, Move, TypeOK
<1>9. ~Exit
  BY <1>0 DEF Exit
<1>10. ASSUME RowWritten \/ Shutdown \/ Restart \/ UNCHANGED vars
       PROVE  stage'[d][c] \in Running \cup Waiting
  BY <1>1, <1>10 DEF RowWritten, Shutdown, Restart, vars
<1>11. stage'[d][c] \in Running \cup Waiting
  BY <1>4, <1>5, <1>6, <1>7, <1>8, <1>9, <1>10
     DEF Step, Gateway, Attempt, ProcessWithAdapters
<1>12. QED
  BY <1>2, <1>11 DEF Busy

\* A step that writes no log row, unless it is the end of an attempt.
LEMMA LogRowKept ==
    ASSUME Calm, DLQInv, StatusInv, [DLQNext]_allVars, NEW n \in Notifications \ RealTime,
           \A d \in Dispatches, c \in Counts : of[d] = n => ~UpdateAuditLog(d, c),
           status'[n] = status[n]
    PROVE  RowTells(n)'
<1>0. Lineage /\ RowTells(n) /\ TypeOK /\ ChainInv /\ KeptInv /\ [Step]_vars /\ n # None
  BY DLQStep DEF StatusInv, LogRow, DLQInv, GatewayInv
<1>1. \A d \in Dispatches : of[d] = n => of'[d] = n
  BY <1>0, Lasting
<1>2. \A d \in Dispatches : Delivered(d) => Delivered(d)'
  BY <1>0, Lasting DEF Delivered
<1>3. deadLetters \subseteq deadLetters'
  BY <1>0, Lasting
<1>4. n \notin Malformed /\ Busy(n) => Busy(n)'
  BY <1>0, BusyStays
<1>5. Marked(n) => Marked(n)'
  BY <1>0, MarkedStays
<1>6. QED
  BY <1>0, <1>1, <1>2, <1>3, <1>4, <1>5 DEF RowTells

\* The end of an attempt: who writes SENT was accepted, who writes FAILED is buried,
\* who writes RETRYING is followed by an attempt that will write again.
LEMMA LogRowWritten ==
    ASSUME Calm, DLQInv, StatusInv, [DLQNext]_allVars, NEW n \in Notifications \ RealTime,
           NEW d \in Dispatches, NEW c \in Counts, of[d] = n, UpdateAuditLog(d, c)
    PROVE  RowTells(n)'
<1>0. Lineage /\ AboutToWrite /\ TypeOK /\ ChainInv
  BY DEF StatusInv, DLQInv, GatewayInv
<1>1. stage[d][c] \in LogStatus /\ UNCHANGED <<of, deadLetters, delivered>>
      /\ stage' = [stage EXCEPT ![d][c] = "done"]
  BY DEF UpdateAuditLog, Move
<1>2. status'[n] = stage[d][c]
  BY <1>0 DEF UpdateAuditLog, SetStatus, TypeOK, Calm
<1>3. CASE stage[d][c] = "SENT"
  BY <1>0, <1>1, <1>2, <1>3 DEF AboutToWrite, Delivered, RowTells
<1>4. CASE stage[d][c] = "FAILED"
  BY <1>0, <1>1, <1>2, <1>4 DEF AboutToWrite, RowTells
<1>5. CASE stage[d][c] = "RETRYING"
  <2>1. c <= MaxRetries
    BY <1>0, <1>5 DEF ChainInv
  <2>2. c + 1 \in Counts /\ c + 1 # c
    BY <2>1 DEF Counts
  <2>3. stage[d][c + 1] \in Waiting
    BY <1>0, <1>5 DEF AboutToWrite
  <2>4. stage'[d][c + 1] = stage[d][c + 1]
    BY <1>0, <1>1, <2>2 DEF TypeOK
  <2>5. of'[d] = n /\ stage'[d][c + 1] \in Running \cup Waiting
    BY <1>1, <2>3, <2>4
  <2>6. Busy(n)'
    BY <2>2, <2>5 DEF Busy
  <2>7. n \notin Malformed
    BY <1>0, <1>5 DEF ChainInv
  <2>8. QED
    BY <1>2, <1>5, <2>6, <2>7 DEF RowTells
<1>6. QED
  BY <1>1, <1>3, <1>4, <1>5 DEF LogStatus

\* Every step keeps StatusInv while at most the worker dies.
LEMMA StatusStep ==
    ASSUME Calm, DLQInv, StatusInv, [DLQNext]_allVars
    PROVE  StatusInv'
<1>0. /\ DLQTypeOK /\ TypeOK /\ ChainInv /\ KeptInv /\ DeskInv /\ [Step]_vars
      /\ Lineage /\ AboutToWrite /\ LogRow
      /\ "publish" \notin Faults /\ "postgres" \notin Faults /\ "resend" \notin Faults
      /\ SourceInv /\ status \in [Notifications -> StatusValues]
  BY DLQStep DEF DLQInv, GatewayInv, Calm, StatusInv, TypeOK, StatusValues
<1>1. Lineage' /\ AboutToWrite'
  BY <1>0, LineageStep, AboutToWriteStep
<1>2. LogRow'
  <2> SUFFICES ASSUME NEW n \in Notifications \ RealTime
               PROVE  RowTells(n)'
    BY DEF LogRow
  <2>1. CASE \E d \in Dispatches, c \in Counts : of[d] = n /\ UpdateAuditLog(d, c)
    BY <2>1, LogRowWritten
  <2>2. CASE /\ \A d \in Dispatches, c \in Counts : of[d] = n => ~UpdateAuditLog(d, c)
             /\ status'[n] = status[n]
    BY <2>2, LogRowKept
  <2>3. ASSUME NEW m \in Notifications, NEW d \in Dispatches, Dispatch(m, d), status'[n] # status[n]
        PROVE  RowTells(n)'
    <3>1. m = n /\ status'[n] = "PENDING"
      BY <1>0, <2>3 DEF Dispatch
    <3>2. 0 \in Counts /\ of'[d] = n /\ stage'[d][0] = "topic"
      BY <1>0, <2>3, <3>1 DEF Dispatch, Publish, TypeOK, Counts
    <3>3. QED
      BY <3>1, <3>2 DEF RowTells, Busy, Waiting
  <2>4. ASSUME NEW d \in Dispatches, LogFailed(d), status'[n] # status[n]
        PROVE  RowTells(n)'
    <3>1. of[d] = n /\ status'[n] = "FAILED"
      BY <1>0, <2>4 DEF LogFailed, SetStatus
    <3>2. d \in deadLetters /\ UNCHANGED <<of, deadLetters>>
      BY <1>0, <2>4 DEF LogFailed, DeskInv
    <3>3. QED
      BY <3>1, <3>2 DEF RowTells
  <2>5. ASSUME NEW o \in Operators, UpdateRow(o), status'[n] # status[n]
        PROVE  RowTells(n)'
    <3>1. PICK r \in Rows : r = op[o].row /\ r # None
      BY <1>0, <2>5 DEF UpdateRow, DLQTypeOK, Rows
    <3>2. of[r[1]] = n /\ status'[n] = "RETRYING" /\ rows' = [rows EXCEPT ![r] = "retried"]
      BY <1>0, <2>5, <3>1 DEF UpdateRow
    <3>3. PICK d \in Dispatches : origin[d] = r
      BY <1>0, <3>1 DEF Lineage
    <3>4. of[d] = n /\ UNCHANGED <<of, origin>>
      BY <1>0, <2>5, <3>1, <3>2, <3>3 DEF Lineage, UpdateRow
    <3>5. rows'[origin'[d]] = "retried"
      BY <1>0, <3>2, <3>3, <3>4 DEF DLQTypeOK
    <3>6. n \notin Malformed
      BY <1>0, <2>5, <3>1, <3>2 DEF DeskInv, SourceInv
    <3>7. QED
      BY <3>1, <3>2, <3>3, <3>4, <3>5, <3>6 DEF Marked, RowTells
  <2>6. CASE status'[n] # status[n] /\ ~\E d \in Dispatches, c \in Counts : UpdateAuditLog(d, c)
    BY <2>3, <2>4, <2>5, <2>6
       DEF DLQNext, Router, ResendDispatch, Resend, ResendDeadLetter, Gateway, ReadDispatch,
           Attempt, ReadRetry, Wake, ProcessWithAdapters, HydrateProviderConfig, Send,
           PublishToRetry, PublishToDLQ, Shutdown, Exit, Restart, HandleDeadLetter, CreateFailedNotification, CommitOffset, WorkerCrash, Operator,
           RetryNotification, RetryAll, EmitDispatch, PurgeNotification, allVars, vars
  <2>7. CASE status'[n] # status[n] /\ \E d \in Dispatches, c \in Counts : UpdateAuditLog(d, c)
    <3>1. PICK d \in Dispatches, c \in Counts : UpdateAuditLog(d, c)
      BY <2>7
    <3>2. of[d] = n
      BY <1>0, <2>7, <3>1 DEF UpdateAuditLog, SetStatus
    <3>3. QED
      BY <2>1, <3>1, <3>2
  <2>8. QED
    BY <2>2, <2>1, <2>6, <2>7
<1>3. QED
  BY <1>1, <1>2 DEF StatusInv

\* It holds in every reachable state.
LEMMA StatusHolds == ASSUME Calm PROVE DLQSpec => [](DLQInv /\ StatusInv)
<1>1. DLQInit => StatusInv
  <2> SUFFICES ASSUME DLQInit PROVE StatusInv
    OBVIOUS
  <2>1. \A o \in Operators : op[o].row = None
    BY DEF DLQInit, Idle
  <2>2. QED
    BY <2>1 DEF DLQInit, Init, StatusInv, Lineage, AboutToWrite, LogRow, RowTells
<1>2. DLQInv /\ StatusInv /\ [DLQNext]_allVars => StatusInv'
  BY StatusStep
<1>3. QED
  BY <1>1, <1>2, DLQHolds, PTL DEF DLQSpec

\* Once all who write the row have ended, it is right, or an operator retried the
\* notification and the row shows a trace of that.
LEMMA StatusSettled ==
    ASSUME Calm, DLQInv, StatusInv, NEW n \in Notifications \ RealTime,
           status[n] # "none", Settled(n), status[n] # Ending(n)
    PROVE  \E d \in Dispatches :
               /\ of[d] = n
               /\ origin[d] # None
               /\ \/ status[n] = "FAILED"
                  \/ status[n] = "RETRYING" /\ rows[origin[d]] \in {"retried", "purged"}
<1>0. /\ Lineage /\ RowTells(n) /\ TypeOK /\ DeliveryInv /\ SourceInv /\ n # None
      /\ "ambiguous" \notin Faults /\ status[n] \in {"SENT", "RETRYING", "FAILED", "PENDING"}
  BY DEF StatusInv, LogRow, DLQInv, GatewayInv, Calm, TypeOK, LogStatus
<1>1. ~Busy(n)
  BY DEF Settled, InProgress, Busy, Running, Waiting
<1>2. status[n] # "SENT" /\ status[n] # "PENDING"
  BY <1>0, <1>1 DEF RowTells, Ending, SourceInv, Delivered
<1>3. CASE status[n] = "RETRYING"
  BY <1>0, <1>1, <1>3 DEF RowTells, Marked
<1>4. CASE status[n] = "FAILED"
  <2>1. PICK d \in Dispatches : of[d] = n /\ d \in deadLetters
    BY <1>0, <1>4 DEF RowTells
  <2>2. PICK e \in Dispatches : of[e] = n /\ Delivered(e)
    BY <1>0, <1>4, <2>1 DEF Ending, SourceInv
  <2>3. d # e
    BY <1>0, <2>1, <2>2 DEF DeliveryInv, Delivered
  <2>4. origin[d] # None \/ origin[e] # None
    BY <1>0, <2>1, <2>2, <2>3 DEF Lineage
  <2>5. QED
    BY <1>4, <2>1, <2>2, <2>4
<1>5. QED
  BY <1>0, <1>2, <1>3, <1>4

\* With operators who retry at any moment, and a worker that may die at any moment:
\* a log row that does not show how its notification ended, PENDING for one that the
\* gateway could not read, is that of a notification an operator retried, and says
\* FAILED or RETRYING (OnlyRetriesMislead).
THEOREM StatusExplained == ASSUME Calm PROVE DLQSpec => []OnlyRetriesMislead
<1>1. DLQInv /\ StatusInv => OnlyRetriesMislead
  BY StatusSettled DEF OnlyRetriesMislead
<1>2. QED
  BY <1>1, StatusHolds, PTL

\* Without operators the row of every notification that all are done with shows how it
\* ended: SENT, FAILED or, if the gateway could not read its message, PENDING
\* (StatusShowsOutcome).
THEOREM StatusTold == ASSUME Calm, Operators = {} PROVE DLQSpec => []StatusShowsOutcome
<1>1. DLQInv /\ StatusInv => StatusShowsOutcome
  BY StatusSettled DEF StatusShowsOutcome, StatusInv, Lineage
<1>2. QED
  BY <1>1, StatusHolds, PTL
=============================================================================
