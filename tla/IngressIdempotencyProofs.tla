----------------------- MODULE IngressIdempotencyProofs -----------------------
(***************************************************************************)
(* Machine-checked facts about IngressIdempotency, for every set of        *)
(* requests, keys and payload hashes and every environment.                *)
(***************************************************************************)
EXTENDS IngressIdempotency, TLAPS

USE KeysAssumption, HashesAssumption, EnvironmentAssumption DEF history

\* The variables keep their types (TypeOK), whatever the environment does to
\* Redis, Postgres, Kafka and the replicas.
THEOREM TypeCorrect == Spec => []TypeOK
<1>1. Init => TypeOK
  BY DEF Init, TypeOK, Entry, NoEntry, Row, Step, Answer, Delivery
<1>2. TypeOK /\ [Next]_vars => TypeOK'
  <2> SUFFICES ASSUME TypeOK, [Next]_vars PROVE TypeOK'
    OBVIOUS
  <2> USE DEF TypeOK, Entry, NoEntry, Row, Step, Answer, Delivery,
              Goto, Finish, Disturb, Processing, Completed
  <2>1. ASSUME NEW r \in Requests, GetCached(r) PROVE TypeOK'
    <3>1. redis[KeyOf[r]] # NoEntry => redis[KeyOf[r]].status \in {"processing", "completed"}
      OBVIOUS
    <3>2. QED
      BY <2>1, <3>1 DEF GetCached, ResolveCached
  <2>2. ASSUME NEW r \in Requests, Reserve(r) PROVE TypeOK'
    BY <2>2 DEF Reserve, ReserveNX
  <2>3. ASSUME NEW r \in Requests, ReserveFails(r) PROVE TypeOK'
    BY <2>3 DEF ReserveFails, ReserveNX
  <2>4. ASSUME NEW r \in Requests, GetLatest(r) PROVE TypeOK'
    <3>1. redis[KeyOf[r]] # NoEntry => redis[KeyOf[r]].status \in {"processing", "completed"}
      OBVIOUS
    <3>2. QED
      BY <2>4, <3>1 DEF GetLatest, ResolveCached
  <2>5. ASSUME NEW r \in Requests, ResolveMismatch(r) PROVE TypeOK'
    BY <2>5 DEF ResolveMismatch, CollectExpired
  <2>6. ASSUME NEW r \in Requests, CheckPostgres(r) PROVE TypeOK'
    BY <2>6 DEF CheckPostgres, CollectExpired
  <2>7. ASSUME NEW r \in Requests, RefreshCompleted(r) PROVE TypeOK'
    BY <2>7 DEF RefreshCompleted, MarkCompleted
  <2>8. ASSUME NEW r \in Requests, Emit(r) \/ EmitFails(r) PROVE TypeOK'
    BY <2>8 DEF Emit, EmitFails
  <2>9. ASSUME NEW r \in Requests, ClearReservation(r) PROVE TypeOK'
    BY <2>9 DEF ClearReservation
  <2>10. ASSUME NEW r \in Requests, Complete(r) PROVE TypeOK'
    BY <2>10 DEF Complete, MarkCompleted
  <2>11. ASSUME NEW r \in Requests, Store(r) PROVE TypeOK'
    BY <2>11 DEF Store
  <2>12. ASSUME NEW r \in Requests, Settle(r) \/ Crash(r) PROVE TypeOK'
    BY <2>12 DEF Settle, Crash
  <2>13. ASSUME NEW k \in Keys, LoseEntry(k) \/ ExpireEntry(k) PROVE TypeOK'
    BY <2>13 DEF LoseEntry, ExpireEntry, DropEntry
  <2>14. ASSUME NEW k \in Keys, ExpireRow(k) PROVE TypeOK'
    BY <2>14 DEF ExpireRow
  <2>15. CASE UNCHANGED vars
    BY <2>15 DEF vars
  <2>16. QED
    BY <2>1, <2>2, <2>3, <2>4, <2>5, <2>6, <2>7, <2>8, <2>9, <2>10, <2>11,
       <2>12, <2>13, <2>14, <2>15 DEF Next, Handle
<1>3. QED
  BY <1>1, <1>2, PTL DEF Spec

-----------------------------------------------------------------------------
(* The safety invariants *)

\* Why OneDispatchPerWindow holds.  Until Redis fails a key, its fallback is not
\* reachable, only a request with the reservation gets as far as emitting, the
\* entry stands as long as there is such a request, and there is only one.
DispatchInv ==
    \A r \in Requests : KeyOf[r] \notin disturbed =>
        /\ pc[r] \notin {"fallback", "refresh"}
        /\ pc[r] = "reget" => redis[KeyOf[r]] # NoEntry
        /\ pc[r] = "emit" \/ Emitted(r) => r \in reserved
        /\ r \in reserved => redis[KeyOf[r]] # NoEntry
        /\ \A s \in reserved : r \in reserved /\ KeyOf[s] = KeyOf[r] => r = s

\* Why CompletionFollowsDispatch holds: the steps that record a completion come
\* after the emit of the same request, or find the row another one left.
CompletionInv ==
    /\ CompletionFollowsDispatch
    /\ \A r \in Requests :
        /\ pc[r] \in {"complete", "store"} => Emitted(r)
        /\ pc[r] = "refresh" => \E s \in Requests : KeyOf[s] = KeyOf[r] /\ Emitted(s)

\* What the refinement needs besides: a request emits at most once, holds no
\* reservation before it asks for one, and is answered last.
ProgressInv ==
    \A r \in Requests :
        /\ pc[r] \in {"get", "reserve", "reget", "mismatch", "fallback", "refresh", "emit", "clear"}
               => ~Emitted(r)
        /\ pc[r] \in {"complete", "store"} => Emitted(r)
        /\ pc[r] \in {"get", "reserve", "reget", "mismatch"} => r \notin reserved
        /\ pc[r] # "done" => reply[r] = "none"

\* Until Redis fails a key, its entry was reserved by some request, and a request
\* that met the entry of another payload met one of those.
OwnerInv ==
    /\ \A k \in Keys \ disturbed : redis[k] # NoEntry => \E s \in reserved : KeyOf[s] = k
    /\ \A r \in Requests :
        KeyOf[r] \notin disturbed /\ pc[r] = "mismatch" => \E s \in reserved : KeyOf[s] = KeyOf[r]

\* DispatchInv holds whatever fails.
LEMMA DispatchInvHolds == Spec => []DispatchInv
<1>1. Init => DispatchInv
  BY DEF Init, DispatchInv, Emitted
<1>2. TypeOK /\ DispatchInv /\ [Next]_vars => DispatchInv'
  <2> SUFFICES ASSUME TypeOK, DispatchInv, [Next]_vars PROVE DispatchInv'
    OBVIOUS
  <2> USE DEF TypeOK, DispatchInv, Emitted, NoEntry, Goto, Finish, Disturb,
              Processing, Completed, ResolveCached
  <2>1. ASSUME NEW r \in Requests, GetCached(r) PROVE DispatchInv'
    BY <2>1 DEF GetCached
  <2>2. ASSUME NEW r \in Requests, Reserve(r) PROVE DispatchInv'
    BY <2>2 DEF Reserve, ReserveNX
  <2>3. ASSUME NEW r \in Requests, ReserveFails(r) PROVE DispatchInv'
    BY <2>3 DEF ReserveFails, ReserveNX
  <2>4. ASSUME NEW r \in Requests, GetLatest(r) PROVE DispatchInv'
    BY <2>4 DEF GetLatest
  <2>5. ASSUME NEW r \in Requests, ResolveMismatch(r) PROVE DispatchInv'
    BY <2>5 DEF ResolveMismatch, CollectExpired
  <2>6. ASSUME NEW r \in Requests, CheckPostgres(r) PROVE DispatchInv'
    BY <2>6 DEF CheckPostgres, CollectExpired
  <2>7. ASSUME NEW r \in Requests, RefreshCompleted(r) PROVE DispatchInv'
    BY <2>7 DEF RefreshCompleted, MarkCompleted
  <2>8. ASSUME NEW r \in Requests, Emit(r) PROVE DispatchInv'
    BY <2>8 DEF Emit
  <2>9. ASSUME NEW r \in Requests, EmitFails(r) PROVE DispatchInv'
    BY <2>9 DEF EmitFails
  <2>10. ASSUME NEW r \in Requests, ClearReservation(r) PROVE DispatchInv'
    BY <2>10 DEF ClearReservation
  <2>11. ASSUME NEW r \in Requests, Complete(r) PROVE DispatchInv'
    BY <2>11 DEF Complete, MarkCompleted
  <2>12. ASSUME NEW r \in Requests, Store(r) PROVE DispatchInv'
    BY <2>12 DEF Store
  <2>13. ASSUME NEW r \in Requests, Settle(r) \/ Crash(r) PROVE DispatchInv'
    BY <2>13 DEF Settle, Crash
  <2>14. ASSUME NEW k \in Keys, LoseEntry(k) \/ ExpireEntry(k) PROVE DispatchInv'
    BY <2>14 DEF LoseEntry, ExpireEntry, DropEntry
  <2>15. ASSUME NEW k \in Keys, ExpireRow(k) PROVE DispatchInv'
    BY <2>15 DEF ExpireRow
  <2>16. CASE UNCHANGED vars
    BY <2>16 DEF vars
  <2>17. QED
    BY <2>1, <2>2, <2>3, <2>4, <2>5, <2>6, <2>7, <2>8, <2>9, <2>10, <2>11,
       <2>12, <2>13, <2>14, <2>15, <2>16 DEF Next, Handle
<1>3. QED
  BY <1>1, <1>2, TypeCorrect, PTL DEF Spec

\* At most one request of a key hands an event to Kafka while Redis keeps and
\* serves the key's entry (OneDispatchPerWindow), by the inductive DispatchInv.
THEOREM DispatchOnce == Spec => []OneDispatchPerWindow
<1>1. DispatchInv => OneDispatchPerWindow
  BY DEF DispatchInv, OneDispatchPerWindow
<1>2. QED
  BY <1>1, DispatchInvHolds, PTL

\* CompletionInv holds in any environment.
LEMMA CompletionInvHolds == Spec => []CompletionInv
<1>1. Init => CompletionInv
  BY DEF Init, CompletionInv, CompletionFollowsDispatch, NoEntry, Emitted
<1>2. TypeOK /\ CompletionInv /\ [Next]_vars => CompletionInv'
  <2> SUFFICES ASSUME TypeOK, CompletionInv, [Next]_vars PROVE CompletionInv'
    OBVIOUS
  <2> USE DEF TypeOK, CompletionInv, CompletionFollowsDispatch, Emitted, NoEntry,
              Goto, Finish, Disturb, Processing, Completed, ResolveCached
  <2>1. ASSUME NEW r \in Requests, GetCached(r) PROVE CompletionInv'
    BY <2>1 DEF GetCached
  <2>2. ASSUME NEW r \in Requests, Reserve(r) PROVE CompletionInv'
    BY <2>2 DEF Reserve, ReserveNX
  <2>3. ASSUME NEW r \in Requests, ReserveFails(r) PROVE CompletionInv'
    BY <2>3 DEF ReserveFails, ReserveNX
  <2>4. ASSUME NEW r \in Requests, GetLatest(r) PROVE CompletionInv'
    BY <2>4 DEF GetLatest
  <2>5. ASSUME NEW r \in Requests, ResolveMismatch(r) PROVE CompletionInv'
    BY <2>5 DEF ResolveMismatch, CollectExpired
  <2>6. ASSUME NEW r \in Requests, CheckPostgres(r) PROVE CompletionInv'
    BY <2>6 DEF CheckPostgres, CollectExpired
  <2>7. ASSUME NEW r \in Requests, RefreshCompleted(r) PROVE CompletionInv'
    BY <2>7 DEF RefreshCompleted, MarkCompleted
  <2>8. ASSUME NEW r \in Requests, Emit(r) PROVE CompletionInv'
    BY <2>8 DEF Emit
  <2>9. ASSUME NEW r \in Requests, EmitFails(r) PROVE CompletionInv'
    BY <2>9 DEF EmitFails
  <2>10. ASSUME NEW r \in Requests, ClearReservation(r) PROVE CompletionInv'
    BY <2>10 DEF ClearReservation
  <2>11. ASSUME NEW r \in Requests, Complete(r) PROVE CompletionInv'
    BY <2>11 DEF Complete, MarkCompleted
  <2>12. ASSUME NEW r \in Requests, Store(r) PROVE CompletionInv'
    BY <2>12 DEF Store
  <2>13. ASSUME NEW r \in Requests, Settle(r) \/ Crash(r) PROVE CompletionInv'
    BY <2>13 DEF Settle, Crash
  <2>14. ASSUME NEW k \in Keys, LoseEntry(k) \/ ExpireEntry(k) PROVE CompletionInv'
    BY <2>14 DEF LoseEntry, ExpireEntry, DropEntry
  <2>15. ASSUME NEW k \in Keys, ExpireRow(k) PROVE CompletionInv'
    BY <2>15 DEF ExpireRow
  <2>16. CASE UNCHANGED vars
    BY <2>16 DEF vars
  <2>17. QED
    BY <2>1, <2>2, <2>3, <2>4, <2>5, <2>6, <2>7, <2>8, <2>9, <2>10, <2>11,
       <2>12, <2>13, <2>14, <2>15, <2>16 DEF Next, Handle
<1>3. QED
  BY <1>1, <1>2, TypeCorrect, PTL DEF Spec

\* A completed Redis entry and a processed_events row exist only for an event
\* that was handed to Kafka (CompletionFollowsDispatch), in any environment.
THEOREM CompletionSound == Spec => []CompletionFollowsDispatch
<1>1. CompletionInv => CompletionFollowsDispatch
  BY DEF CompletionInv
<1>2. QED
  BY <1>1, CompletionInvHolds, PTL

\* ProgressInv holds whatever fails.
LEMMA ProgressInvHolds == Spec => []ProgressInv
<1>1. Init => ProgressInv
  BY DEF Init, ProgressInv, Emitted
<1>2. TypeOK /\ ProgressInv /\ [Next]_vars => ProgressInv'
  <2> SUFFICES ASSUME TypeOK, ProgressInv, [Next]_vars PROVE ProgressInv'
    OBVIOUS
  <2> USE DEF TypeOK, ProgressInv, Emitted, Goto, Finish
  <2>1. ASSUME NEW r \in Requests, GetCached(r) \/ GetLatest(r) PROVE ProgressInv'
    BY <2>1 DEF GetCached, GetLatest, ResolveCached
  <2>2. ASSUME NEW r \in Requests, Reserve(r) \/ ReserveFails(r) PROVE ProgressInv'
    BY <2>2 DEF Reserve, ReserveFails
  <2>3. ASSUME NEW r \in Requests, ResolveMismatch(r) \/ CheckPostgres(r) \/ RefreshCompleted(r)
        PROVE  ProgressInv'
    BY <2>3 DEF ResolveMismatch, CheckPostgres, RefreshCompleted
  <2>4. ASSUME NEW r \in Requests, Emit(r) \/ EmitFails(r) \/ ClearReservation(r)
        PROVE  ProgressInv'
    BY <2>4 DEF Emit, EmitFails, ClearReservation
  <2>5. ASSUME NEW r \in Requests, Complete(r) \/ Store(r) PROVE ProgressInv'
    BY <2>5 DEF Complete, Store
  <2>6. ASSUME NEW r \in Requests, Settle(r) \/ Crash(r) PROVE ProgressInv'
    BY <2>6 DEF Settle, Crash
  <2>7. ASSUME NEW k \in Keys, LoseEntry(k) \/ ExpireEntry(k) \/ ExpireRow(k) PROVE ProgressInv'
    BY <2>7 DEF LoseEntry, ExpireEntry, DropEntry, ExpireRow
  <2>8. CASE UNCHANGED vars
    BY <2>8 DEF vars
  <2>9. QED
    BY <2>1, <2>2, <2>3, <2>4, <2>5, <2>6, <2>7, <2>8 DEF Next, Handle
<1>3. QED
  BY <1>1, <1>2, TypeCorrect, PTL DEF Spec

-----------------------------------------------------------------------------
(* What an answer of success stands on *)

\* Some request of the key has emitted its event, is about to, or was silenced.
Backed(k) ==
    \E s \in Requests :
        KeyOf[s] = k /\ (Emitted(s) \/ pc[s] \in {"emit", "fallback"} \/ Gone(s))

\* Why SuccessIsBacked holds: an entry is only ever seen while its writer, or the
\* one who took over from it, is on its way to the emit, has emitted or was silenced.
BackedInv ==
    /\ SuccessIsBacked
    /\ \A k \in Keys : redis[k] # NoEntry => Backed(k)
    /\ \A r \in Requests : pc[r] = "mismatch" => Backed(KeyOf[r])

\* Who is about to emit does, or is silenced; what is done and who is silenced stays so.
LEMMA BackedStays ==
    ASSUME TypeOK, CompletionInv, ProgressInv, [Next]_vars, NEW k \in Keys, Backed(k)
    PROVE  Backed(k)'
<1> PICK s \in Requests :
        KeyOf[s] = k /\ (Emitted(s) \/ pc[s] \in {"emit", "fallback"} \/ Gone(s))
  BY DEF Backed
<1> USE DEF Goto, Finish, TypeOK
<1>1. ASSUME NEW t \in Requests, Emitted(t) PROVE Emitted(t)'
  BY <1>1 DEF Emitted, Next, Handle, GetCached, Reserve, ReserveFails, GetLatest, ResolveMismatch,
              CheckPostgres, RefreshCompleted, Emit, EmitFails, ClearReservation, Complete, Store,
              Settle, Crash, LoseEntry, ExpireEntry, ExpireRow, DropEntry, vars
<1>2. CASE Emitted(s)
  BY <1>1, <1>2 DEF Backed
<1>3. CASE pc[s] = "fallback" /\ CheckPostgres(s)
  <2>1. CASE audit[k] = "live"
    BY <1>1, <2>1 DEF CompletionInv, CompletionFollowsDispatch, Backed
  <2>2. CASE audit[k] # "live"
    BY <1>3, <2>2 DEF CheckPostgres, Backed, Gone
  <2>3. QED
    BY <2>1, <2>2
<1>4. CASE pc[s] = "emit" /\ (Emit(s) \/ EmitFails(s))
  BY <1>4 DEF Emit, EmitFails, Backed, Emitted, Gone
<1>5. CASE pc[s] = "clear" /\ ClearReservation(s)
  BY <1>5 DEF ClearReservation, Backed, Gone
<1>6. CASE pc[s]' = pc[s] /\ reply[s]' = reply[s] /\ resent \subseteq resent'
  BY <1>2, <1>6 DEF Backed, Gone
<1>7. CASE Crash(s)
  BY <1>7 DEF Crash, Backed, Gone
<1>8. resent \subseteq resent'
  BY DEF Next, Handle, GetCached, Reserve, ReserveFails, GetLatest, ResolveMismatch, Disturb,
         CheckPostgres, RefreshCompleted, MarkCompleted, Emit, EmitFails, ClearReservation,
         Complete, Store, Settle, Crash, LoseEntry, ExpireEntry, ExpireRow, DropEntry, vars
<1>9. ASSUME NEW r \in Requests, r # s, Handle(r) PROVE pc[s]' = pc[s] /\ reply[s]' = reply[s]
  BY <1>9 DEF Handle, GetCached, ResolveCached, Reserve, ReserveFails, GetLatest, ResolveMismatch,
              CheckPostgres, RefreshCompleted, Emit, EmitFails, ClearReservation, Complete, Store
<1>10. CASE Handle(s)
  <2>1. CASE KeyOf[s] \in resent
    BY <1>8, <2>1 DEF Backed, Gone
  <2>2. reply[s] = "none"
    BY <1>10 DEF ProgressInv, Handle, GetCached, Reserve, ReserveFails, GetLatest,
                 ResolveMismatch, CheckPostgres, RefreshCompleted, Emit, EmitFails,
                 ClearReservation, Complete, Store
  <2>3. CASE pc[s] \in {"emit", "fallback", "clear"}
    <3>1. \/ pc[s] = "emit" /\ (Emit(s) \/ EmitFails(s))
          \/ pc[s] = "fallback" /\ CheckPostgres(s)
          \/ pc[s] = "clear" /\ ClearReservation(s)
      BY <1>10, <2>3
         DEF Handle, GetCached, Reserve, ReserveFails, GetLatest, ResolveMismatch,
             CheckPostgres, RefreshCompleted, Emit, EmitFails, ClearReservation, Complete, Store
    <3>2. QED
      BY <1>3, <1>4, <1>5, <3>1
  <2>4. pc[s] # "crashed"
    BY <1>10 DEF Handle, GetCached, Reserve, ReserveFails, GetLatest, ResolveMismatch,
                 CheckPostgres, RefreshCompleted, Emit, EmitFails, ClearReservation,
                 Complete, Store
  <2>5. QED
    BY <1>2, <2>1, <2>2, <2>3, <2>4 DEF Gone
<1>11. QED
  BY <1>2, <1>6, <1>7, <1>8, <1>9, <1>10
     DEF Next, Settle, Crash, LoseEntry, ExpireEntry, ExpireRow, DropEntry, vars

\* A request answered with success leaves its event emitted, about to be, or in the
\* hands of a request that was silenced (SuccessIsBacked), in every environment.
THEOREM SuccessBacked == Spec => []SuccessIsBacked
<1>1. Init => BackedInv
  BY DEF Init, BackedInv, SuccessIsBacked, Success
<1>2. TypeOK /\ CompletionInv /\ ProgressInv /\ BackedInv /\ [Next]_vars => BackedInv'
  <2> SUFFICES ASSUME TypeOK, CompletionInv, ProgressInv, BackedInv, [Next]_vars PROVE BackedInv'
    OBVIOUS
  <2>0. \A k \in Keys : Backed(k) => Backed(k)'
    BY BackedStays
  <2>s. \A r \in Requests : Success(r) => Backed(KeyOf[r])
    BY DEF BackedInv, SuccessIsBacked, Backed
  <2> DEFINE Kept ==
        /\ \A r \in Requests : Success(r)' => Success(r) \/ Backed(KeyOf[r])
        /\ \A k \in Keys : redis'[k] # NoEntry => redis[k] # NoEntry \/ Backed(k) \/ Backed(k)'
        /\ \A r \in Requests : pc'[r] = "mismatch" => pc[r] = "mismatch" \/ Backed(KeyOf[r])
  <2>1. Kept => BackedInv'
    <3> SUFFICES ASSUME Kept PROVE BackedInv'
      OBVIOUS
    <3>1. \A r \in Requests : Success(r)' => Backed(KeyOf[r])'
      BY <2>0, <2>s
    <3>2. \A k \in Keys : redis'[k] # NoEntry => Backed(k)'
      BY <2>0 DEF BackedInv
    <3>3. \A r \in Requests : pc'[r] = "mismatch" => Backed(KeyOf[r])'
      BY <2>0 DEF BackedInv
    <3>4. QED
      BY <3>1, <3>2, <3>3 DEF BackedInv, SuccessIsBacked, Backed, NoEntry
  <2> USE DEF TypeOK, NoEntry, Goto, Finish, Processing, Completed, ResolveCached, Success
  <2>2. ASSUME NEW r \in Requests, GetCached(r) \/ GetLatest(r) PROVE Kept
    BY <2>2 DEF GetCached, GetLatest, BackedInv
  <2>3. ASSUME NEW r \in Requests, Reserve(r) PROVE Kept
    <3>1. CASE redis' = redis
      BY <2>3, <3>1 DEF Reserve
    <3>2. CASE redis' # redis
      <4>1. pc'[r] = "emit" /\ UNCHANGED reply /\ \A k \in Keys \ {KeyOf[r]} : redis'[k] = redis[k]
        BY <2>3, <3>2 DEF Reserve, ReserveNX
      <4>2. Backed(KeyOf[r])'
        BY <4>1 DEF Backed
      <4>3. QED
        BY <2>3, <3>2, <4>1, <4>2 DEF Reserve
    <3>3. QED
      BY <3>1, <3>2
  <2>4. ASSUME NEW r \in Requests, ReserveFails(r) PROVE Kept
    <3>1. /\ pc'[r] = "fallback" \/ KeyOf[r] \in resent'
          /\ UNCHANGED reply /\ \A k \in Keys \ {KeyOf[r]} : redis'[k] = redis[k]
      BY <2>4 DEF ReserveFails, ReserveNX
    <3>2. Backed(KeyOf[r])'
      BY <3>1 DEF Backed, Gone
    <3>3. QED
      BY <2>4, <3>1, <3>2 DEF ReserveFails
  <2>5. ASSUME NEW r \in Requests, ResolveMismatch(r) PROVE Kept
    BY <2>5 DEF ResolveMismatch, CollectExpired, BackedInv
  <2>6. ASSUME NEW r \in Requests, CheckPostgres(r) \/ Emit(r) \/ EmitFails(r) PROVE Kept
    BY <2>6 DEF CheckPostgres, CollectExpired, Emit, EmitFails
  <2>7. ASSUME NEW r \in Requests, RefreshCompleted(r) \/ Complete(r) \/ Store(r) PROVE Kept
    <3>1. Backed(KeyOf[r])
      BY <2>7 DEF RefreshCompleted, Complete, Store, CompletionInv, Backed
    <3>2. QED
      BY <2>7, <3>1 DEF RefreshCompleted, MarkCompleted, Complete, Store
  <2>8. ASSUME NEW r \in Requests, ClearReservation(r) PROVE Kept
    BY <2>8 DEF ClearReservation
  <2>9. ASSUME NEW r \in Requests, Settle(r) \/ Crash(r) PROVE Kept
    BY <2>9 DEF Settle, Crash
  <2>10. ASSUME NEW k \in Keys, LoseEntry(k) \/ ExpireEntry(k) \/ ExpireRow(k) PROVE Kept
    BY <2>10 DEF LoseEntry, ExpireEntry, DropEntry, ExpireRow
  <2>11. ASSUME UNCHANGED vars PROVE Kept
    BY <2>11 DEF vars
  <2> HIDE DEF Kept
  <2>12. QED
    BY <2>1, <2>2, <2>3, <2>4, <2>5, <2>6, <2>7, <2>8, <2>9, <2>10, <2>11 DEF Next, Handle
<1>3. BackedInv => SuccessIsBacked
  BY DEF BackedInv
<1>4. QED
  BY <1>1, <1>2, <1>3, TypeCorrect, CompletionInvHolds, ProgressInvHolds, PTL DEF Spec

-----------------------------------------------------------------------------
(* The refinement *)

\* OwnerInv holds whatever fails: entries are made by reservations only, except
\* behind the fallbacks, which an undisturbed key does not reach.
LEMMA OwnerInvHolds == Spec => []OwnerInv
<1>1. Init => OwnerInv
  BY DEF Init, OwnerInv
<1>2. TypeOK /\ DispatchInv /\ ProgressInv /\ OwnerInv /\ [Next]_vars => OwnerInv'
  <2> SUFFICES ASSUME TypeOK, DispatchInv, ProgressInv, OwnerInv, [Next]_vars PROVE OwnerInv'
    OBVIOUS
  <2> USE DEF TypeOK, OwnerInv, NoEntry, Goto, Finish, Disturb
  <2>1. ASSUME NEW r \in Requests, GetCached(r) PROVE OwnerInv'
    BY <2>1 DEF GetCached, ResolveCached
  <2>2. ASSUME NEW r \in Requests, Reserve(r) PROVE OwnerInv'
    <3>1. CASE redis[KeyOf[r]] = NoEntry
      <4>1. Processing(r) # NoEntry
        BY DEF Processing
      <4>2. redis' = [redis EXCEPT ![KeyOf[r]] = Processing(r)] /\ reserved' = reserved \cup {r}
        BY <2>2, <3>1, <4>1 DEF Reserve, ReserveNX
      <4>3. QED
        BY <2>2, <4>2 DEF Reserve
    <3>2. CASE redis[KeyOf[r]] # NoEntry
      BY <2>2, <3>2 DEF Reserve, ReserveNX
    <3>3. QED
      BY <3>1, <3>2
  <2>3. ASSUME NEW r \in Requests, ReserveFails(r) PROVE OwnerInv'
    BY <2>3 DEF ReserveFails, ReserveNX
  <2>4. ASSUME NEW r \in Requests, GetLatest(r) PROVE OwnerInv'
    BY <2>4 DEF GetLatest, ResolveCached
  <2>5. ASSUME NEW r \in Requests, ResolveMismatch(r) \/ CheckPostgres(r) PROVE OwnerInv'
    BY <2>5 DEF ResolveMismatch, CheckPostgres
  <2>6. ASSUME NEW r \in Requests, RefreshCompleted(r) PROVE OwnerInv'
    BY <2>6 DEF RefreshCompleted, MarkCompleted, DispatchInv
  <2>7. ASSUME NEW r \in Requests, Emit(r) \/ EmitFails(r) PROVE OwnerInv'
    BY <2>7 DEF Emit, EmitFails
  <2>8. ASSUME NEW r \in Requests, ClearReservation(r) PROVE OwnerInv'
    BY <2>8 DEF ClearReservation
  <2>9. ASSUME NEW r \in Requests, Complete(r) PROVE OwnerInv'
    BY <2>9 DEF Complete, MarkCompleted, DispatchInv, ProgressInv
  <2>10. ASSUME NEW r \in Requests, Store(r) \/ Settle(r) \/ Crash(r) PROVE OwnerInv'
    BY <2>10 DEF Store, Settle, Crash
  <2>11. ASSUME NEW k \in Keys, LoseEntry(k) \/ ExpireEntry(k) \/ ExpireRow(k) PROVE OwnerInv'
    BY <2>11 DEF LoseEntry, ExpireEntry, DropEntry, ExpireRow
  <2>12. CASE UNCHANGED vars
    BY <2>12 DEF vars
  <2>13. QED
    BY <2>1, <2>2, <2>3, <2>4, <2>5, <2>6, <2>7, <2>8, <2>9, <2>10, <2>11, <2>12
       DEF Next, Handle
<1>3. QED
  BY <1>1, <1>2, TypeCorrect, DispatchInvHolds, ProgressInvHolds, PTL DEF Spec

\* The handler implements EventOnce in every environment: the reservations are its
\* claims, emit its dispatch, and a step of a key that Redis has failed, now or
\* before, is a step about a forgotten key.
THEOREM RefinesEventOnce == Spec => ImplementsEventOnce
<1> DEFINE claims == [k \in Keys |-> {r \in reserved : KeyOf[r] = k}]
           sent == {r \in Requests : Emitted(r)}
           answered == {r \in Requests : Success(r)}
<1>1. Init => Once!Init
  BY DEF Init, Once!Init, Emitted, Success
<1>2. TypeOK /\ DispatchInv /\ ProgressInv /\ OwnerInv /\ [Next]_vars
        => [Once!Next]_(Once!onceVars)
  <2> SUFFICES ASSUME TypeOK, DispatchInv, ProgressInv, OwnerInv, [Next]_vars
               PROVE  Once!Next \/ UNCHANGED Once!onceVars
    OBVIOUS
  <2> USE DEF Once!onceVars
  \* A step of request r about a key that is forgotten after it.
  <2>f. ASSUME NEW r \in Requests, Handle(r), KeyOf[r] \in disturbed'
        PROVE  Once!Next
    <3> DEFINE k == KeyOf[r]
    <3>1. disturbed' = disturbed \cup {k}
      BY <2>f DEF Handle, GetCached, Reserve, ReserveFails, GetLatest, ResolveMismatch,
                  CheckPostgres, RefreshCompleted, MarkCompleted, Emit, EmitFails,
                  ClearReservation, Complete, Store, Disturb
    <3>2. reserved' \in {reserved, reserved \cup {r}}
      BY <2>f DEF Handle, GetCached, Reserve, ReserveFails, GetLatest, ResolveMismatch,
                  CheckPostgres, RefreshCompleted, Emit, EmitFails, ClearReservation,
                  Complete, Store
    <3>3. sent' \in {sent, sent \cup {r}}
      BY <2>f DEF Handle, GetCached, Reserve, ReserveFails, GetLatest, ResolveMismatch,
                  CheckPostgres, RefreshCompleted, Emit, EmitFails, ClearReservation,
                  Complete, Store, Emitted, TypeOK
    <3>4. pc[r] # "done"
      BY <2>f DEF Handle, GetCached, Reserve, ReserveFails, GetLatest, ResolveMismatch,
                  CheckPostgres, RefreshCompleted, Emit, EmitFails, ClearReservation,
                  Complete, Store
    <3>5. \E a : reply' = reply \/ reply' = [reply EXCEPT ![r] = a]
      BY <2>f DEF Handle, GetCached, Reserve, ReserveFails, GetLatest, ResolveCached,
                  ResolveMismatch, CheckPostgres, RefreshCompleted, Emit, EmitFails,
                  ClearReservation, Complete, Store, Finish
    <3>6. answered' \in {answered, answered \cup {r}}
      BY <3>4, <3>5 DEF Success, TypeOK, ProgressInv
    <3>7. Once!Forgetful(k)
      BY <3>1, <3>2, <3>3, <3>6 DEF Once!Forgetful
    <3>8. QED
      BY <3>7, KeysAssumption DEF Once!Next
  \* A success answer after the claim, and of the owner after its dispatch.
  <2>a. ASSUME NEW r \in Requests, UNCHANGED <<reserved, broker, disturbed>>,
               Finish(r, "completed") \/ Finish(r, "processing") \/ Finish(r, "dispatched"),
               \E s \in reserved : KeyOf[s] = KeyOf[r],
               r \in reserved => Emitted(r)
        PROVE  Once!Next
    <3>1. answered' = answered \cup {r}
      BY <2>a DEF Finish, Success, TypeOK, Answer
    <3>2. claims[KeyOf[r]] # {} /\ (r \in claims[KeyOf[r]] => r \in sent)
      BY <2>a DEF TypeOK
    <3>3. UNCHANGED <<claims, sent, disturbed>>
      BY <2>a DEF Emitted
    <3>4. Once!Reply(r)
      BY <3>1, <3>2, <3>3 DEF Once!Reply
    <3>5. QED
      BY <3>4 DEF Once!Next
  <2>1. ASSUME NEW r \in Requests, GetCached(r) \/ GetLatest(r), KeyOf[r] \notin disturbed'
        PROVE  Once!Next \/ UNCHANGED Once!onceVars
    <3>0. KeyOf[r] \notin disturbed
      BY <2>1 DEF GetCached, GetLatest, Disturb
    <3>1. CASE redis[KeyOf[r]] # NoEntry /\ redis[KeyOf[r]].hash = HashOf[r]
      <4>1. Finish(r, redis[KeyOf[r]].status) /\ UNCHANGED <<reserved, broker, disturbed>>
        BY <2>1, <3>1 DEF GetCached, GetLatest, ResolveCached, Disturb
      <4>2. redis[KeyOf[r]].status \in {"processing", "completed"}
        BY <3>1 DEF TypeOK, Entry
      <4>3. r \notin reserved /\ \E s \in reserved : KeyOf[s] = KeyOf[r]
        BY <2>1, <3>0, <3>1 DEF GetCached, GetLatest, ProgressInv, OwnerInv
      <4>4. QED
        BY <2>a, <4>1, <4>2, <4>3
    <3>2. CASE ~(redis[KeyOf[r]] # NoEntry /\ redis[KeyOf[r]].hash = HashOf[r])
      <4>1. UNCHANGED <<reserved, broker, disturbed, reply>>
        BY <2>1, <3>2 DEF GetCached, GetLatest, ResolveCached, Disturb
      <4>2. QED
        BY <4>1 DEF Emitted, Success
    <3>3. QED
      BY <3>1, <3>2
  <2>2. ASSUME NEW r \in Requests, Reserve(r), KeyOf[r] \notin disturbed'
        PROVE  Once!Next \/ UNCHANGED Once!onceVars
    <3>1. CASE redis[KeyOf[r]] = NoEntry
      <4>1. reserved' = reserved \cup {r}
        <5>1. Processing(r) # NoEntry
          BY DEF Processing, NoEntry
        <5>2. QED
          BY <2>2, <3>1, <5>1 DEF Reserve, ReserveNX, TypeOK
      <4>2. claims[KeyOf[r]] = {}
        BY <2>2, <3>1 DEF Reserve, DispatchInv, TypeOK
      <4>3. claims' = [claims EXCEPT ![KeyOf[r]] = {r}]
        BY <4>1, <4>2, KeysAssumption DEF TypeOK
      <4>4. UNCHANGED <<sent, answered, disturbed>>
        BY <2>2 DEF Reserve, Emitted, Success
      <4>5. Once!Claim(r)
        BY <4>2, <4>3, <4>4 DEF Once!Claim
      <4>6. QED
        BY <4>5 DEF Once!Next
    <3>2. CASE redis[KeyOf[r]] # NoEntry
      BY <2>2, <3>2 DEF Reserve, ReserveNX, Emitted, Success
    <3>3. QED
      BY <3>1, <3>2
  <2>3. ASSUME NEW r \in Requests, ResolveMismatch(r), KeyOf[r] \notin disturbed'
        PROVE  Once!Next \/ UNCHANGED Once!onceVars
    <3>1. CASE Finish(r, "error")
      <4>1. answered' = answered /\ UNCHANGED <<reserved, broker, disturbed>>
        BY <2>3, <3>1 DEF ResolveMismatch, Finish, Success, TypeOK, ProgressInv, Answer
      <4>2. QED
        BY <4>1 DEF Emitted
    <3>2. CASE Finish(r, "completed") \/ Finish(r, "processing")
      BY <2>a, <2>3, <3>2 DEF ResolveMismatch, ProgressInv, OwnerInv
    <3>3. QED
      BY <2>3, <3>1, <3>2 DEF ResolveMismatch
  <2>4. ASSUME NEW r \in Requests, Emit(r), KeyOf[r] \notin disturbed'
        PROVE  Once!Next \/ UNCHANGED Once!onceVars
    <3>1. sent' = sent \cup {r} /\ r \notin sent
      BY <2>4 DEF Emit, Emitted, TypeOK, Delivery, ProgressInv
    <3>2. r \in claims[KeyOf[r]]
      BY <2>4 DEF Emit, DispatchInv
    <3>3. UNCHANGED <<claims, answered, disturbed>>
      BY <2>4 DEF Emit, Success
    <3>4. Once!Dispatch(r)
      BY <3>1, <3>2, <3>3 DEF Once!Dispatch
    <3>5. QED
      BY <3>4 DEF Once!Next
  <2>5. ASSUME NEW r \in Requests, Store(r), KeyOf[r] \notin disturbed'
        PROVE  Once!Next \/ UNCHANGED Once!onceVars
    BY <2>5, <2>a DEF Store, DispatchInv, ProgressInv
  <2>6. ASSUME NEW r \in Requests, Complete(r) \/ EmitFails(r), KeyOf[r] \notin disturbed'
        PROVE  UNCHANGED Once!onceVars
    <3>1. r \in reserved
      BY <2>6 DEF Complete, EmitFails, MarkCompleted, Disturb, DispatchInv, ProgressInv
    <3>2. UNCHANGED <<reserved, broker, disturbed, reply>>
      BY <2>6, <3>1 DEF Complete, EmitFails, MarkCompleted, Disturb
    <3>3. QED
      BY <3>2 DEF Emitted, Success
  <2>7. ASSUME NEW r \in Requests, KeyOf[r] \notin disturbed',
               ReserveFails(r) \/ CheckPostgres(r) \/ RefreshCompleted(r) \/ ClearReservation(r)
        PROVE  FALSE
    BY <2>7 DEF ReserveFails, CheckPostgres, RefreshCompleted, MarkCompleted,
                ClearReservation, Disturb, DispatchInv
  <2>8. ASSUME NEW r \in Requests, Settle(r) \/ Crash(r)
        PROVE  UNCHANGED Once!onceVars
    BY <2>8 DEF Settle, Crash, Emitted, Success, TypeOK
  <2>9. ASSUME NEW k \in Keys, LoseEntry(k) \/ ExpireEntry(k) \/ ExpireRow(k)
        PROVE  Once!Next
    <3>1. disturbed' = disturbed \cup {k} /\ UNCHANGED <<reserved, broker, reply>>
      BY <2>9 DEF LoseEntry, ExpireEntry, DropEntry, ExpireRow, Disturb
    <3>2. UNCHANGED <<claims, sent, answered>>
      BY <3>1 DEF Emitted, Success
    <3>3. Once!Forgetful(k)
      BY <3>1, <3>2 DEF Once!Forgetful
    <3>4. QED
      BY <3>3 DEF Once!Next
  <2>10. CASE UNCHANGED vars
    BY <2>10 DEF vars, Emitted, Success
  <2>11. ASSUME NEW r \in Requests, Handle(r)
         PROVE  Once!Next \/ UNCHANGED Once!onceVars
    BY <2>f, <2>1, <2>2, <2>3, <2>4, <2>5, <2>6, <2>7, <2>11 DEF Handle
  <2>12. QED
    BY <2>8, <2>9, <2>10, <2>11 DEF Next
<1>3. QED
  BY <1>1, <1>2, TypeCorrect, DispatchInvHolds, ProgressInvHolds, OwnerInvHolds, PTL
     DEF Spec, ImplementsEventOnce, Once!Spec
==============================================================================
