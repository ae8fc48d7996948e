----------------------- MODULE TenantIdentityCacheProofs -----------------------
(***************************************************************************)
(* Proofs about TenantIdentityCache, for every set of keys, requests and   *)
(* endpoint calls, with and without failures and overlaps.                 *)
(***************************************************************************)
EXTENDS TenantIdentityCache, FiniteSetTheorems, TLAPS

\* Endpoint calls whose transaction has committed.
Committed == {a \in Admins : adm[a].pc \in {"cache", "done"}}

\* The endpoint calls can be counted.
LEMMA CallsAreFinite == Cardinality(Admins) \in Nat
  BY AdminsAssumption, FS_CardinalityType

\* Identities, and the absence of one.
LEMMA IdentityType ==
    /\ First \in Identity
    /\ Absent \in Cached /\ Absent \notin Identity
    /\ \A id \in Identity :
          /\ id = [active |-> id.active, linked |-> id.linked, rev |-> id.rev]
          /\ id.active \in BOOLEAN /\ id.linked \in BOOLEAN /\ id.rev \in Nat
          /\ id # Absent
  BY CallsAreFinite DEF First, Identity, Revisions, Absent, Cached

-----------------------------------------------------------------------------
(* Types *)

Call == [pc : AdmStep, kind : Endpoints, prev : Keys, key : Keys, id : Identity]
Request == [pc : ReqStep, key : Keys, seen : Cached]

\* No more revisions than committed calls.
TypeInv ==
    /\ TypeOK
    /\ row.id.rev <= Cardinality(Committed)

\* The initial state has the types.
LEMMA TypeInit == Init => TypeInv
<1>. SUFFICES ASSUME Init PROVE TypeInv
  OBVIOUS
<1>1. Committed = {}
  BY DEF Init, Committed
<1>2. Cardinality(Committed) = 0
  BY <1>1, FS_EmptySet
<1>3. row.id.rev <= Cardinality(Committed)
  BY <1>2 DEF Init, First
<1>4. TypeOK
  BY IdentityType, KeysAssumption
     DEF Init, TypeOK, Endpoints, ReqStep, AdmStep, Cached
<1>. QED
  BY <1>3, <1>4 DEF TypeInv

\* An endpoint call that has still to commit leaves room for its revision.
LEMMA CommittedBound ==
    /\ IsFiniteSet(Committed)
    /\ Cardinality(Committed) \in Nat
    /\ Cardinality(Committed) <= Cardinality(Admins)
    /\ \A a \in Admins \ Committed : Cardinality(Committed) + 1 <= Cardinality(Admins)
<1>1. Committed \subseteq Admins
  BY DEF Committed
<1>2. /\ IsFiniteSet(Committed)
      /\ Cardinality(Committed) <= Cardinality(Admins)
      /\ Cardinality(Committed) \in Nat
  BY <1>1, AdminsAssumption, FS_Subset, FS_CardinalityType
<1>3. ASSUME NEW a \in Admins \ Committed PROVE Cardinality(Committed) + 1 <= Cardinality(Admins)
  <2>1. Cardinality(Committed \cup {a}) = Cardinality(Committed) + 1
    BY <1>2, <1>3, FS_AddElement
  <2>2. Committed \cup {a} \subseteq Admins
    BY <1>1
  <2>3. Cardinality(Committed \cup {a}) <= Cardinality(Admins)
    BY <2>2, AdminsAssumption, FS_Subset
  <2>. QED
    BY <2>1, <2>3
<1>. QED
  BY <1>2, <1>3

\* What Redis answers is an identity or nothing.
LEMMA LookupType == TypeOK => \A k \in Keys : Lookup(k) \in Cached
  BY IdentityType DEF TypeOK, Lookup, Cached

\* Filling an entry keeps the types,
LEMMA FillType ==
    ASSUME TypeOK, NEW k \in Keys, NEW id \in Cached, Fill(k, id)
    PROVE  cache' \in [Keys -> Cached] /\ doubtful' \subseteq Keys
  BY DEF TypeOK, Fill

\* deleting entries,
LEMMA InvalidateType ==
    ASSUME TypeOK, NEW ks \in SUBSET Keys, Invalidate(ks)
    PROVE  cache' \in [Keys -> Cached] /\ doubtful' \subseteq Keys
<1>1. PICK failed \in SUBSET ks :
         /\ cache' = [k \in Keys |-> IF k \in ks \ failed THEN Absent ELSE cache[k]]
         /\ doubtful' = (doubtful \ ks) \cup failed
  BY DEF Invalidate
<1>. QED
  BY <1>1, IdentityType DEF TypeOK

\* A step of a request keeps the types if it changes the request alone.
LEMMA RequestStep ==
    ASSUME TypeInv, NEW r \in Requests, NEW q \in Request,
           q.pc = "warm" => q.seen # Absent, req' = [req EXCEPT ![r] = q],
           UNCHANGED <<row, issued, adm>>,
           cache' \in [Keys -> Cached], doubtful' \subseteq Keys, late' \subseteq Requests
    PROVE  TypeInv'
<1>1. req' \in [Requests -> Request]
  BY DEF TypeInv, TypeOK, Request
<1>2. \A s \in Requests : req'[s].pc = "warm" => req'[s].seen # Absent
  BY DEF TypeInv, TypeOK
<1>3. Committed' = Committed
  BY DEF Committed
<1>. QED
  BY <1>1, <1>2, <1>3 DEF TypeInv, TypeOK, Request

\* every step of a request,
LEMMA ResolveStep ==
    ASSUME TypeInv, NEW r \in Requests, ResolveTenant(r)
    PROVE  TypeInv'
<1>1. req[r] \in Request /\ cache[req[r].key] \in Cached /\ Lookup(req[r].key) \in Cached
  <2>1. req[r] \in Request
    BY DEF TypeInv, TypeOK, Request
  <2>2. req[r].key \in Keys
    BY <2>1 DEF Request
  <2>. QED
    BY <2>1, <2>2, LookupType DEF TypeInv, TypeOK
<1>2. CASE GetCached(r)
  <2>1. CASE req' = [req EXCEPT ![r].seen = cache[req[r].key], ![r].pc = Verdict(cache[req[r].key])]
    <3>1. PICK q \in Request : q = [req[r] EXCEPT !.seen = cache[req[r].key],
                                                  !.pc = Verdict(cache[req[r].key])]
      BY <1>1 DEF Request, ReqStep, Verdict
    <3>2. q.pc # "warm"
      BY <1>1, <3>1 DEF Request, Verdict
    <3>3. req' = [req EXCEPT ![r] = q]
      BY <2>1, <3>1 DEF TypeInv, TypeOK
    <3>. QED
      BY <1>2, <3>2, <3>3, RequestStep DEF GetCached, TypeInv, TypeOK
  <2>2. CASE req' = [req EXCEPT ![r].pc = "read"]
    <3>1. PICK q \in Request : q = [req[r] EXCEPT !.pc = "read"]
      BY <1>1 DEF Request, ReqStep
    <3>2. q.pc # "warm"
      BY <1>1, <3>1 DEF Request
    <3>3. req' = [req EXCEPT ![r] = q]
      BY <2>2, <3>1
    <3>. QED
      BY <1>2, <3>2, <3>3, RequestStep DEF GetCached, TypeInv, TypeOK
  <2>. QED
    BY <1>2, <2>1, <2>2 DEF GetCached
<1>3. CASE ReadTenant(r)
  <2>. DEFINE found == Lookup(req[r].key)
  <2>1. PICK q \in Request : q = [req[r] EXCEPT !.seen = found,
                                    !.pc = IF found = Absent THEN "refused" ELSE "warm"]
    BY <1>1 DEF Request, ReqStep
  <2>2. q.pc = "warm" => q.seen # Absent
    BY <1>1, <2>1 DEF Request
  <2>3. req' = [req EXCEPT ![r] = q]
    BY <1>3, <2>1 DEF ReadTenant, TypeInv, TypeOK
  <2>. QED
    BY <1>3, <2>2, <2>3, RequestStep DEF ReadTenant, TypeInv, TypeOK
<1>4. CASE WarmCache(r)
  <2>1. PICK q \in Request : q = [req[r] EXCEPT !.pc = Verdict(req[r].seen)]
    BY <1>1 DEF Request, ReqStep, Verdict
  <2>2. q.pc # "warm"
    BY <1>1, <2>1 DEF Request, Verdict
  <2>3. req' = [req EXCEPT ![r] = q]
    BY <1>4, <2>1 DEF WarmCache
  <2>4. cache' \in [Keys -> Cached] /\ doubtful' \subseteq Keys
    <3>1. req[r].key \in Keys /\ req[r].seen \in Cached
      BY <1>1 DEF Request
    <3>. QED
      BY <1>4, <3>1, FillType DEF WarmCache, TypeInv, TypeOK
  <2>. QED
    BY <1>4, <2>2, <2>3, <2>4, RequestStep DEF WarmCache, TypeInv, TypeOK
<1>. QED
  BY <1>2, <1>3, <1>4 DEF ResolveTenant
\* What the UPDATE of an endpoint may leave in the row.
LEMMA UpdatedRow ==
    ASSUME TypeOK, NEW kind \in Endpoints, NEW new \in Updated(kind)
    PROVE  /\ new.key \in Keys
           /\ new.id.active \in BOOLEAN /\ new.id.linked \in BOOLEAN
           /\ new.id.rev \in Nat /\ new.id.rev <= row.id.rev + 1
           /\ new = [key |-> new.key, id |-> [active |-> new.id.active,
                                              linked |-> new.id.linked, rev |-> new.id.rev]]
           /\ kind # "rotate" => new.key = row.key
           /\ kind = "rotate" => new.id = row.id
<1>1. /\ row = [key |-> row.key, id |-> row.id] /\ row.key \in Keys
      /\ row.id = [active |-> row.id.active, linked |-> row.id.linked, rev |-> row.id.rev]
      /\ row.id.active \in BOOLEAN /\ row.id.linked \in BOOLEAN /\ row.id.rev \in Nat
  BY IdentityType DEF TypeOK
<1>2. CASE kind = "update"
  <2>1. PICK b, l \in BOOLEAN :
           new = [row EXCEPT !.id = [active |-> b, linked |-> l, rev |-> @.rev + 1]]
    BY <1>2 DEF Updated
  <2>2. new = [key |-> row.key, id |-> [active |-> b, linked |-> l, rev |-> row.id.rev + 1]]
    BY <1>1, <2>1
  <2>. QED
    BY <1>1, <1>2, <2>2
<1>3. CASE kind = "rotate"
  <2>1. PICK k \in Keys \ issued : new = [row EXCEPT !.key = k]
    BY <1>3 DEF Updated
  <2>2. new = [key |-> k, id |-> row.id]
    BY <1>1, <2>1
  <2>. QED
    BY <1>1, <1>3, <2>2
<1>4. CASE kind \in {"suspend", "deactivate", "reactivate"}
  <2>0. \/ kind \in {"suspend", "deactivate"} /\ new = [row EXCEPT !.id.active = FALSE]
        \/ kind = "reactivate" /\ new = [row EXCEPT !.id.active = TRUE]
    <3>1. CASE kind = "reactivate"
      <4>1. Updated(kind) = {[row EXCEPT !.id.active = TRUE]}
        BY <3>1 DEF Updated
      <4>. QED
        BY <3>1, <4>1
    <3>2. CASE kind \in {"suspend", "deactivate"}
      <4>1. Updated(kind) = {[row EXCEPT !.id.active = FALSE]}
        BY <3>2 DEF Updated
      <4>. QED
        BY <3>2, <4>1
    <3>. QED
      BY <1>4, <3>1, <3>2
  <2>1. PICK b \in BOOLEAN : new = [row EXCEPT !.id.active = b]
    BY <2>0
  <2>2. new = [key |-> row.key, id |-> [active |-> b, linked |-> row.id.linked,
                                        rev |-> row.id.rev]]
    BY <1>1, <2>1
  <2>. QED
    BY <1>1, <1>4, <2>2
<1>. QED
  BY <1>2, <1>3, <1>4 DEF Endpoints

\* A call, field by field.
LEMMA CallType ==
    ASSUME TypeOK, NEW a \in Admins
    PROVE  /\ adm[a] \in Call
           /\ adm[a].kind \in Endpoints
           /\ adm[a].prev \in Keys /\ adm[a].key \in Keys /\ adm[a].id \in Identity
<1>1. adm[a] \in Call
  BY DEF TypeOK, Call
<1>. QED
  BY <1>1 DEF Call

\* The read of an endpoint keeps the types,
LEMMA ReadExistingStep ==
    ASSUME TypeInv, NEW a \in Admins, NEW kind \in Kinds, ReadExisting(a, kind)
    PROVE  TypeInv'
<1>1. adm[a] \in Call /\ kind \in Endpoints /\ row.key \in Keys
  BY CallType, KindsAssumption DEF TypeInv, TypeOK
<1>2. PICK c \in Call : c = [adm[a] EXCEPT !.pc = "commit", !.kind = kind, !.prev = row.key]
  BY <1>1 DEF Call, AdmStep
<1>3. adm' = [adm EXCEPT ![a] = c]
  BY <1>2 DEF ReadExisting, TypeInv, TypeOK
<1>4. c.pc = "commit" /\ adm[a].pc = "idle"
  BY <1>1, <1>2 DEF Call, ReadExisting
<1>5. adm' \in [Admins -> Call]
  BY <1>3 DEF TypeInv, TypeOK, Call
<1>6. Committed' = Committed
  BY <1>3, <1>4 DEF Committed, TypeInv, TypeOK
<1>. QED
  BY <1>5, <1>6 DEF ReadExisting, TypeInv, TypeOK, Call

\* its transaction,
LEMMA CommitUpdateStep ==
    ASSUME TypeInv, NEW a \in Admins, CommitUpdate(a)
    PROVE  TypeInv'
<1>1. adm[a] \in Call /\ adm[a].kind \in Endpoints
  BY CallType DEF TypeInv
<1>2. /\ row'.key \in Keys /\ row'.id.active \in BOOLEAN /\ row'.id.linked \in BOOLEAN
      /\ row'.id.rev \in Nat /\ row'.id.rev <= row.id.rev + 1
      /\ row' = [key |-> row'.key, id |-> [active |-> row'.id.active,
                                           linked |-> row'.id.linked, rev |-> row'.id.rev]]
  BY <1>1, UpdatedRow DEF CommitUpdate, TypeInv
<1>3. a \notin Committed
  BY DEF CommitUpdate, Committed
<1>4. row.id.rev \in Nat
  BY IdentityType DEF TypeInv, TypeOK
<1>5. row'.id.rev \in Revisions
  BY <1>2, <1>3, <1>4, CommittedBound, CallsAreFinite DEF TypeInv, Revisions
<1>6. row'.id \in Identity
  BY <1>2, <1>5 DEF Identity
<1>7. row' \in [key : Keys, id : Identity]
  BY <1>2, <1>6
<1>8. PICK c \in Call : c = [adm[a] EXCEPT !.pc = "cache", !.key = row'.key, !.id = row'.id]
  BY <1>1, <1>2, <1>6 DEF Call, AdmStep
<1>9. adm' = [adm EXCEPT ![a] = c]
  BY <1>8 DEF CommitUpdate, TypeInv, TypeOK
<1>10. adm' \in [Admins -> Call] /\ c.pc = "cache"
  BY <1>1, <1>8, <1>9 DEF TypeInv, TypeOK, Call
<1>11. Committed' = Committed \cup {a}
  BY <1>9, <1>10 DEF Committed, TypeInv, TypeOK
<1>12. Cardinality(Committed') = Cardinality(Committed) + 1
  <2>1. Cardinality(Committed \cup {a}) = Cardinality(Committed) + 1
    BY <1>3, CommittedBound, FS_AddElement
  <2>. QED
    BY <1>11, <2>1, Zenon
<1>13. row'.id.rev <= Cardinality(Committed')
  BY <1>2, <1>4, <1>12, CommittedBound DEF TypeInv
<1>14. /\ issued' \in SUBSET Keys /\ row'.key \in issued'
       /\ doubtful' \subseteq Keys /\ late' \subseteq Requests
  BY <1>2 DEF CommitUpdate, TypeInv, TypeOK
<1>. QED
  BY <1>7, <1>10, <1>13, <1>14 DEF CommitUpdate, TypeInv, TypeOK, Call

\* its update of the cache,
LEMMA AdjustCacheStep ==
    ASSUME TypeInv, NEW a \in Admins, AdjustCache(a)
    PROVE  TypeInv'
<1>1. adm[a] \in Call /\ adm[a].prev \in Keys /\ adm[a].key \in Keys /\ adm[a].id \in Identity
  BY CallType DEF TypeInv
<1>2. PICK c \in Call : c = [adm[a] EXCEPT !.pc = "done"]
  BY <1>1 DEF Call, AdmStep
<1>3. adm' = [adm EXCEPT ![a] = c] /\ c.pc = "done" /\ adm[a].pc = "cache"
  BY <1>1, <1>2 DEF AdjustCache, Call
<1>4. adm' \in [Admins -> Call]
  BY <1>3 DEF TypeInv, TypeOK, Call
<1>5. Committed' = Committed
  BY <1>3 DEF Committed, TypeInv, TypeOK
<1>6. cache' \in [Keys -> Cached] /\ doubtful' \subseteq Keys
  <2>1. Invalidated(adm[a]) \in SUBSET Keys /\ adm[a].id \in Cached
    BY <1>1 DEF Invalidated, Cached
  <2>2. CASE Invalidate(Invalidated(adm[a]))
    BY <2>1, <2>2, InvalidateType DEF TypeInv
  <2>3. CASE Fill(adm[a].key, adm[a].id)
    BY <1>1, <2>1, <2>3, FillType DEF TypeInv
  <2>4. CASE doubtful' = doubtful \cup {adm[a].key} /\ UNCHANGED cache
    BY <1>1, <2>4 DEF TypeInv, TypeOK
  <2>. QED
    BY <2>2, <2>3, <2>4 DEF AdjustCache
<1>. QED
  BY <1>4, <1>5, <1>6 DEF AdjustCache, TypeInv, TypeOK, Call

\* The row after a deletion of the provider configuration.
LEMMA UnlinkedRow ==
    ASSUME TypeOK, NEW a \in Admins, DeleteProvider(a)
    PROVE  /\ row'.key = row.key
           /\ row'.id = [row.id EXCEPT !.linked = FALSE]
           /\ row.id = [row'.id EXCEPT !.linked = TRUE]
           /\ row'.id \in Identity
           /\ row'.id.active = row.id.active
           /\ row'.id.rev = row.id.rev
           /\ row' \in [key : Keys, id : Identity]
<1>1. row \in [key : Keys, id : [active : BOOLEAN, linked : BOOLEAN, rev : Revisions]]
  BY DEF TypeOK, Identity
<1>2. row' = [row EXCEPT !.id.linked = FALSE] /\ row.id.linked
  BY DEF DeleteProvider
<1>3. row' \in [key : Keys, id : [active : BOOLEAN, linked : BOOLEAN, rev : Revisions]]
  BY <1>1, <1>2
<1>. QED
  BY <1>1, <1>2, <1>3 DEF Identity

\* The deletion of the provider configuration keeps the types,
LEMMA DeleteProviderStep ==
    ASSUME TypeInv, NEW a \in Admins, DeleteProvider(a)
    PROVE  TypeInv'
<1>1. adm[a] \in Call
  BY CallType DEF TypeInv
<1>2. PICK c \in Call : c = [adm[a] EXCEPT !.pc = "done"]
  BY <1>1 DEF Call, AdmStep
<1>3. adm' = [adm EXCEPT ![a] = c] /\ c.pc = "done"
  BY <1>1, <1>2 DEF DeleteProvider, Call
<1>4. adm' \in [Admins -> Call]
  BY <1>3 DEF TypeInv, TypeOK, Call
<1>5. a \notin Committed /\ Committed' = Committed \cup {a}
  BY <1>3 DEF Committed, DeleteProvider, TypeInv, TypeOK
<1>6. Cardinality(Committed \cup {a}) = Cardinality(Committed) + 1
  BY <1>5, CommittedBound, FS_AddElement
<1>7. Cardinality(Committed') = Cardinality(Committed) + 1
  BY <1>5, <1>6, Zenon
<1>8. row' \in [key : Keys, id : Identity] /\ row'.id.rev = row.id.rev /\ row'.key = row.key
  BY UnlinkedRow DEF TypeInv
<1>9. row.id.rev \in Nat
  BY IdentityType DEF TypeInv, TypeOK
<1>10. row'.id.rev <= Cardinality(Committed')
  BY <1>7, <1>8, <1>9, CommittedBound DEF TypeInv
<1>. QED
  BY <1>4, <1>8, <1>10 DEF DeleteProvider, TypeInv, TypeOK, Call

\* and so every step.
LEMMA TypeStep == TypeInv /\ [Next]_vars => TypeInv'
<1>. SUFFICES ASSUME TypeInv, [Next]_vars PROVE TypeInv'
  OBVIOUS
<1>1. CASE UNCHANGED vars
  BY <1>1 DEF vars, TypeInv, TypeOK, Committed
<1>2. ASSUME NEW r \in Requests, NEW k \in Keys, Arrive(r, k) PROVE TypeInv'
  <2>1. PICK q \in Request : q = [pc |-> "get", key |-> k, seen |-> Absent]
    BY IdentityType DEF Request, ReqStep
  <2>. QED
    BY <1>2, <2>1, RequestStep DEF Arrive, TypeInv, TypeOK
<1>3. ASSUME NEW r \in Requests, ResolveTenant(r) PROVE TypeInv'
  BY <1>3, ResolveStep
<1>4. ASSUME NEW a \in Admins, Endpoint(a) PROVE TypeInv'
  BY <1>4, ReadExistingStep, CommitUpdateStep, AdjustCacheStep, DeleteProviderStep
     DEF Endpoint
<1>5. ASSUME NEW k \in Keys, Expire(k) PROVE TypeInv'
  BY <1>5, IdentityType DEF Expire, TypeInv, TypeOK, Committed
<1>. QED
  BY <1>1, <1>2, <1>3, <1>4, <1>5 DEF Next

\* The types of row, cache, requests and calls; the revisions of the row never outrun
\* the endpoint calls.
THEOREM TypeCorrect == Spec => []TypeOK
<1>1. TypeInv => TypeOK
  BY DEF TypeInv
<1>. QED
  BY <1>1, TypeInit, TypeStep, PTL DEF Spec

-----------------------------------------------------------------------------
(* Staleness *)

\* The entries a committed call is still to touch.
Pending(call) == IF call.kind = "reactivate" THEN {call.key} ELSE Invalidated(call)

\* A stale entry that no deleted provider configuration explains.
Wrong(k) == Stale(k) /\ ~LacksDeletion(k)

\* Sharper than StalenessIsExplained: the call is about to adjust this very entry, so
\* that nothing stale is left unexplained after it.
StaleInv ==
    \A k \in Keys : Wrong(k) =>
        k \in doubtful \/ \E a \in Admins : adm[a].pc = "cache" /\ k \in Pending(adm[a])

\* Nothing is stale at first.
LEMMA StaleInit == Init => StaleInv
  BY DEF Init, StaleInv, Wrong, Stale

\* A fill is right or doubtful, and touches its own key only.
LEMMA FillStep ==
    ASSUME TypeOK, NEW k \in Keys, NEW id, Fill(k, id), UNCHANGED row
    PROVE  \A j \in Keys :
              IF j = k THEN Wrong(j)' => j \in doubtful'
                       ELSE (Wrong(j)' <=> Wrong(j)) /\ (j \in doubtful' <=> j \in doubtful)
<1>1. cache'[k] = id /\ \A j \in Keys \ {k} : cache'[j] = cache[j]
  BY DEF Fill, TypeOK
<1>2. \A j : Lookup(j)' = Lookup(j)
  BY DEF Lookup
<1>. QED
  BY <1>1, <1>2 DEF Fill, Wrong, Stale, LacksDeletion

\* A deleted entry is right or doubtful, and no other entry changes.
LEMMA InvalidateStep ==
    ASSUME TypeOK, NEW ks \in SUBSET Keys, Invalidate(ks), UNCHANGED row
    PROVE  \A j \in Keys :
              IF j \in ks THEN Wrong(j)' => j \in doubtful'
                          ELSE (Wrong(j)' <=> Wrong(j)) /\ (j \in doubtful' <=> j \in doubtful)
<1>1. PICK failed \in SUBSET ks :
         /\ cache' = [k \in Keys |-> IF k \in ks \ failed THEN Absent ELSE cache[k]]
         /\ doubtful' = (doubtful \ ks) \cup failed
  BY DEF Invalidate
<1>2. \A j : Lookup(j)' = Lookup(j)
  BY DEF Lookup
<1>. QED
  BY <1>1, <1>2 DEF Wrong, Stale, LacksDeletion

\* Every step keeps StaleInv.
LEMMA StaleStep == TypeOK /\ StaleInv /\ [Next]_vars => StaleInv'
<1>. SUFFICES ASSUME TypeOK, StaleInv, [Next]_vars PROVE StaleInv'
  OBVIOUS
<1>1. ASSUME UNCHANGED <<row, cache, adm, doubtful>> PROVE StaleInv'
  BY <1>1 DEF StaleInv, Wrong, Stale, LacksDeletion, Lookup
<1>2. ASSUME NEW r \in Requests, WarmCache(r) PROVE StaleInv'
  <2>1. CASE UNCHANGED <<cache, doubtful>>
    BY <1>1, <1>2, <2>1 DEF WarmCache
  <2>2. CASE Fill(req[r].key, req[r].seen)
    <3>1. req[r].key \in Keys
      BY DEF TypeOK
    <3>. QED
      BY <1>2, <2>2, <3>1, FillStep DEF WarmCache, StaleInv
  <2>. QED
    BY <1>2, <2>1, <2>2 DEF WarmCache
<1>3. ASSUME NEW k \in Keys, Expire(k) PROVE StaleInv'
  <2>1. cache'[k] = Absent /\ \A j \in Keys \ {k} : cache'[j] = cache[j]
    BY <1>3 DEF Expire, TypeOK
  <2>. QED
    BY <1>3, <2>1 DEF Expire, StaleInv, Wrong, Stale, LacksDeletion, Lookup
<1>4. ASSUME NEW a \in Admins, NEW kind \in Kinds, ReadExisting(a, kind) PROVE StaleInv'
  <2>1. adm[a].pc = "idle" /\ \A b \in Admins \ {a} : adm'[b] = adm[b]
    BY <1>4 DEF ReadExisting, TypeOK
  <2>. QED
    BY <1>4, <2>1 DEF ReadExisting, StaleInv, Wrong, Stale, LacksDeletion, Lookup
<1>5. ASSUME NEW a \in Admins, CommitUpdate(a) PROVE StaleInv'
  <2>1. adm[a] \in Call /\ adm[a].kind \in Endpoints
    BY CallType
  <2>2. /\ adm[a].kind # "rotate" => row'.key = row.key
        /\ adm[a].kind = "rotate" => row'.id = row.id
    BY <1>5, <2>1, UpdatedRow DEF CommitUpdate
  <2>3. /\ adm'[a].pc = "cache" /\ adm'[a].key = row'.key
        /\ adm'[a].prev = adm[a].prev /\ adm'[a].kind = adm[a].kind
    BY <1>5, <2>1 DEF CommitUpdate, TypeOK, Call
  <2>4. /\ adm[a].pc = "commit" /\ \A b \in Admins \ {a} : adm'[b] = adm[b]
        /\ cache' = cache /\ doubtful \subseteq doubtful'
        /\ adm[a].prev # row.key => row.key \in doubtful'
    BY <1>5 DEF CommitUpdate, TypeOK
  <2>5. ASSUME NEW k \in Keys, k \notin {row.key, row'.key}, Wrong(k)'
        PROVE  k \in doubtful' \/ \E b \in Admins : adm'[b].pc = "cache" /\ k \in Pending(adm'[b])
    BY <2>4, <2>5 DEF StaleInv, Wrong, Stale, LacksDeletion, Lookup
  <2>6. row.key \in doubtful' \/ row.key \in Pending(adm'[a])
    BY <2>1, <2>2, <2>3, <2>4 DEF Pending, Invalidated, Endpoints
  <2>7. row'.key # row.key => row'.key \in Pending(adm'[a])
    BY <2>2, <2>3 DEF Pending, Invalidated
  <2>. QED
    BY <2>3, <2>5, <2>6, <2>7 DEF StaleInv
<1>6. ASSUME NEW a \in Admins, AdjustCache(a) PROVE StaleInv'
  <2>1. /\ adm[a].prev \in Keys /\ adm[a].key \in Keys
        /\ adm[a].pc = "cache" /\ UNCHANGED row
    BY <1>6, CallType DEF AdjustCache
  <2>2. \A b \in Admins \ {a} : adm'[b] = adm[b]
    BY <1>6 DEF AdjustCache, TypeOK
  <2>3. \A j \in Keys :
            IF j \in Pending(adm[a]) THEN Wrong(j)' => j \in doubtful'
            ELSE (Wrong(j)' <=> Wrong(j)) /\ (j \in doubtful' <=> j \in doubtful)
    <3>1. CASE adm[a].kind # "reactivate" /\ Invalidate(Invalidated(adm[a]))
      <4>1. Pending(adm[a]) = Invalidated(adm[a]) /\ Invalidated(adm[a]) \in SUBSET Keys
        BY <2>1, <3>1 DEF Pending, Invalidated
      <4>2. \A j \in Keys :
                IF j \in Invalidated(adm[a]) THEN Wrong(j)' => j \in doubtful'
                ELSE (Wrong(j)' <=> Wrong(j)) /\ (j \in doubtful' <=> j \in doubtful)
        BY <2>1, <3>1, <4>1, InvalidateStep
      <4>. QED
        BY <4>1, <4>2
    <3>2. CASE adm[a].kind = "reactivate" /\ Fill(adm[a].key, adm[a].id)
      <4>1. Pending(adm[a]) = {adm[a].key}
        BY <3>2 DEF Pending
      <4>2. \A j \in Keys :
                IF j = adm[a].key THEN Wrong(j)' => j \in doubtful'
                ELSE (Wrong(j)' <=> Wrong(j)) /\ (j \in doubtful' <=> j \in doubtful)
        BY <2>1, <3>2, FillStep
      <4>. QED
        BY <4>1, <4>2
    <3>3. CASE adm[a].kind = "reactivate" /\ doubtful' = doubtful \cup {adm[a].key}
               /\ UNCHANGED cache
      BY <2>1, <3>3 DEF Pending, Wrong, Stale, LacksDeletion, Lookup
    <3>. QED
      BY <1>6, <3>1, <3>2, <3>3 DEF AdjustCache
  <2>. QED
    BY <2>2, <2>3 DEF StaleInv
<1>7. ASSUME NEW r \in Requests, NEW k \in Keys, Arrive(r, k) PROVE StaleInv'
  BY <1>1, <1>7 DEF Arrive
<1>8. ASSUME NEW r \in Requests, GetCached(r) \/ ReadTenant(r) PROVE StaleInv'
  BY <1>1, <1>8 DEF GetCached, ReadTenant
<1>9. CASE UNCHANGED vars
  BY <1>1, <1>9 DEF vars
<1>10. ASSUME NEW a \in Admins, DeleteProvider(a) PROVE StaleInv'
  <2>1. /\ UNCHANGED <<cache, doubtful>> /\ adm[a].pc = "idle"
        /\ \A b \in Admins \ {a} : adm'[b] = adm[b]
    BY <1>10 DEF DeleteProvider, TypeOK
  <2>2. /\ row'.key = row.key
        /\ row'.id = [row.id EXCEPT !.linked = FALSE]
        /\ row.id = [row'.id EXCEPT !.linked = TRUE]
        /\ row.id.linked
    BY <1>10, UnlinkedRow DEF DeleteProvider
  <2>3. ASSUME NEW k \in Keys, Wrong(k)' PROVE Wrong(k)
    <3>1. CASE k = row.key
      <4>1. Lookup(k) = row.id /\ Lookup(k)' = row'.id
        BY <2>2, <3>1 DEF Lookup
      <4>2. cache[k] # Absent /\ cache[k] # row.id
        BY <2>1, <2>2, <2>3, <4>1 DEF Wrong, Stale, LacksDeletion
      <4>3. row.id = [row.id EXCEPT !.linked = TRUE]
        BY <2>2
      <4>. QED
        BY <4>1, <4>2, <4>3 DEF Wrong, Stale, LacksDeletion
    <3>2. CASE k # row.key
      BY <2>1, <2>2, <2>3, <3>2 DEF Wrong, Stale, LacksDeletion, Lookup
    <3>. QED
      BY <3>1, <3>2
  <2>. QED
    BY <2>1, <2>3 DEF StaleInv
<1>. QED
  BY <1>2, <1>3, <1>4, <1>5, <1>6, <1>7, <1>8, <1>9, <1>10 DEF Next, ResolveTenant, Endpoint

\* A stale entry has one of the five named causes, whichever endpoints overlap, whatever
\* fails and however often keys are rotated.
THEOREM StalenessHasCauses == Spec => []StalenessIsExplained
<1>1. StaleInv => StalenessIsExplained
  BY DEF StaleInv, Wrong, StalenessIsExplained, Pending, Invalidated
<1>2. TypeInv => TypeOK
  BY DEF TypeInv
<1>. QED
  BY <1>1, <1>2, TypeInit, TypeStep, StaleInit, StaleStep, PTL DEF Spec

-----------------------------------------------------------------------------
(* Revocation *)

\* No command fails, no change of the row falls between a request's read and its
\* fill, and the endpoint calls follow one another.
Orderly == ~RedisFaults /\ ~CrossingFills /\ ~ConcurrentAdmins

\* Then calls and requests act on what the row says now.
OrderInv ==
    /\ doubtful = {}
    /\ \A a, b \in Admins : InProgress(a) /\ InProgress(b) => a = b
    /\ \A a \in Admins : adm[a].pc = "commit" => adm[a].prev = row.key
    /\ \A a \in Admins : adm[a].pc = "cache" => adm[a].key = row.key /\ adm[a].id = row.id
    /\ \A r \in Requests : req[r].pc = "warm" => req[r].seen = Lookup(req[r].key)

\* Why RevocationHolds holds: while a request is late its key has no active tenant,
\* neither in the row nor in the cache.
LateInv ==
    \A r \in late :
        /\ ~Lookup(req[r].key).active
        /\ ~cache[req[r].key].active
        /\ req[r].pc # "accepted"

\* In order, a deletion leaves nothing behind and a fill from the row is right.
LEMMA OrderlyCache ==
    ASSUME Orderly, TypeOK, doubtful = {}
    PROVE  /\ \A ks \in SUBSET Keys : Invalidate(ks) =>
                 /\ doubtful' = {}
                 /\ \A k \in Keys : cache'[k] = IF k \in ks THEN Absent ELSE cache[k]
           /\ \A k \in Keys : Fill(k, Lookup(k)) =>
                 /\ doubtful' = {}
                 /\ \A j \in Keys : cache'[j] = IF j = k THEN Lookup(k) ELSE cache[j]
BY DEF Orderly, TypeOK, Invalidate, Fill

\* The steps of requests keep both.
LEMMA RequestsInOrder ==
    ASSUME Orderly, TypeOK, OrderInv, LateInv, StaleInv, NEW r \in Requests,
           ResolveTenant(r) \/ \E k \in Keys : Arrive(r, k)
    PROVE  OrderInv' /\ LateInv'
<1>0. /\ req[r].key \in Keys /\ req[r].seen \in Cached
      /\ \A k \in Keys : Lookup(k) \in Cached /\ cache[k] \in Cached
      /\ \A id \in Cached : id.active \in BOOLEAN
      /\ \A s \in late : s \in Requests
  <2>1. req[r].key \in Keys /\ req[r].seen \in Cached
    BY DEF TypeOK
  <2>2. \A k \in Keys : Lookup(k) \in Cached /\ cache[k] \in Cached
    BY LookupType DEF TypeOK
  <2>3. \A id \in Cached : id.active \in BOOLEAN
    <3>1. Absent.active \in BOOLEAN
      BY DEF Absent
    <3>2. QED
      BY <3>1, IdentityType DEF Cached
  <2>4. \A s \in late : s \in Requests
    BY DEF TypeOK
  <2>5. QED
    BY <2>1, <2>2, <2>3, <2>4
<1>1. UNCHANGED <<row, adm>> /\ \A s \in Requests \ {r} : req'[s] = req[s]
  BY DEF ResolveTenant, GetCached, ReadTenant, WarmCache, Arrive, TypeOK
<1>2. ASSUME NEW k \in Keys, Arrive(r, k) PROVE OrderInv' /\ LateInv'
  <2>1. req'[r].pc = "get" /\ req'[r].key = k /\ UNCHANGED <<row, cache, adm, doubtful>>
    BY <1>2 DEF Arrive, TypeOK
  <2>2. OrderInv'
    BY <1>1, <2>1 DEF OrderInv, InProgress, Lookup
  <2>3. ASSUME r \in late' PROVE ~Lookup(k).active /\ ~cache[k].active
    <3>1. ~Lookup(k).active /\ \A a \in Admins : ~InProgress(a)
      BY <1>2, <2>3 DEF Arrive
    <3>2. ~Wrong(k)
      BY <3>1 DEF StaleInv, OrderInv, InProgress
    <3>3. CASE LacksDeletion(k)
      <4>1. cache[k].active = Lookup(k).active
        BY <1>0, <3>3, IdentityType DEF LacksDeletion, Cached, Absent
      <4>2. QED
        BY <3>1, <4>1
    <3>4. QED
      BY <3>1, <3>2, <3>3 DEF Wrong, Stale, Absent
  <2>4. late' \subseteq late \cup {r}
    BY <1>2 DEF Arrive
  <2>5. LateInv'
    BY <1>0, <1>1, <2>1, <2>3, <2>4 DEF LateInv, Lookup
  <2>6. QED
    BY <2>2, <2>5
<1>3. CASE GetCached(r)
  <2>1. /\ UNCHANGED <<row, cache, adm, doubtful, late>>
        /\ req'[r].key = req[r].key /\ req'[r].pc \in {Verdict(cache[req[r].key]), "read"}
    BY <1>3 DEF GetCached, TypeOK
  <2>2. OrderInv'
    BY <1>1, <2>1 DEF OrderInv, InProgress, Lookup, Verdict
  <2>3. LateInv'
    BY <1>0, <1>1, <2>1 DEF LateInv, Lookup, Verdict
  <2>4. QED
    BY <2>2, <2>3
<1>4. CASE ReadTenant(r)
  <2>1. /\ UNCHANGED <<row, cache, adm, doubtful, late>>
        /\ req'[r].key = req[r].key /\ req'[r].seen = Lookup(req[r].key)
        /\ req'[r].pc \in {"refused", "warm"}
    BY <1>4 DEF ReadTenant, TypeOK
  <2>2. OrderInv'
    BY <1>1, <2>1 DEF OrderInv, InProgress, Lookup
  <2>3. LateInv'
    BY <1>0, <1>1, <2>1 DEF LateInv, Lookup
  <2>4. QED
    BY <2>2, <2>3
<1>5. CASE WarmCache(r)
  <2>1. /\ UNCHANGED <<row, adm, late>> /\ req[r].pc = "warm"
        /\ req'[r].key = req[r].key /\ req'[r].pc = Verdict(req[r].seen)
        /\ Fill(req[r].key, req[r].seen)
    BY <1>5 DEF WarmCache, TypeOK, Orderly
  <2>2. req[r].seen = Lookup(req[r].key)
    BY <2>1 DEF OrderInv
  <2>3. doubtful' = {} /\ \A j \in Keys :
            cache'[j] = IF j = req[r].key THEN Lookup(req[r].key) ELSE cache[j]
    BY <1>0, <2>1, <2>2, OrderlyCache DEF OrderInv
  <2>4. OrderInv'
    BY <1>1, <2>1, <2>3 DEF OrderInv, InProgress, Lookup, Verdict
  <2>5. \A s \in late : req[s].key \in Keys
    BY <1>0 DEF TypeOK
  <2>6. ASSUME NEW s \in late
        PROVE  (~Lookup(req[s].key).active /\ ~cache[req[s].key].active /\ req[s].pc # "accepted")'
    <3>1. req'[s].key = req[s].key /\ s \in Requests
      BY <1>0, <1>1, <2>1
    <3>2. \A k : Lookup(k)' = Lookup(k)
      BY <2>1 DEF Lookup
    <3>3. ~Lookup(req[s].key).active /\ ~cache[req[s].key].active /\ req[s].pc # "accepted"
      BY DEF LateInv
    <3>4. ~cache'[req[s].key].active
      BY <2>3, <2>5, <3>3
    <3>5. req'[s].pc # "accepted"
      BY <1>1, <2>1, <2>2, <3>1, <3>3 DEF Verdict
    <3>6. QED
      BY <3>1, <3>2, <3>3, <3>4, <3>5
  <2>7. QED
    BY <2>1, <2>4, <2>6 DEF LateInv
<1>6. QED
  BY <1>2, <1>3, <1>4, <1>5 DEF ResolveTenant

\* So do the endpoints.
LEMMA EndpointsInOrder ==
    ASSUME Orderly, TypeOK, OrderInv, LateInv, NEW a \in Admins, Endpoint(a)
    PROVE  OrderInv' /\ LateInv'
<1>0. /\ \A r \in late : r \in Requests /\ req[r].key \in Keys
      /\ row.key \in Keys /\ adm[a].prev \in Keys /\ adm[a].key \in Keys
      /\ ~Absent.active
  BY CallType DEF TypeOK, Absent
<1>1. req' = req /\ \A b \in Admins \ {a} : adm'[b] = adm[b]
  BY DEF Endpoint, ReadExisting, CommitUpdate, AdjustCache, DeleteProvider, TypeOK
<1>2. ASSUME NEW kind \in Kinds, ReadExisting(a, kind) PROVE OrderInv' /\ LateInv'
  <2>1. /\ UNCHANGED <<row, cache, doubtful, late>> /\ \A b \in Admins : ~InProgress(b)
        /\ adm'[a].pc = "commit" /\ adm'[a].prev = row.key
    BY <1>2 DEF ReadExisting, TypeOK, Orderly
  <2>2. OrderInv'
    BY <1>1, <2>1 DEF OrderInv, InProgress, Lookup
  <2>3. LateInv'
    BY <1>1, <2>1 DEF LateInv, Lookup
  <2>4. QED
    BY <2>2, <2>3
<1>3. CASE CommitUpdate(a)
  <2>1. /\ adm[a].pc = "commit" /\ UNCHANGED cache
        /\ \A r \in Requests : req[r].pc # "warm"
        /\ adm'[a].pc = "cache" /\ adm'[a].key = row'.key /\ adm'[a].id = row'.id
        /\ late' = {r \in late : row'.key # req[r].key \/ ~row'.id.active}
        /\ doubtful' = IF adm[a].prev = row.key THEN doubtful ELSE doubtful \cup {row.key}
    BY <1>3 DEF CommitUpdate, TypeOK, Orderly
  <2>2. \A b \in Admins \ {a} : ~InProgress(b)
    BY <2>1 DEF OrderInv, InProgress
  <2>3. OrderInv'
    BY <1>1, <2>1, <2>2 DEF OrderInv, InProgress
  <2>4. LateInv'
    BY <1>0, <1>1, <2>1 DEF LateInv, Lookup
  <2>5. QED
    BY <2>3, <2>4
<1>4. CASE AdjustCache(a)
  <2>1. /\ adm[a].pc = "cache" /\ adm'[a].pc = "done" /\ UNCHANGED <<row, late>>
        /\ adm[a].key = row.key /\ adm[a].id = row.id /\ doubtful = {}
    BY <1>4 DEF AdjustCache, TypeOK, OrderInv
  <2>2. /\ doubtful' = {}
        /\ \A k \in Keys : cache'[k] \in {Absent, cache[k]} \/ cache'[k] = Lookup(k)
    <3>1. CASE Invalidate(Invalidated(adm[a]))
      <4>1. Invalidated(adm[a]) \in SUBSET Keys
        BY <1>0 DEF Invalidated
      <4>2. QED
        BY <2>1, <3>1, <4>1, OrderlyCache
    <3>2. CASE Fill(adm[a].key, adm[a].id)
      <4>1. adm[a].id = Lookup(adm[a].key)
        BY <2>1 DEF Lookup
      <4>2. QED
        BY <1>0, <2>1, <3>2, <4>1, OrderlyCache
    <3>3. QED
      BY <1>4, <3>1, <3>2 DEF AdjustCache, Orderly
  <2>3. OrderInv'
    BY <1>1, <2>1, <2>2 DEF OrderInv, InProgress, Lookup
  <2>4. LateInv'
    BY <1>0, <1>1, <2>1, <2>2 DEF LateInv, Lookup
  <2>5. QED
    BY <2>3, <2>4
<1>5. CASE DeleteProvider(a)
  <2>1. /\ UNCHANGED <<cache, doubtful, late>> /\ adm'[a].pc = "done"
        /\ \A b \in Admins : ~InProgress(b)
        /\ \A r \in Requests : req[r].pc # "warm"
    BY <1>5 DEF DeleteProvider, TypeOK, Orderly
  <2>2. row'.key = row.key /\ row'.id.active = row.id.active
    BY <1>5, UnlinkedRow
  <2>3. OrderInv'
    BY <1>1, <2>1 DEF OrderInv, InProgress
  <2>4. LateInv'
    BY <1>0, <1>1, <2>1, <2>2 DEF LateInv, Lookup
  <2>5. QED
    BY <2>3, <2>4
<1>6. QED
  BY <1>2, <1>3, <1>4, <1>5 DEF Endpoint

\* As long as nothing fails or crosses, a key that was rotated out, or whose tenant was
\* suspended, opens the webhook to no request that arrives after the endpoint has
\* answered (RevocationHolds), whatever is cached and whatever the endpoints do next.
THEOREM RevocationIsImmediate == ASSUME Orderly PROVE Spec => []RevocationHolds
<1>1. Init => OrderInv /\ LateInv
  BY DEF Init, OrderInv, LateInv, InProgress
<1>2. ASSUME TypeOK, StaleInv, OrderInv, LateInv, [Next]_vars PROVE OrderInv' /\ LateInv'
  <2>1. ASSUME NEW k \in Keys, Expire(k) PROVE OrderInv' /\ LateInv'
    <3>1. /\ UNCHANGED <<row, req, adm, late>> /\ doubtful' = {} /\ ~Absent.active
          /\ \A j \in Keys : cache'[j] \in {Absent, cache[j]}
      BY <1>2, <2>1 DEF Expire, TypeOK, OrderInv, Absent
    <3>2. \A r \in late : req[r].key \in Keys
      BY <1>2 DEF TypeOK
    <3>3. OrderInv'
      BY <1>2, <3>1 DEF OrderInv, InProgress, Lookup
    <3>4. LateInv'
      BY <1>2, <3>1, <3>2 DEF LateInv, Lookup
    <3>5. QED
      BY <3>3, <3>4
  <2>2. CASE UNCHANGED vars
    BY <1>2, <2>2 DEF vars, OrderInv, LateInv, InProgress, Lookup
  <2>3. QED
    BY <1>2, <2>1, <2>2, RequestsInOrder, EndpointsInOrder DEF Next
<1>3. LateInv => RevocationHolds
  BY DEF LateInv, RevocationHolds
<1>4. TypeInv => TypeOK
  BY DEF TypeInv
<1>. QED
  BY <1>1, <1>2, <1>3, <1>4, TypeInit, TypeStep, StaleInit, StaleStep, PTL DEF Spec
================================================================================
