------------------------------ MODULE EventOnce ------------------------------
(***************************************************************************)
(* What the webhook promises its tenants about repeated requests           *)
(* (docs/Integration-Guide.md, section 4.2): of all the requests that      *)
(* carry one idempotency key, one claims the event and dispatches it once; *)
(* the others are answered without dispatching anything, and never before  *)
(* the event has been claimed.  A request may also fail with an error.     *)
(*                                                                         *)
(* The service may forget a key, and then promises nothing about it.  This *)
(* module knows nothing of Redis, Postgres or Kafka; IngressIdempotency    *)
(* implements it.                                                          *)
(***************************************************************************)
EXTENDS Naturals

CONSTANTS
    Requests,   \* trigger requests, each retry of a client is one of its own
    Keys,       \* idempotency keys
    KeyOf       \* KeyOf[r] is the idempotency key request r carries

VARIABLES
    claims,     \* claims[k]: the requests that own the event of key k
    sent,       \* requests that handed their event to the broker
    answered,   \* requests answered with success
    forgotten   \* keys about which the service does not know any more

onceVars == <<claims, sent, answered, forgotten>>

Init ==
    /\ claims = [k \in Keys |-> {}]
    /\ sent = {}
    /\ answered = {}
    /\ forgotten = {}

\* The first request of a key claims its event.
Claim(r) ==
    /\ claims[KeyOf[r]] = {}
    /\ claims' = [claims EXCEPT ![KeyOf[r]] = {r}]
    /\ UNCHANGED <<sent, answered, forgotten>>

\* The owner dispatches the event, once.
Dispatch(r) ==
    /\ r \in claims[KeyOf[r]]
    /\ r \notin sent
    /\ sent' = sent \cup {r}
    /\ UNCHANGED <<claims, answered, forgotten>>

\* The owner is answered after its dispatch, the others after the claim.
Reply(r) ==
    /\ claims[KeyOf[r]] # {}
    /\ r \in claims[KeyOf[r]] => r \in sent
    /\ answered' = answered \cup {r}
    /\ UNCHANGED <<claims, sent, forgotten>>

\* Key k is forgotten, now or since long.  Its requests may do anything, but what
\* they did stays done, and the other keys notice nothing.
Forgetful(k) ==
    /\ forgotten' = forgotten \cup {k}
    /\ \A j \in Keys \ {k} : claims'[j] = claims[j]
    /\ claims[k] \subseteq claims'[k]
    /\ sent \subseteq sent'
    /\ answered \subseteq answered'
    /\ \A r \in (sent' \ sent) \cup (answered' \ answered) : KeyOf[r] = k

Next ==
    \/ \E r \in Requests : Claim(r) \/ Dispatch(r) \/ Reply(r)
    \/ \E k \in Keys : Forgetful(k)

Spec == Init /\ [][Next]_onceVars
==============================================================================
