------------------------- MODULE MCIngressIdempotency -------------------------
(***************************************************************************)
(* Small instances of IngressIdempotency.  r1 and r2 are a request and its *)
(* retry; r3 carries the same key over another payload.                    *)
(***************************************************************************)
EXTENDS IngressIdempotency

CONSTANTS r1, r2, r3, k1, h1, h2

MCKeyOf == [r \in Requests |-> k1]
MCHashOf == [r \in Requests |-> IF r = r3 THEN h2 ELSE h1]

==============================================================================
