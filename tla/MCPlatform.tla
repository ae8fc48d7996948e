------------------------------ MODULE MCPlatform ------------------------------
(***************************************************************************)
(* A small instance of Platform: the event of one request, for one user,   *)
(* and the copy that its producer may store, through everything that fails *)
(* around the router; an operator retries what was not delivered.          *)
(***************************************************************************)
EXTENDS Platform, TLC

CONSTANTS t1, e1, e2, k1, h1, d1, d2, o1

OneTenant == [e \in Events |-> t1]
OneRequest == [e \in Events |-> e1]
OneKey == [r \in Requests |-> k1]
OneHash == [r \in Requests |-> h1]
OneOfEach == [c \in Channels |-> 1]
Symmetric == Permutations(Dispatches)
===============================================================================
