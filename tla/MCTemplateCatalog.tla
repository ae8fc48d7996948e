-------------------------- MODULE MCTemplateCatalog --------------------------
(***************************************************************************)
(* A small instance of TemplateCatalog: one tenant that may have one       *)
(* template.                                                               *)
(***************************************************************************)
EXTENDS TemplateCatalog, TLC

CONSTANTS t1

OneEach == [t \in Tenants |-> 1]
Symmetric == Permutations(Calls) \cup Permutations(Slots)
===============================================================================
