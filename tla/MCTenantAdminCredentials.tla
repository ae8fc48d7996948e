----------------------- MODULE MCTenantAdminCredentials -----------------------
(***************************************************************************)
(* Small instances of TenantAdminCredentials.                              *)
(***************************************************************************)
EXTENDS TenantAdminCredentials, TLC

Symmetric == Permutations(Calls) \cup Permutations(Changes) \cup Permutations(Saves)
===============================================================================
