------------------------ MODULE MCTenantIdentityCache ------------------------
(***************************************************************************)
(* Small instances of TenantIdentityCache.                                 *)
(***************************************************************************)
EXTENDS TenantIdentityCache

CONSTANTS k1, k2, k3, r1, r2, a1, a2, a3
=============================================================================
