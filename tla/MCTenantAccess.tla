--------------------------- MODULE MCTenantAccess ---------------------------
(***************************************************************************)
(* Model-checking instance of TenantAccess.  Requests and the contents of  *)
(* provider columns are only compared, so permuting them is sound; one key *)
(* is the root key, and roles and relations are told apart.                *)
(***************************************************************************)
EXTENDS TenantAccess, TLC

Symmetry == Permutations(Requests) \cup Permutations(Clients)

=============================================================================
