---------------------------- MODULE MCOidcLogin ----------------------------
(***************************************************************************)
(* Model-checking instance of OidcLogin.  Flows, callbacks and             *)
(* organizations are only compared, so permuting them is sound.            *)
(***************************************************************************)
EXTENDS OidcLogin, TLC

Symmetry == Permutations(Flows) \cup Permutations(Callbacks) \cup Permutations(Orgs)

=============================================================================
