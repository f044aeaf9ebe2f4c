--------------------------- MODULE MCApprovalGate ---------------------------
(***************************************************************************)
(* Model-checking instance of ApprovalGate: approvers and calls are model  *)
(* values that the gate only compares, so permuting them is sound.         *)
(***************************************************************************)
EXTENDS ApprovalGateRefinement, TLC

Symmetry == Permutations(Calls) \cup Permutations(Approvers)

=============================================================================
