---------------------------- MODULE MCSSFEmitter ----------------------------
(***************************************************************************)
(* Model-checking instance of SSFEmitter.  Receivers, emissions and event  *)
(* types are only compared, so permuting them is sound.                    *)
(***************************************************************************)
EXTENDS SSFEmitter, TLC

Symmetry ==
    Permutations(Receivers) \cup Permutations(Emissions) \cup Permutations(Topics)

=============================================================================
