----------------------------- MODULE MCKitchen -----------------------------
(***************************************************************************)
(* Kitchen for TLC.                                                         *)
(***************************************************************************)
EXTENDS Kitchen, TLC

Symmetry == Permutations(Orders)

=============================================================================
