---------------------------- MODULE MCPosTables ----------------------------
(***************************************************************************)
(* PosTables for TLC: two tables, prices and amounts small enough to meet    *)
(* and to miss each other, one card number beside cash.                      *)
(***************************************************************************)
EXTENDS PosTables, TLC

MCPrices == {2}
MCAmounts == {1, 2}
MCDiscounts == {1}
MCLong == -16 .. 16

Symmetry == Permutations(Tables)

=============================================================================
