----------------------------- MODULE MCStoreDay -----------------------------
(***************************************************************************)
(* StoreDay for TLC: two managers, two guests, two table numbers.            *)
(***************************************************************************)
EXTENDS StoreDay, TLC

Symmetry == Permutations(Managers) \cup Permutations(Guests) \cup Permutations(Numbers)

=============================================================================
