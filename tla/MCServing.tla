------------------------------ MODULE MCServing ------------------------------
(* Serving on a small store. *)
EXTENDS Serving, TLC

CONSTANTS t1, t2, n1, n2, a1, a2

Symmetry ==
    Permutations(Threads) \cup Permutations(Tables) \cup Permutations(Activities)
        \cup Permutations(Menus)

=============================================================================
