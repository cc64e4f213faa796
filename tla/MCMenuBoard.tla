---------------------------- MODULE MCMenuBoard ----------------------------
(***************************************************************************)
(* MenuBoard for TLC.                                                       *)
(***************************************************************************)
EXTENDS MenuBoard, TLC

Symmetry == Permutations(Threads) \cup Permutations(Categories) \cup Permutations(Menus)

\* Boards of at most four rows: a category with three menus, or two with one each.
FewItems == Cardinality(DOMAIN rows) <= 4

\* The board is followed until a late transaction commits.
UpToLateCommit == ~lateCommit

=============================================================================
