--------------------------- MODULE MCWaitingLine ---------------------------
(***************************************************************************)
(* WaitingLine for TLC: two stores, two phone numbers, two threads.          *)
(***************************************************************************)
EXTENDS WaitingLine, TLC

Symmetry == Permutations(Threads) \cup Permutations(Stores) \cup Permutations(Phones)

=============================================================================
