---------------------------- MODULE MCOnboarding ----------------------------
(* Instances of Onboarding for TLC: one account applies for every store. *)
EXTENDS Onboarding, TLC

CONSTANT a1

MCApplicant == [r \in Registrations |-> a1]

Symmetry == Permutations(Transactions) \cup Permutations(Registrations)

=============================================================================
