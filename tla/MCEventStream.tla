---------------------------- MODULE MCEventStream ----------------------------
(* EventStream with a few clients and events. *)
EXTENDS EventStream, TLC

CONSTANTS c1, c2, e1, e2

Symmetry == Permutations(Clients) \cup Permutations(Events)

=============================================================================
