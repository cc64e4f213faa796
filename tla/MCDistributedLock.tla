------------------------- MODULE MCDistributedLock -------------------------
(***************************************************************************)
(* DistributedLock for TLC: the calls of two tables, moveTable among them    *)
(* both ways round and from a table to itself.                               *)
(***************************************************************************)
EXTENDS DistributedLock

CONSTANTS k1, k2

MCCalls == {<<k1>>, <<k1, k2>>, <<k2, k1>>, <<k1, k1>>}

=============================================================================
