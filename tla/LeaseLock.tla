------------------------------ MODULE LeaseLock ------------------------------
(***************************************************************************)
(* What @DistributedLock promises the services that are annotated with it,  *)
(* without saying how: a call names the keys it needs, waits, and is either *)
(* refused or lets its method in.  A method is let in only while no other   *)
(* is in on a key it shares, unless one of the two is late: its call        *)
(* outlived a lease.                                                        *)
(*                                                                          *)
(* Module DistributedLock implements it with the locks of Redis.            *)
(***************************************************************************)
CONSTANTS
    Threads,   \* the request threads of all servers
    Keys       \* lock keys

VARIABLES
    phase,     \* of the call of each thread
    needs,     \* the keys its method needs
    late       \* threads whose call outlived a lease

vars == <<phase, needs, late>>

Init ==
    /\ phase = [t \in Threads |-> "out"]
    /\ needs = [t \in Threads |-> {}]
    /\ late = {}

\* Threads t and u may be in their methods together.
Compatible(t, u) == t \in late \/ u \in late \/ needs[t] \cap needs[u] = {}

Ask(t) ==
    /\ phase[t] = "out"
    /\ phase' = [phase EXCEPT ![t] = "waiting"]
    /\ \E keys \in SUBSET Keys : needs' = [needs EXCEPT ![t] = keys]
    /\ UNCHANGED late

LetIn(t) ==
    /\ phase[t] = "waiting"
    /\ \A u \in Threads \ {t} : phase[u] = "in" => Compatible(t, u)
    /\ phase' = [phase EXCEPT ![t] = "in"]
    /\ UNCHANGED <<needs, late>>

\* The call is refused, or its method is done.
GoOut(t) ==
    /\ phase[t] # "out"
    /\ phase' = [phase EXCEPT ![t] = "out"]
    /\ needs' = [needs EXCEPT ![t] = {}]
    /\ late' = late \ {t}

\* A lease lapses.
BeLate(t) ==
    /\ phase[t] # "out"
    /\ late' = late \cup {t}
    /\ UNCHANGED <<phase, needs>>

Next == \E t \in Threads : Ask(t) \/ LetIn(t) \/ GoOut(t) \/ BeLate(t)

Spec == Init /\ [][Next]_vars

=============================================================================
