-------------------------- MODULE DistributedLock --------------------------
(***************************************************************************)
(* DistributedLockAspect: what every method annotated with @DistributedLock *)
(* runs inside.  A call takes the Redis locks of its keys one after the     *)
(* other, waits up to waitTime for each, runs the method in a transaction   *)
(* of its own if it got them all, and releases what it still holds.  A lock *)
(* has a lease: Redis drops it leaseTime after it was last granted, whether *)
(* or not its holder is done.                                               *)
(*                                                                          *)
(* The locks are Redisson's: reentrant, with a hold count, and owned by the *)
(* thread (they are external to the repository and modelled by what the     *)
(* aspect relies on).  Times are abstracted: a wait may end and a lease may *)
(* lapse at any moment.                                                     *)
(***************************************************************************)
EXTENDS Naturals, Sequences, FiniteSets

CONSTANTS
    Threads,   \* the request threads of all servers
    Keys,      \* lock keys
    Calls,     \* the key lists of the annotated methods
    None,      \* the owner of a free lock
    MaxHolds   \* bound on the holds of any lock when a call begins

ASSUME LockAssumption ==
    None \notin Threads /\ Calls \subseteq Seq(Keys) /\ MaxHolds \in Nat

VARIABLES
    owner,     \* of each lock in Redis
    holds,     \* its hold count
    pc,        \* where each thread is in DistributedLockAspect.lock
    call,      \* the keys it was called with, while in a call
    next,      \* the position of the lock its loop is at
    granted,   \* whether every tryLock so far returned true
    lapsed,    \* history: threads that lost a lease during their call
    thrown     \* history: threads an unlock threw in

redis == <<owner, holds>>
vars == <<owner, holds, pc, call, next, granted, lapsed, thrown>>

Init ==
    /\ owner = [k \in Keys |-> None]
    /\ holds = [k \in Keys |-> 0]
    /\ pc = [t \in Threads |-> "idle"]
    /\ call = [t \in Threads |-> << >>]
    /\ next = [t \in Threads |-> 1]
    /\ granted = [t \in Threads |-> TRUE]
    /\ lapsed = {}
    /\ thrown = {}

AtLock(t, step) == pc[t] = step /\ next[t] <= Len(call[t])

PastLocks(t, step) == pc[t] = step /\ next[t] > Len(call[t])

Lock(t) == call[t][next[t]]

Goto(t, step, i) ==
    /\ pc' = [pc EXCEPT ![t] = step]
    /\ next' = [next EXCEPT ![t] = i]

-----------------------------------------------------------------------------
(* The locks in Redis.                                                      *)

Free(k) ==
    /\ owner' = [owner EXCEPT ![k] = None]
    /\ holds' = [holds EXCEPT ![k] = 0]

\* A lease lapses.
Expire(k) ==
    /\ owner[k] # None
    /\ Free(k)
    /\ lapsed' = lapsed \cup {t \in Threads : t = owner[k] /\ pc[t] # "idle"}
    /\ UNCHANGED <<pc, call, next, granted, thrown>>

-----------------------------------------------------------------------------
(* One call.                                                                *)

Call(t) ==
    /\ pc[t] = "idle"
    /\ \A k \in Keys : holds[k] <= MaxHolds
    /\ \E keys \in Calls : call' = [call EXCEPT ![t] = keys]
    /\ Goto(t, "lock", 1)
    /\ UNCHANGED <<redis, granted, lapsed, thrown>>

\* Mutant: takes a lock over from its owner.
GrantFromOwner(t) ==
    /\ AtLock(t, "lock")
    /\ owner' = [owner EXCEPT ![Lock(t)] = t]
    /\ holds' = [holds EXCEPT ![Lock(t)] = @ + 1]
    /\ Goto(t, "lock", next[t] + 1)
    /\ UNCHANGED <<call, granted, lapsed, thrown>>

\* tryLock returns true.
Grant(t) ==
    /\ AtLock(t, "lock")
    /\ owner[Lock(t)] \in {None, t}
    /\ owner' = [owner EXCEPT ![Lock(t)] = t]
    /\ holds' = [holds EXCEPT ![Lock(t)] = @ + 1]
    /\ Goto(t, "lock", next[t] + 1)
    /\ UNCHANGED <<call, granted, lapsed, thrown>>

\* Mutant: waits without a limit.
WaitOn(t) ==
    /\ AtLock(t, "lock")
    /\ owner[Lock(t)] \notin {None, t}
    /\ UNCHANGED vars

\* tryLock returns false, waitTime after it was called; the loop goes on to
\* the next lock all the same.
TimeOut(t) ==
    /\ AtLock(t, "lock")
    /\ owner[Lock(t)] \notin {None, t}
    /\ granted' = [granted EXCEPT ![t] = FALSE]
    /\ Goto(t, "lock", next[t] + 1)
    /\ UNCHANGED <<redis, call, lapsed, thrown>>

TryLock(t) == Grant(t) \/ TimeOut(t)

\* The wait is interrupted, or Redis fails: the finally block runs.
Abort(t) ==
    /\ AtLock(t, "lock")
    /\ Goto(t, "check", 1)
    /\ granted' = [granted EXCEPT ![t] = TRUE]
    /\ UNCHANGED <<redis, call, lapsed, thrown>>

\* Mutant: proceeds whether or not every lock was granted.
ProceedRegardless(t) ==
    /\ PastLocks(t, "lock")
    /\ Goto(t, "work", next[t])
    /\ granted' = [granted EXCEPT ![t] = TRUE]
    /\ UNCHANGED <<redis, call, lapsed, thrown>>

Proceed(t) ==
    /\ PastLocks(t, "lock")
    /\ IF granted[t] THEN Goto(t, "work", next[t]) ELSE Goto(t, "check", 1)
    /\ granted' = [granted EXCEPT ![t] = TRUE]
    /\ UNCHANGED <<redis, call, lapsed, thrown>>

\* The method's transaction has committed, or rolled back.
Finish(t) ==
    /\ pc[t] = "work"
    /\ Goto(t, "check", 1)
    /\ UNCHANGED <<redis, call, granted, lapsed, thrown>>

\* Mutant: leaves the loop at the first lock it no longer holds.
CheckUpToFirst(t) ==
    /\ AtLock(t, "check")
    /\ IF owner[Lock(t)] = t
         THEN Goto(t, "unlock", next[t])
         ELSE Goto(t, "check", Len(call[t]) + 1)
    /\ UNCHANGED <<redis, call, granted, lapsed, thrown>>

\* The finally block asks whether the thread still holds the lock.
Check(t) ==
    /\ AtLock(t, "check")
    /\ IF owner[Lock(t)] = t
         THEN Goto(t, "unlock", next[t])
         ELSE Goto(t, "check", next[t] + 1)
    /\ UNCHANGED <<redis, call, granted, lapsed, thrown>>

\* The thread leaves the aspect, and its local variables are gone.
Leave(t) ==
    /\ Goto(t, "idle", 1)
    /\ call' = [call EXCEPT ![t] = << >>]
    /\ lapsed' = lapsed \ {t}

\* unlock gives up one hold.
Release(t) ==
    /\ pc[t] = "unlock"
    /\ owner[Lock(t)] = t
    /\ IF holds[Lock(t)] = 1
         THEN Free(Lock(t))
         ELSE /\ holds' = [holds EXCEPT ![Lock(t)] = @ - 1]
              /\ UNCHANGED owner
    /\ Goto(t, "check", next[t] + 1)
    /\ UNCHANGED <<call, granted, lapsed, thrown>>

\* The lease lapsed since the check: unlock throws, which leaves the locks
\* further on to their leases.
ReleaseFails(t) ==
    /\ pc[t] = "unlock"
    /\ owner[Lock(t)] # t
    /\ Leave(t)
    /\ thrown' = thrown \cup {t}
    /\ UNCHANGED <<redis, granted>>

Return(t) ==
    /\ PastLocks(t, "check")
    /\ Leave(t)
    /\ UNCHANGED <<redis, granted, thrown>>

Step(t) ==
    \/ TryLock(t) \/ Proceed(t) \/ Finish(t)
    \/ Check(t) \/ Release(t) \/ ReleaseFails(t) \/ Return(t)

Next ==
    \/ \E t \in Threads : Call(t) \/ Abort(t) \/ Step(t)
    \/ \E k \in Keys : Expire(k)

\* A tryLock returns within waitTime, a transaction ends and the code between
\* them runs: nothing is assumed of callers, leases or failures.
Spec == Init /\ [][Next]_vars /\ \A t \in Threads : WF_vars(Step(t))

-----------------------------------------------------------------------------
(* Correctness.                                                             *)

Steps == {"idle", "lock", "work", "check", "unlock"}

\* Locks are free or held by a thread, with a hold count to match.
TypeOK ==
    /\ owner \in [Keys -> Threads \cup {None}]
    /\ holds \in [Keys -> Nat]
    /\ \A k \in Keys : owner[k] = None <=> holds[k] = 0
    /\ pc \in [Threads -> Steps]
    /\ call \in [Threads -> Seq(Keys)]
    /\ next \in [Threads -> Nat \ {0}]
    /\ \A t \in Threads : pc[t] = "unlock" => next[t] \in 1 .. Len(call[t])
    /\ granted \in [Threads -> BOOLEAN]
    /\ lapsed \subseteq Threads
    /\ thrown \subseteq Threads

KeysOf(t) == {call[t][i] : i \in 1 .. Len(call[t])}

\* Two methods run at once on a common key only when a lease of one of them
\* has lapsed under it.
Exclusion ==
    \A t, u \in Threads :
        /\ t # u /\ pc[t] = "work" /\ pc[u] = "work"
        /\ KeysOf(t) \cap KeysOf(u) # {}
        => t \in lapsed \/ u \in lapsed

\* A thread is waiting in the loop of tryLock and in while its method runs.
Phase(t) ==
    IF pc[t] = "lock" THEN "waiting" ELSE IF pc[t] = "work" THEN "in" ELSE "out"

Underway(t) == pc[t] \in {"lock", "work"}

Promise ==
    INSTANCE LeaseLock WITH
        phase <- [t \in Threads |-> Phase(t)],
        needs <- [t \in Threads |-> IF Underway(t) THEN KeysOf(t) ELSE {}],
        late <- {t \in lapsed : Underway(t)}

\* The aspect keeps the promise of LeaseLock step by step: it lets a method
\* in only where LeaseLock would, and a call it refused or that was
\* interrupted never gets in.
KeepsPromise == Promise!Spec

\* A lock outlives the call that took it only where an unlock threw: every
\* other path out of the aspect, refused, interrupted or done, gives back
\* each hold it was granted, a key listed twice included.
NothingLeftLocked ==
    \A k \in Keys : \A t \in Threads :
        owner[k] = t /\ pc[t] = "idle" => t \in thrown

\* A call returns, if only refused: waiting for each other's locks, as two
\* moves between the same tables in opposite directions do, is not for ever.
EveryCallReturns == \A t \in Threads : pc[t] # "idle" ~> pc[t] = "idle"

=============================================================================
