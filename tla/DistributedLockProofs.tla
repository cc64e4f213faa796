----------------------- MODULE DistributedLockProofs -----------------------
(***************************************************************************)
(* Proofs about DistributedLock, for any threads, keys and key lists: the    *)
(* type invariant, and that a call keeps the others out as long as its       *)
(* leases last.                                                              *)
(***************************************************************************)
EXTENDS DistributedLock, FiniteSetTheorems, TLAPS

\* The locks a thread has been granted and not yet begun to give back: those
\* its loop has passed, none having been refused.
HoldsPassed(t) ==
    pc[t] \in {"lock", "work"} /\ granted[t] /\ t \notin lapsed =>
      \A i \in 1 .. Len(call[t]) : i < next[t] => owner[call[t][i]] = t

\* A method runs once its loop has passed every lock, none refused.
WorksWithAll(t) == pc[t] = "work" => granted[t] /\ next[t] > Len(call[t])

\* The inductive invariant.
IInv ==
    /\ TypeOK
    /\ \A t \in Threads : HoldsPassed(t) /\ WorksWithAll(t)

\* The lock a loop stands at is a lock.
LEMMA LockInKeys ==
  ASSUME TypeOK, NEW t \in Threads, next[t] <= Len(call[t])
  PROVE  /\ next[t] \in 1 .. Len(call[t]) /\ Lock(t) = call[t][next[t]]
         /\ Lock(t) \in Keys
  <1>1. call[t] \in Seq(Keys) /\ next[t] \in Nat \ {0} /\ Len(call[t]) \in Nat
    BY DEF TypeOK
  <1>2. next[t] \in 1 .. Len(call[t])
    BY <1>1
  <1>3. QED
    BY <1>1, <1>2 DEF Lock

\* No call is under way when the servers start.
LEMMA InitIInv == Init => IInv
  BY LockAssumption DEF Init, IInv, TypeOK, Steps, HoldsPassed, WorksWithAll

\* Every step of the aspect and every lapse of a lease keeps the types.
LEMMA NextTypeOK == TypeOK /\ [Next]_vars => TypeOK'
  <1> SUFFICES ASSUME TypeOK, [Next]_vars PROVE TypeOK'
    OBVIOUS
  <1> USE DEF TypeOK, Steps
  <1>1. ASSUME NEW t \in Threads, Call(t) PROVE TypeOK'
    BY <1>1, LockAssumption DEF Call, Goto, redis
  <1>2. ASSUME NEW t \in Threads, Grant(t) PROVE TypeOK'
    <2>1. Lock(t) \in Keys /\ next[t] + 1 \in Nat \ {0}
      BY <1>2, LockInKeys DEF Grant, AtLock
    <2>2. QED
      BY <1>2, <2>1, LockAssumption DEF Grant, AtLock, Goto
  <1>3. ASSUME NEW t \in Threads, TimeOut(t) PROVE TypeOK'
    BY <1>3 DEF TimeOut, AtLock, Goto, redis
  <1>4. ASSUME NEW t \in Threads, Abort(t) PROVE TypeOK'
    BY <1>4 DEF Abort, AtLock, Goto, redis
  <1>5. ASSUME NEW t \in Threads, Proceed(t) PROVE TypeOK'
    <2>1. CASE granted[t]
      BY <1>5, <2>1 DEF Proceed, PastLocks, Goto, redis
    <2>2. CASE ~granted[t]
      <3>1. Goto(t, "check", 1)
        BY <1>5, <2>2 DEF Proceed
      <3>2. QED
        BY <1>5, <3>1 DEF Proceed, PastLocks, Goto, redis
    <2>3. QED
      BY <2>1, <2>2
  <1>6. ASSUME NEW t \in Threads, Finish(t) PROVE TypeOK'
    BY <1>6 DEF Finish, Goto, redis
  <1>7. ASSUME NEW t \in Threads, Check(t) PROVE TypeOK'
    <2>1. next[t] \in 1 .. Len(call[t]) /\ next[t] + 1 \in Nat \ {0}
      BY <1>7, LockInKeys DEF Check, AtLock
    <2>2. QED
      BY <1>7, <2>1 DEF Check, AtLock, Goto, redis
  <1>8. ASSUME NEW t \in Threads, Release(t) PROVE TypeOK'
    <2>1. Lock(t) \in Keys /\ next[t] + 1 \in Nat \ {0}
      BY <1>8, LockInKeys DEF Release
    <2>2. /\ owner' \in [Keys -> Threads \cup {None}]
          /\ holds' \in [Keys -> Nat]
          /\ \A k \in Keys : owner'[k] = None <=> holds'[k] = 0
      <3>1. CASE holds[Lock(t)] = 1
        <4>1. /\ owner' = [owner EXCEPT ![Lock(t)] = None]
              /\ holds' = [holds EXCEPT ![Lock(t)] = 0]
          BY <1>8, <3>1 DEF Release, Free
        <4>2. QED
          BY <2>1, <4>1
      <3>2. CASE holds[Lock(t)] # 1
        <4>1. holds[Lock(t)] \in Nat \ {0, 1} /\ owner' = owner
          BY <1>8, <2>1, <3>2, LockAssumption DEF Release
        <4>2. holds[Lock(t)] - 1 \in Nat \ {0}
          BY <4>1
        <4>3. holds' = [holds EXCEPT ![Lock(t)] = holds[Lock(t)] - 1]
          BY <1>8, <3>2 DEF Release
        <4>4. owner[Lock(t)] # None
          BY <2>1, <4>1
        <4>5. QED
          BY <2>1, <4>1, <4>2, <4>3, <4>4
      <3>3. QED
        BY <3>1, <3>2
    <2>3. /\ pc' \in [Threads -> Steps]
          /\ next' \in [Threads -> Nat \ {0}]
          /\ \A u \in Threads : pc'[u] = "unlock" => next'[u] \in 1 .. Len(call[u])
      BY <1>8, <2>1 DEF Release, Goto
    <2>4. QED
      BY <1>8, <2>2, <2>3 DEF Release
  <1>9. ASSUME NEW t \in Threads, ReleaseFails(t) PROVE TypeOK'
    BY <1>9 DEF ReleaseFails, Leave, Goto, redis
  <1>10. ASSUME NEW t \in Threads, Return(t) PROVE TypeOK'
    BY <1>10 DEF Return, Leave, PastLocks, Goto, redis
  <1>11. ASSUME NEW k \in Keys, Expire(k) PROVE TypeOK'
    BY <1>11 DEF Expire, Free
  <1>12. CASE UNCHANGED vars
    BY <1>12 DEF vars
  <1>13. QED
    BY <1>1, <1>2, <1>3, <1>4, <1>5, <1>6, <1>7, <1>8, <1>9, <1>10, <1>11, <1>12
       DEF Next, Step, TryLock

\* A step keeps HoldsPassed and WorksWithAll: a lock changes hands only when
\* it is free, and is lost only by its lease or by a thread that gives it back.
LEMMA NextHolds == IInv /\ [Next]_vars => \A u \in Threads : (HoldsPassed(u) /\ WorksWithAll(u))'
  <1> SUFFICES ASSUME IInv, [Next]_vars, NEW u \in Threads
               PROVE  HoldsPassed(u)' /\ WorksWithAll(u)'
    OBVIOUS
  <1>0. TypeOK /\ HoldsPassed(u) /\ WorksWithAll(u)
    BY DEF IInv
  <1>1. /\ pc \in [Threads -> Steps] /\ call \in [Threads -> Seq(Keys)]
        /\ next \in [Threads -> Nat \ {0}] /\ granted \in [Threads -> BOOLEAN]
        /\ owner \in [Keys -> Threads \cup {None}]
    BY <1>0 DEF TypeOK
  <1>2. \A i \in 1 .. Len(call[u]) : call[u][i] \in Keys
    BY <1>1
  \* A thread outside the loop and the method promises nothing.
  <1>3. (pc'[u] \notin {"lock", "work"}) => HoldsPassed(u)' /\ WorksWithAll(u)'
    BY DEF HoldsPassed, WorksWithAll
  \* Nor does a step that leaves it and its locks alone change what it does.
  <1>4. ASSUME pc'[u] = pc[u], next'[u] = next[u], call'[u] = call[u], granted'[u] = granted[u],
               u \in lapsed => u \in lapsed',
               u \notin lapsed' => \A k \in Keys : owner[k] = u => owner'[k] = u
        PROVE  HoldsPassed(u)' /\ WorksWithAll(u)'
    BY <1>0, <1>2, <1>4 DEF HoldsPassed, WorksWithAll
  <1>5. ASSUME NEW t \in Threads, Call(t) PROVE HoldsPassed(u)' /\ WorksWithAll(u)'
    <2>1. CASE u = t
      BY <1>1, <1>5, <2>1 DEF Call, Goto, HoldsPassed, WorksWithAll, redis
    <2>2. CASE u # t
      BY <1>1, <1>4, <1>5, <2>2 DEF Call, Goto, redis
    <2>3. QED
      BY <2>1, <2>2
  <1>6. ASSUME NEW t \in Threads, Grant(t) PROVE HoldsPassed(u)' /\ WorksWithAll(u)'
    <2>1. Lock(t) \in Keys /\ Lock(t) = call[t][next[t]] /\ next[t] \in 1 .. Len(call[t])
      BY <1>0, <1>6, LockInKeys DEF Grant, AtLock
    <2>2. \A k \in Keys : owner'[k] = IF k = Lock(t) THEN t ELSE owner[k]
      BY <1>1, <1>6, <2>1 DEF Grant
    <2>3. CASE u = t
      <3>1. pc[u] = "lock" /\ pc'[u] = "lock" /\ call' = call /\ granted' = granted
            /\ lapsed' = lapsed /\ next'[u] = next[u] + 1
        BY <1>1, <1>6, <2>3 DEF Grant, AtLock, Goto
      <3>2. ASSUME granted[u], u \notin lapsed, NEW i \in 1 .. Len(call[u]), i < next[u] + 1
            PROVE  owner'[call[u][i]] = u
        BY <1>0, <1>1, <1>2, <2>1, <2>2, <2>3, <3>1, <3>2 DEF HoldsPassed
      <3>3. QED
        BY <3>1, <3>2 DEF HoldsPassed, WorksWithAll
    <2>4. CASE u # t
      <3>1. owner[Lock(t)] # u
        BY <1>6, <2>4, LockAssumption DEF Grant
      <3>2. QED
        BY <1>1, <1>4, <1>6, <2>2, <2>4, <3>1 DEF Grant, Goto
    <2>5. QED
      BY <2>3, <2>4
  <1>7. ASSUME NEW t \in Threads, TimeOut(t) PROVE HoldsPassed(u)' /\ WorksWithAll(u)'
    <2>1. CASE u = t
      BY <1>1, <1>7, <2>1 DEF TimeOut, AtLock, Goto, redis, HoldsPassed, WorksWithAll
    <2>2. CASE u # t
      BY <1>1, <1>4, <1>7, <2>2 DEF TimeOut, Goto, redis
    <2>3. QED
      BY <2>1, <2>2
  <1>8. ASSUME NEW t \in Threads, Proceed(t) PROVE HoldsPassed(u)' /\ WorksWithAll(u)'
    <2>1. CASE u = t
      <3>1. CASE granted[t]
        BY <1>0, <1>1, <1>8, <2>1, <3>1
           DEF Proceed, PastLocks, Goto, redis, HoldsPassed, WorksWithAll
      <3>2. CASE ~granted[t]
        <4>1. Goto(t, "check", 1)
          BY <1>8, <3>2 DEF Proceed
        <4>2. QED
          BY <1>1, <1>3, <2>1, <4>1 DEF Goto
      <3>3. QED
        BY <3>1, <3>2
    <2>2. CASE u # t
      <3>1. pc'[u] = pc[u] /\ next'[u] = next[u]
        <4>1. \E step \in {"work", "check"}, i \in Nat : Goto(t, step, i)
          <5>1. next[t] \in Nat
            BY <1>1
          <5>2. QED
            BY <1>8, <5>1 DEF Proceed
        <4>2. QED
          BY <1>1, <2>2, <4>1 DEF Goto
      <3>2. QED
        BY <1>1, <1>4, <1>8, <2>2, <3>1 DEF Proceed, redis
    <2>3. QED
      BY <2>1, <2>2
  <1>9. ASSUME NEW t \in Threads, Abort(t) PROVE HoldsPassed(u)' /\ WorksWithAll(u)'
    <2>1. CASE u = t
      BY <1>1, <1>3, <1>9, <2>1 DEF Abort, Goto
    <2>2. CASE u # t
      BY <1>1, <1>4, <1>9, <2>2 DEF Abort, Goto, redis
    <2>3. QED
      BY <2>1, <2>2
  <1>10. ASSUME NEW t \in Threads, Finish(t) PROVE HoldsPassed(u)' /\ WorksWithAll(u)'
    <2>1. CASE u = t
      BY <1>1, <1>3, <1>10, <2>1 DEF Finish, Goto
    <2>2. CASE u # t
      BY <1>1, <1>4, <1>10, <2>2 DEF Finish, Goto, redis
    <2>3. QED
      BY <2>1, <2>2
  <1>11. ASSUME NEW t \in Threads, Check(t) PROVE HoldsPassed(u)' /\ WorksWithAll(u)'
    <2>1. CASE u = t
      BY <1>1, <1>3, <1>11, <2>1 DEF Check, Goto
    <2>2. CASE u # t
      BY <1>1, <1>4, <1>11, <2>2 DEF Check, Goto, redis
    <2>3. QED
      BY <2>1, <2>2
  <1>12. ASSUME NEW t \in Threads, Release(t) PROVE HoldsPassed(u)' /\ WorksWithAll(u)'
    <2>1. CASE u = t
      BY <1>1, <1>3, <1>12, <2>1 DEF Release, Goto
    <2>2. CASE u # t
      <3>1. \A k \in Keys : owner[k] = u => owner'[k] = u
        BY <1>1, <1>12, <2>2 DEF Release, Free
      <3>2. QED
        BY <1>1, <1>4, <1>12, <2>2, <3>1 DEF Release, Goto
    <2>3. QED
      BY <2>1, <2>2
  <1>13. ASSUME NEW t \in Threads, Leave(t), UNCHANGED <<redis, granted>>
         PROVE  HoldsPassed(u)' /\ WorksWithAll(u)'
    <2>1. CASE u = t
      BY <1>1, <1>3, <1>13, <2>1 DEF Leave, Goto
    <2>2. CASE u # t
      BY <1>1, <1>4, <1>13, <2>2 DEF Leave, Goto, redis
    <2>3. QED
      BY <2>1, <2>2
  <1>14. ASSUME NEW k \in Keys, Expire(k) PROVE HoldsPassed(u)' /\ WorksWithAll(u)'
    <2>1. CASE pc[u] = "idle"
      BY <1>3, <1>14, <2>1 DEF Expire
    <2>2. CASE pc[u] # "idle"
      <3>1. u \notin lapsed' => owner[k] # u
        BY <1>14, <2>2 DEF Expire
      <3>2. QED
        BY <1>1, <1>4, <1>14, <3>1 DEF Expire, Free
    <2>3. QED
      BY <2>1, <2>2
  <1>15. CASE UNCHANGED vars
    BY <1>4, <1>15 DEF vars
  <1>16. QED
    BY <1>5, <1>6, <1>7, <1>8, <1>9, <1>10, <1>11, <1>12, <1>13, <1>14, <1>15
       DEF Next, Step, TryLock, Return, ReleaseFails

\* The inductive invariant holds in every reachable state.
THEOREM SpecIInv == Spec => []IInv
  <1>1. IInv /\ [Next]_vars => IInv'
    BY NextTypeOK, NextHolds DEF IInv
  <1>2. QED
    BY InitIInv, <1>1, PTL DEF Spec

\* The aspect's locals and the locks stay well typed, and a lock is free
\* exactly when nothing holds it.
THEOREM TypeCorrect == Spec => []TypeOK
  <1>1. IInv => TypeOK
    BY DEF IInv
  <1>2. QED
    BY <1>1, SpecIInv, PTL

\* Whatever the methods' keys, in whatever order they are listed, two methods
\* that share one run at once only after a lease of one of them lapsed.
THEOREM MutualExclusion == Spec => []Exclusion
  <1>1. IInv => Exclusion
    <2> SUFFICES ASSUME IInv, NEW t \in Threads, NEW u \in Threads, t # u,
                        pc[t] = "work", pc[u] = "work", t \notin lapsed, u \notin lapsed,
                        NEW k \in KeysOf(t) \cap KeysOf(u)
                 PROVE  FALSE
      BY DEF Exclusion
    <2>1. ASSUME NEW v \in Threads, pc[v] = "work", v \notin lapsed,
                 NEW i \in 1 .. Len(call[v])
          PROVE  owner[call[v][i]] = v
      <3>1. /\ HoldsPassed(v) /\ WorksWithAll(v)
            /\ next[v] \in Nat /\ Len(call[v]) \in Nat
        BY DEF IInv, TypeOK
      <3>2. i < next[v]
        BY <2>1, <3>1 DEF WorksWithAll
      <3>3. QED
        BY <2>1, <3>1, <3>2 DEF HoldsPassed, WorksWithAll
    <2>2. QED
      BY <2>1 DEF KeysOf
  <1>2. QED
    BY <1>1, SpecIInv, PTL

-----------------------------------------------------------------------------
(* The aspect implements LeaseLock.                                         *)

Phases == [t \in Threads |-> Phase(t)]

Needs == [t \in Threads |-> IF Underway(t) THEN KeysOf(t) ELSE {}]

Late == {t \in lapsed : Underway(t)}

\* The initial states of the aspect are initial states of its promise.
LEMMA InitPromise == Init => Promise!Init
  BY DEF Init, Promise!Init, Phase, Underway

\* A thread is late only during a call.
NoneLateIdle == \A t \in Threads : pc[t] = "idle" => t \notin lapsed

\* A lease that lapses makes only calls late, and a thread that leaves its
\* call is late no more.
LEMMA SpecNoneLateIdle == Spec => []NoneLateIdle
  <1>1. Init => NoneLateIdle
    BY DEF Init, NoneLateIdle
  <1>2. TypeOK /\ NoneLateIdle /\ [Next]_vars => NoneLateIdle'
    <2> SUFFICES ASSUME TypeOK, NoneLateIdle, [Next]_vars,
                        NEW u \in Threads, pc'[u] = "idle"
                 PROVE  u \notin lapsed'
      BY DEF NoneLateIdle
    <2>0. pc \in [Threads -> Steps] /\ (pc[u] = "idle" => u \notin lapsed)
      BY DEF TypeOK, NoneLateIdle
    <2>1. ASSUME NEW t \in Threads, ReleaseFails(t) \/ Return(t) PROVE u \notin lapsed'
      BY <2>0, <2>1 DEF ReleaseFails, Return, Leave, Goto
    <2>2. ASSUME NEW t \in Threads, Call(t) \/ Abort(t) \/ Finish(t) PROVE u \notin lapsed'
      BY <2>0, <2>2 DEF Call, Abort, Finish, Goto
    <2>3. ASSUME NEW t \in Threads, TryLock(t) PROVE u \notin lapsed'
      BY <2>0, <2>3 DEF TryLock, Grant, TimeOut, Goto, AtLock
    <2>4. ASSUME NEW t \in Threads, Proceed(t) \/ Check(t) PROVE u \notin lapsed'
      BY <2>0, <2>4 DEF Proceed, Check, Goto
    <2>5. ASSUME NEW t \in Threads, Release(t) PROVE u \notin lapsed'
      BY <2>0, <2>5 DEF Release, Goto
    <2>6. ASSUME NEW k \in Keys, Expire(k) PROVE u \notin lapsed'
      BY <2>0, <2>6 DEF Expire
    <2>7. CASE UNCHANGED vars
      BY <2>0, <2>7 DEF vars
    <2>8. QED
      BY <2>1, <2>2, <2>3, <2>4, <2>5, <2>6, <2>7 DEF Next, Step
  <1>3. QED
    BY <1>1, <1>2, TypeCorrect, PTL DEF Spec

\* What a step of one thread does to the variables of the promise.
LEMMA OneThread ==
  ASSUME NEW t \in Threads,
         \A u \in Threads \ {t} : pc'[u] = pc[u] /\ call'[u] = call[u]
  PROVE  /\ Phases' = [Phases EXCEPT ![t] = Phase(t)']
         /\ Needs' = [Needs EXCEPT ![t] = IF Underway(t)' THEN KeysOf(t)' ELSE {}]
  <1>1. \A u \in Threads \ {t} :
            /\ Phase(u)' = Phase(u) /\ Underway(u)' = Underway(u)
            /\ KeysOf(u)' = KeysOf(u)
    BY DEF Phase, Underway, KeysOf
  <1>2. QED
    BY <1>1 DEF Phases, Needs

\* A call that leaves the loop or the method goes out.
LEMMA GoingOut ==
  ASSUME NEW t \in Threads, Underway(t), ~Underway(t)', lapsed \ {t} \subseteq lapsed',
         lapsed' \subseteq lapsed,
         \A u \in Threads \ {t} : pc'[u] = pc[u] /\ call'[u] = call[u],
         lapsed \subseteq Threads
  PROVE  Promise!GoOut(t)
  <1>1. Phase(t) # "out" /\ Phase(t)' = "out"
    BY DEF Phase, Underway
  <1>2. Late' = Late \ {t}
    BY DEF Late, Underway
  <1>3. QED
    BY <1>1, <1>2, OneThread DEF Promise!GoOut, Phases, Needs, Late

\* A step inside the loop, inside the method or outside of both is none of
\* the promise.
LEMMA Inside ==
  ASSUME NEW t \in Threads, Underway(t)' = Underway(t),
         Underway(t) => pc'[t] = pc[t] /\ call'[t] = call[t] /\ lapsed' = lapsed,
         lapsed' \subseteq lapsed, lapsed \ {t} \subseteq lapsed',
         \A u \in Threads \ {t} : pc'[u] = pc[u] /\ call'[u] = call[u],
         lapsed \subseteq Threads
  PROVE  UNCHANGED Promise!vars
  <1>1. Phase(t)' = Phase(t) /\ (Underway(t) => KeysOf(t)' = KeysOf(t))
    BY DEF Phase, Underway, KeysOf
  <1>2. \A u \in Threads : Underway(u)' = Underway(u)
    BY DEF Underway
  <1>3. Late' = Late
    BY <1>2 DEF Late
  <1>4. Phases' = Phases /\ Needs' = Needs
    BY <1>1, OneThread DEF Phases, Needs
  <1>5. QED
    BY <1>3, <1>4 DEF Promise!vars, Phases, Needs, Late

\* Every step of the aspect is a step of its promise or leaves it alone.
LEMMA NextPromise ==
  /\ TypeOK /\ TypeOK' /\ NoneLateIdle /\ Exclusion' /\ [Next]_vars
  => [Promise!Next]_(Promise!vars)
  <1> SUFFICES ASSUME TypeOK, TypeOK', NoneLateIdle, Exclusion', [Next]_vars
               PROVE  Promise!Next \/ UNCHANGED Promise!vars
    OBVIOUS
  <1>0. /\ pc \in [Threads -> Steps] /\ call \in [Threads -> Seq(Keys)]
        /\ pc' \in [Threads -> Steps] /\ call' \in [Threads -> Seq(Keys)]
        /\ lapsed \subseteq Threads
    BY DEF TypeOK
  <1>1. ASSUME NEW t \in Threads, Call(t) PROVE Promise!Ask(t)
    <2>1. /\ pc[t] = "idle" /\ pc'[t] = "lock" /\ lapsed' = lapsed
          /\ \A u \in Threads \ {t} : pc'[u] = pc[u] /\ call'[u] = call[u]
      BY <1>0, <1>1 DEF Call, Goto
    <2>2. Phase(t) = "out" /\ Phase(t)' = "waiting" /\ Underway(t)'
      BY <2>1 DEF Phase, Underway
    <2>3. Late' = Late
      BY <1>0, <2>1 DEF Late, Underway, NoneLateIdle
    <2>4. KeysOf(t)' \in SUBSET Keys
      <3>1. call'[t] \in Seq(Keys)
        BY <1>0
      <3>2. QED
        BY <3>1 DEF KeysOf
    <2>5. QED
      BY <2>1, <2>2, <2>3, <2>4, OneThread DEF Promise!Ask, Phases, Needs, Late
  <1>2. ASSUME NEW t \in Threads, Grant(t) \/ TimeOut(t) PROVE UNCHANGED Promise!vars
    BY <1>0, <1>2, Inside DEF Grant, TimeOut, AtLock, Goto, Underway
  <1>3. ASSUME NEW t \in Threads, Abort(t) \/ Finish(t) PROVE Promise!GoOut(t)
    BY <1>0, <1>3, GoingOut DEF Abort, Finish, AtLock, Goto, Underway
  <1>4. ASSUME NEW t \in Threads, Proceed(t)
        PROVE  Promise!LetIn(t) \/ Promise!GoOut(t)
    <2>1. CASE granted[t]
      <3>1. /\ pc[t] = "lock" /\ pc'[t] = "work" /\ lapsed' = lapsed /\ call' = call
            /\ \A u \in Threads \ {t} : pc'[u] = pc[u]
        BY <1>0, <1>4, <2>1 DEF Proceed, PastLocks, Goto
      <3>2. Phase(t) = "waiting" /\ Phase(t)' = "in" /\ Underway(t) /\ Underway(t)'
        BY <3>1 DEF Phase, Underway
      <3>3. KeysOf(t)' = KeysOf(t)
        BY <3>1 DEF KeysOf
      <3>4. Late' = Late
        BY <1>0, <3>1 DEF Late, Underway
      <3>5. ASSUME NEW u \in Threads \ {t}, Phase(u) = "in"
            PROVE  t \in Late \/ u \in Late \/ Needs[t] \cap Needs[u] = {}
        <4>1. pc[u] = "work" /\ pc'[u] = "work"
          BY <3>1, <3>5 DEF Phase
        <4>2. KeysOf(u)' = KeysOf(u)
          BY <3>1 DEF KeysOf
        <4>3. (KeysOf(t) \cap KeysOf(u) # {}) => t \in lapsed \/ u \in lapsed
          BY <3>1, <3>3, <4>1, <4>2 DEF Exclusion
        <4>4. QED
          BY <3>1, <4>1, <4>3 DEF Late, Needs, Underway
      <3>6. Phases' = [Phases EXCEPT ![t] = "in"] /\ Needs' = Needs
        BY <3>1, <3>2, <3>3, OneThread DEF Needs
      <3>7. Promise!LetIn(t)
        BY <3>2, <3>4, <3>5, <3>6
           DEF Promise!LetIn, Promise!Compatible, Phases, Needs, Late
      <3>8. QED
        BY <3>7
    <2>2. CASE ~granted[t]
      <3>1. Goto(t, "check", 1)
        BY <1>4, <2>2 DEF Proceed
      <3>2. QED
        BY <1>0, <1>4, <3>1, GoingOut DEF Proceed, PastLocks, Goto, Underway
    <2>3. QED
      BY <2>1, <2>2
  <1>5. ASSUME NEW t \in Threads, ReleaseFails(t) \/ Return(t) PROVE UNCHANGED Promise!vars
    <2>1. /\ pc[t] \in {"unlock", "check"} /\ Leave(t)
          /\ pc'[t] = "idle" /\ lapsed' = lapsed \ {t}
      BY <1>0, <1>5 DEF ReleaseFails, Return, PastLocks, Leave, Goto
    <2>2. \A u \in Threads \ {t} : pc'[u] = pc[u] /\ call'[u] = call[u]
      BY <1>0, <2>1 DEF Leave, Goto
    <2>3. /\ ~Underway(t) /\ Underway(t)' = Underway(t)
          /\ lapsed' \subseteq lapsed /\ lapsed \ {t} \subseteq lapsed'
      BY <2>1 DEF Underway
    <2>4. QED
      BY <1>0, <2>2, <2>3, Inside
  <1>6. ASSUME NEW t \in Threads, Check(t) PROVE UNCHANGED Promise!vars
    <2>1. \E step \in {"unlock", "check"}, i \in Nat : Goto(t, step, i)
      <3>1. next[t] \in Nat /\ next[t] + 1 \in Nat /\ Len(call[t]) + 1 \in Nat
        BY <1>0 DEF TypeOK
      <3>2. QED
        BY <1>6, <3>1 DEF Check
    <2>2. pc[t] = "check" /\ pc'[t] \in {"unlock", "check"}
      BY <1>0, <1>6, <2>1 DEF Check, AtLock, Goto
    <2>3. \A u \in Threads \ {t} : pc'[u] = pc[u]
      BY <1>0, <2>1 DEF Goto
    <2>4. QED
      BY <1>0, <1>6, <2>2, <2>3, Inside DEF Check, Underway
  <1>7. ASSUME NEW t \in Threads, Release(t) PROVE UNCHANGED Promise!vars
    BY <1>0, <1>7, Inside DEF Release, Goto, Underway
  <1>8. ASSUME NEW k \in Keys, Expire(k) PROVE Promise!Next \/ UNCHANGED Promise!vars
    <2>1. pc' = pc /\ call' = call
      BY <1>8 DEF Expire
    <2>2. /\ Phases' = Phases /\ Needs' = Needs
          /\ \A u \in Threads : Underway(u)' = Underway(u)
      BY <2>1 DEF Phases, Needs, Phase, Underway, KeysOf
    <2>3. CASE owner[k] \in Threads /\ Underway(owner[k])
      <3> DEFINE t == owner[k]
      <3>1. t \in Threads /\ Phase(t) # "out" /\ lapsed' = lapsed \cup {t}
        BY <1>8, <2>3 DEF Expire, Underway, Phase
      <3>2. Late' = Late \cup {t}
        BY <2>2, <2>3, <3>1, <1>0 DEF Late
      <3>3. Promise!BeLate(t)
        BY <2>2, <3>1, <3>2 DEF Promise!BeLate, Phases, Needs, Late
      <3>4. QED
        BY <3>1, <3>3 DEF Promise!Next
    <2>4. CASE ~(owner[k] \in Threads /\ Underway(owner[k]))
      <3>1. Late' = Late
        BY <1>0, <1>8, <2>2, <2>4 DEF Expire, Late
      <3>2. QED
        BY <2>2, <3>1 DEF Promise!vars, Phases, Needs, Late
    <2>5. QED
      BY <2>3, <2>4
  <1>9. CASE UNCHANGED vars
    BY <1>9 DEF vars, Promise!vars, Phase, Underway, KeysOf
  <1>10. QED
    BY <1>1, <1>2, <1>3, <1>4, <1>5, <1>6, <1>7, <1>8, <1>9
       DEF Next, Step, TryLock, Promise!Next

\* Whatever the methods' keys, the aspect implements LeaseLock: each of its
\* steps asks, lets in, goes out or makes late as LeaseLock allows.
THEOREM Implements == Spec => KeepsPromise
  BY InitPromise, NextPromise, TypeCorrect, SpecNoneLateIdle, MutualExclusion, PTL
     DEF Spec, KeepsPromise, Promise!Spec

-----------------------------------------------------------------------------
(* A call gives back what it took.                                          *)

\* The positions of key k in the list of thread t at which the thread may
\* have been granted a hold that it has not given back.
Pending(t, k) ==
    {i \in 1 .. Len(call[t]) :
        /\ call[t][i] = k
        /\ \/ pc[t] = "lock" /\ i < next[t]
           \/ pc[t] = "work"
           \/ pc[t] \in {"check", "unlock"} /\ i >= next[t]}

\* A thread holds a lock at most as often as it has yet to release it.
AccountedFor(t, k) ==
    owner[k] = t /\ t \notin thrown => holds[k] <= Cardinality(Pending(t, k))

HoldsAccounted == \A t \in Threads : \A k \in Keys : AccountedFor(t, k)

\* Positions of a list are finitely many.
LEMMA PositionsFinite ==
  ASSUME NEW keys \in Seq(Keys), NEW P, P \subseteq 1 .. Len(keys)
  PROVE  IsFiniteSet(P) /\ Cardinality(P) \in Nat
  <1>1. Len(keys) \in Nat
    OBVIOUS
  <1>2. IsFiniteSet(1 .. Len(keys))
    BY <1>1, FS_Interval
  <1>3. QED
    BY <1>2, FS_Subset, FS_CardinalityType

\* Pending positions are finitely many, before a step and after it.
LEMMA PendingFinite ==
  ASSUME TypeOK, TypeOK', NEW t \in Threads, NEW k \in Keys
  PROVE  /\ IsFiniteSet(Pending(t, k)) /\ Cardinality(Pending(t, k)) \in Nat
         /\ IsFiniteSet(Pending(t, k)') /\ Cardinality(Pending(t, k)') \in Nat
  <1>1. call[t] \in Seq(Keys) /\ call'[t] \in Seq(Keys)
    BY DEF TypeOK
  <1>2. Pending(t, k) \subseteq 1 .. Len(call[t]) /\ Pending(t, k)' \subseteq 1 .. Len(call'[t])
    BY DEF Pending
  <1>3. QED
    BY <1>1, <1>2, PositionsFinite

\* A step keeps the account of a lock that it neither grants nor releases if
\* no position of its owner is lost.
LEMMA AccountKept ==
  ASSUME TypeOK, TypeOK', NEW u \in Threads, NEW k \in Keys, AccountedFor(u, k),
         owner'[k] = u => owner[k] = u /\ holds'[k] = holds[k], thrown \subseteq thrown',
         Pending(u, k) \subseteq Pending(u, k)'
  PROVE  AccountedFor(u, k)'
  <1>1. Cardinality(Pending(u, k)) <= Cardinality(Pending(u, k)')
    BY PendingFinite, FS_Subset
  <1>2. /\ Cardinality(Pending(u, k)) \in Nat /\ Cardinality(Pending(u, k)') \in Nat
        /\ holds[k] \in Nat
    BY PendingFinite DEF TypeOK
  <1>3. QED
    BY <1>1, <1>2 DEF AccountedFor

\* Every step keeps the accounts: a grant adds its position, a release takes
\* its position away, and nothing else touches a hold but its lapse.
LEMMA NextAccounted ==
  TypeOK /\ TypeOK' /\ HoldsAccounted /\ [Next]_vars => HoldsAccounted'
  <1> SUFFICES ASSUME TypeOK, TypeOK', HoldsAccounted, [Next]_vars,
                      NEW u \in Threads, NEW k \in Keys
               PROVE  AccountedFor(u, k)'
    BY DEF HoldsAccounted
  <1>0. /\ AccountedFor(u, k)
        /\ pc \in [Threads -> Steps] /\ pc' \in [Threads -> Steps]
        /\ call \in [Threads -> Seq(Keys)] /\ next \in [Threads -> Nat \ {0}]
        /\ owner \in [Keys -> Threads \cup {None}] /\ holds \in [Keys -> Nat]
        /\ \A l \in Keys : owner[l] = None <=> holds[l] = 0
        /\ Len(call[u]) \in Nat
    BY DEF TypeOK, HoldsAccounted
  \* A thread that leaves every lock and its own place alone.
  <1>1. ASSUME pc'[u] = pc[u], call'[u] = call[u], next'[u] = next[u],
               owner'[k] = u => owner[k] = u /\ holds'[k] = holds[k], thrown \subseteq thrown'
        PROVE  AccountedFor(u, k)'
    BY <1>0, <1>1, AccountKept DEF Pending
  <1>2. ASSUME NEW t \in Threads, Call(t) PROVE AccountedFor(u, k)'
    <2>1. CASE u = t
      <3>1. Pending(u, k) = {}
        BY <1>2, <2>1 DEF Call, Pending
      <3>2. QED
        BY <1>0, <1>2, <3>1, AccountKept DEF Call, redis
    <2>2. CASE u # t
      BY <1>0, <1>1, <1>2, <2>2 DEF Call, Goto, redis
    <2>3. QED
      BY <2>1, <2>2
  <1>3. ASSUME NEW t \in Threads, Grant(t) PROVE AccountedFor(u, k)'
    <2>0. Lock(t) \in Keys /\ Lock(t) = call[t][next[t]] /\ next[t] \in 1 .. Len(call[t])
      BY <1>3, LockInKeys DEF Grant, AtLock
    <2>1. CASE u = t /\ k = Lock(t)
      <3>1. Pending(u, k)' = Pending(u, k) \cup {next[u]} /\ next[u] \notin Pending(u, k)
        <4>1. /\ pc[u] = "lock" /\ pc'[u] = "lock" /\ call' = call /\ next'[u] = next[u] + 1
          BY <1>0, <1>3, <2>1 DEF Grant, AtLock, Goto
        <4>2. next[u] \in Nat
          BY <1>0
        <4>3. \A i \in 1 .. Len(call[u]) : i < next[u] + 1 <=> i < next[u] \/ i = next[u]
          BY <4>2
        <4>4. QED
          BY <2>0, <2>1, <4>1, <4>2, <4>3 DEF Pending
      <3>2. Cardinality(Pending(u, k)') = Cardinality(Pending(u, k)) + 1
        <4>1. IsFiniteSet(Pending(u, k))
          BY PendingFinite
        <4>2. Cardinality(Pending(u, k) \cup {next[u]}) = Cardinality(Pending(u, k)) + 1
          BY <3>1, <4>1, FS_AddElement
        <4>3. QED
          BY <3>1, <4>2
      <3>3. holds'[k] = holds[k] + 1 /\ thrown' = thrown /\ owner[k] \in {None, u}
        BY <1>0, <1>3, <2>0, <2>1 DEF Grant
      <3>4. /\ Cardinality(Pending(u, k)) \in Nat /\ holds[k] \in Nat
            /\ owner[k] = None => holds[k] = 0
        BY <1>0, PendingFinite
      <3>5. QED
        BY <1>0, <3>2, <3>3, <3>4 DEF AccountedFor
    <2>2. CASE u = t /\ k # Lock(t)
      <3>1. /\ pc'[u] = pc[u] /\ call' = call /\ next'[u] = next[u] + 1 /\ thrown' = thrown
            /\ owner'[k] = owner[k] /\ holds'[k] = holds[k]
        BY <1>0, <1>3, <2>2 DEF Grant, AtLock, Goto
      <3>2. Pending(u, k) \subseteq Pending(u, k)'
        BY <1>0, <1>3, <2>2, <3>1 DEF Pending, Grant, AtLock
      <3>3. QED
        BY <1>0, <3>1, <3>2, AccountKept
    <2>3. CASE u # t
      <3>1. pc'[u] = pc[u] /\ next'[u] = next[u] /\ call' = call /\ thrown' = thrown
        BY <1>0, <1>3, <2>3 DEF Grant, Goto
      <3>2. owner'[k] = u => owner[k] = u /\ holds'[k] = holds[k]
        BY <1>0, <1>3, <2>0, <2>3 DEF Grant
      <3>3. QED
        BY <1>1, <3>1, <3>2
    <2>4. QED
      BY <2>1, <2>2, <2>3
  <1>4. ASSUME NEW t \in Threads, TimeOut(t) PROVE AccountedFor(u, k)'
    <2>1. CASE u = t
      <3>1. Pending(u, k) \subseteq Pending(u, k)'
        BY <1>0, <1>4, <2>1 DEF TimeOut, AtLock, Goto, Pending
      <3>2. QED
        BY <1>0, <1>4, <3>1, AccountKept DEF TimeOut, redis
    <2>2. CASE u # t
      BY <1>0, <1>1, <1>4, <2>2 DEF TimeOut, Goto, redis
    <2>3. QED
      BY <2>1, <2>2
  <1>5. ASSUME NEW t \in Threads, Abort(t) \/ Finish(t) PROVE AccountedFor(u, k)'
    <2>1. CASE u = t
      <3>1. Pending(u, k) \subseteq Pending(u, k)'
        BY <1>0, <1>5, <2>1 DEF Abort, Finish, AtLock, Goto, Pending
      <3>2. QED
        BY <1>0, <1>5, <3>1, AccountKept DEF Abort, Finish, redis
    <2>2. CASE u # t
      BY <1>0, <1>1, <1>5, <2>2 DEF Abort, Finish, Goto, redis
    <2>3. QED
      BY <2>1, <2>2
  <1>6. ASSUME NEW t \in Threads, Proceed(t) PROVE AccountedFor(u, k)'
    <2>1. /\ pc[t] = "lock" /\ call' = call /\ owner' = owner /\ holds' = holds
          /\ thrown' = thrown
      BY <1>6 DEF Proceed, PastLocks, redis
    <2>2. Goto(t, "work", next[t]) \/ Goto(t, "check", 1)
      BY <1>6 DEF Proceed
    <2>3. CASE u = t
      <3>1. Pending(u, k) \subseteq Pending(u, k)'
        BY <1>0, <2>1, <2>2, <2>3 DEF Goto, Pending
      <3>2. QED
        BY <1>0, <2>1, <3>1, AccountKept
    <2>4. CASE u # t
      BY <1>0, <1>1, <2>1, <2>2, <2>4 DEF Goto
    <2>5. QED
      BY <2>3, <2>4
  <1>7. ASSUME NEW t \in Threads, Check(t) PROVE AccountedFor(u, k)'
    <2>0. Lock(t) \in Keys /\ Lock(t) = call[t][next[t]] /\ next[t] \in 1 .. Len(call[t])
      BY <1>7, LockInKeys DEF Check, AtLock
    <2>1. /\ pc[t] = "check" /\ call' = call /\ owner' = owner /\ holds' = holds
          /\ thrown' = thrown
      BY <1>7 DEF Check, AtLock, redis
    <2>2. CASE owner[Lock(t)] = t
      <3>1. Goto(t, "unlock", next[t])
        BY <1>7, <2>2 DEF Check
      <3>2. Pending(u, k) \subseteq Pending(u, k)'
        BY <1>0, <2>1, <3>1 DEF Goto, Pending
      <3>3. QED
        BY <1>0, <2>1, <3>2, AccountKept
    <2>3. CASE owner[Lock(t)] # t
      <3>1. Goto(t, "check", next[t] + 1)
        BY <1>7, <2>3 DEF Check
      <3>2. CASE u = t /\ k = Lock(t)
        BY <2>1, <2>3, <3>2 DEF AccountedFor
      <3>3. CASE u = t /\ k # Lock(t)
        <4>1. next[t] \in Nat /\ pc'[t] = "check" /\ next'[t] = next[t] + 1
          BY <1>0, <3>1 DEF Goto
        <4>2. ASSUME NEW i \in Pending(u, k) PROVE i \in Pending(u, k)'
          <5>1. i \in 1 .. Len(call[u]) /\ call[u][i] = k /\ i >= next[u]
            BY <2>1, <3>3 DEF Pending
          <5>2. i # next[u]
            BY <2>0, <3>3, <5>1
          <5>3. i >= next[u] + 1
            BY <3>3, <4>1, <5>1, <5>2
          <5>4. QED
            BY <2>1, <3>3, <4>1, <5>1, <5>3 DEF Pending
        <4>3. QED
          BY <1>0, <2>1, <4>2, AccountKept
      <3>4. CASE u # t
        BY <1>0, <1>1, <2>1, <3>1, <3>4 DEF Goto
      <3>5. QED
        BY <3>2, <3>3, <3>4
    <2>4. QED
      BY <2>2, <2>3
  <1>8. ASSUME NEW t \in Threads, Release(t) PROVE AccountedFor(u, k)'
    <2>0. Lock(t) \in Keys /\ Lock(t) = call[t][next[t]] /\ next[t] \in 1 .. Len(call[t])
      <3>1. next[t] <= Len(call[t])
        BY <1>8 DEF Release, TypeOK
      <3>2. QED
        BY <3>1, LockInKeys
    <2>1. /\ pc[t] = "unlock" /\ call' = call /\ thrown' = thrown /\ owner[Lock(t)] = t
          /\ Goto(t, "check", next[t] + 1)
      BY <1>8 DEF Release
    <2>2. \A l \in Keys : l # Lock(t) => owner'[l] = owner[l] /\ holds'[l] = holds[l]
      BY <1>0, <1>8, <2>0 DEF Release, Free
    <2>3. CASE u = t /\ k = Lock(t)
      <3>1. owner'[k] = u => holds'[k] = holds[k] - 1
        <4>1. CASE holds[k] = 1
          BY <1>0, <1>8, <2>0, <2>3, <4>1, LockAssumption DEF Release, Free
        <4>2. CASE holds[k] # 1
          BY <1>0, <1>8, <2>0, <2>3, <4>2 DEF Release
        <4>3. QED
          BY <4>1, <4>2
      <3>2. Pending(u, k)' = Pending(u, k) \ {next[u]} /\ next[u] \in Pending(u, k)
        <4>1. next[u] \in Nat /\ pc'[u] = "check" /\ next'[u] = next[u] + 1
          BY <1>0, <2>1, <2>3 DEF Goto
        <4>2. \A i \in 1 .. Len(call[u]) : i >= next[u] + 1 <=> i >= next[u] /\ i # next[u]
          BY <4>1
        <4>3. QED
          BY <2>0, <2>1, <2>3, <4>1, <4>2 DEF Pending
      <3>3. Cardinality(Pending(u, k)') = Cardinality(Pending(u, k)) - 1
        <4>1. IsFiniteSet(Pending(u, k))
          BY PendingFinite
        <4>2. Cardinality(Pending(u, k) \ {next[u]}) = Cardinality(Pending(u, k)) - 1
          BY <3>2, <4>1, FS_RemoveElement
        <4>3. QED
          BY <3>2, <4>2
      <3>4. Cardinality(Pending(u, k)) \in Nat /\ holds[k] \in Nat
        BY <1>0, PendingFinite
      <3>5. QED
        BY <1>0, <2>1, <2>3, <3>1, <3>3, <3>4 DEF AccountedFor
    <2>4. CASE u = t /\ k # Lock(t)
      <3>1. next[t] \in Nat /\ pc'[t] = "check" /\ next'[t] = next[t] + 1
        BY <1>0, <2>1 DEF Goto
      <3>2. ASSUME NEW i \in Pending(u, k) PROVE i \in Pending(u, k)'
        <4>1. i \in 1 .. Len(call[u]) /\ call[u][i] = k /\ i >= next[u]
          BY <2>1, <2>4 DEF Pending
        <4>2. i # next[u]
          BY <2>0, <2>4, <4>1
        <4>3. i >= next[u] + 1
          BY <2>4, <3>1, <4>1, <4>2
        <4>4. QED
          BY <2>1, <2>4, <3>1, <4>1, <4>3 DEF Pending
      <3>3. QED
        BY <1>0, <2>1, <2>2, <2>4, <3>2, AccountKept
    <2>5. CASE u # t
      <3>1. pc'[u] = pc[u] /\ next'[u] = next[u]
        BY <1>0, <2>1, <2>5 DEF Goto
      <3>2. owner'[k] = u => owner[k] = u /\ holds'[k] = holds[k]
        <4>1. CASE k # Lock(t)
          BY <2>2, <4>1
        <4>2. CASE k = Lock(t)
          <5>1. owner'[k] \in {None, t}
            BY <1>0, <1>8, <2>0, <4>2 DEF Release, Free
          <5>2. QED
            BY <2>5, <5>1, LockAssumption
        <4>3. QED
          BY <4>1, <4>2
      <3>3. QED
        BY <1>1, <2>1, <3>1, <3>2
    <2>6. QED
      BY <2>3, <2>4, <2>5
  <1>9. ASSUME NEW t \in Threads, ReleaseFails(t) PROVE AccountedFor(u, k)'
    <2>1. CASE u = t
      BY <1>9, <2>1 DEF ReleaseFails, AccountedFor
    <2>2. CASE u # t
      BY <1>0, <1>1, <1>9, <2>2 DEF ReleaseFails, Leave, Goto, redis
    <2>3. QED
      BY <2>1, <2>2
  <1>10. ASSUME NEW t \in Threads, Return(t) PROVE AccountedFor(u, k)'
    <2>1. CASE u = t
      <3>1. Pending(u, k) = {}
        <4>1. pc[u] = "check" /\ next[u] > Len(call[u]) /\ next[u] \in Nat
          BY <1>0, <1>10, <2>1 DEF Return, PastLocks
        <4>2. QED
          BY <1>0, <4>1 DEF Pending
      <3>2. QED
        BY <1>0, <1>10, <3>1, AccountKept DEF Return, redis
    <2>2. CASE u # t
      BY <1>0, <1>1, <1>10, <2>2 DEF Return, Leave, Goto, redis
    <2>3. QED
      BY <2>1, <2>2
  <1>11. ASSUME NEW l \in Keys, Expire(l) PROVE AccountedFor(u, k)'
    <2>1. owner'[k] = u => owner[k] = u /\ holds'[k] = holds[k]
      BY <1>0, <1>11, LockAssumption DEF Expire, Free
    <2>2. QED
      BY <1>1, <1>11, <2>1 DEF Expire
  <1>12. CASE UNCHANGED vars
    BY <1>1, <1>12 DEF vars
  <1>13. QED
    BY <1>2, <1>3, <1>4, <1>5, <1>6, <1>7, <1>8, <1>9, <1>10, <1>11, <1>12
       DEF Next, Step, TryLock

\* A lock outlives the call that took it only if an unlock of its owner threw.
THEOREM NothingLeft == Spec => []NothingLeftLocked
  <1>1. Init => HoldsAccounted
    BY LockAssumption DEF Init, HoldsAccounted, AccountedFor
  <1>2. TypeOK /\ HoldsAccounted => NothingLeftLocked
    <2> SUFFICES ASSUME TypeOK, HoldsAccounted, NEW k \in Keys, NEW t \in Threads,
                        owner[k] = t, pc[t] = "idle", t \notin thrown
                 PROVE  FALSE
      BY DEF NothingLeftLocked
    <2>1. Pending(t, k) = {}
      BY DEF Pending
    <2>2. holds[k] <= 0
      BY <2>1, FS_EmptySet DEF HoldsAccounted, AccountedFor
    <2>3. holds[k] \in Nat /\ holds[k] # 0
      BY LockAssumption DEF TypeOK
    <2>4. QED
      BY <2>2, <2>3
  <1>3. QED
    BY <1>1, <1>2, NextAccounted, TypeCorrect, PTL DEF Spec

=============================================================================
