---------------------------- MODULE AccountProofs ----------------------------
(***************************************************************************)
(* Proofs about accounts, from the phone number to the store.               *)
(*                                                                          *)
(* About PhoneAuth, for any threads, phones, codes and maxima: the attempts *)
(* stay bounded though they are checked before they are counted, a phone is *)
(* verified by a code of its own, and a phone that was sent a code has one  *)
(* to present or is verified, but not both for long, until a request fails  *)
(* half done or deletes what it knew nothing of.                            *)
(*                                                                          *)
(* About Onboarding, for any transactions, accounts, registrations and      *)
(* applicants: a registration makes one store if it is approved and none    *)
(* otherwise, and whoever has a store is an owner, as long as no request    *)
(* writes over a row that changed since it was read.                        *)
(***************************************************************************)
EXTENDS PhoneAuth, Onboarding, FiniteSetTheorems, TLAPS

\* The code that is kept for a phone was sent to it.
CodesSent == \A p \in Phones : code[p] # None => code[p] \in sent[p]

\* A request past the check of the code, or of the success, knows its phone.
RequestsProved ==
    \A t \in DOMAIN req :
       req[t].step \in {"save", "drop", "look", "insert"} => req[t].of[2] \in proved

\* A request about p that saved one key and did not delete the other yet.
Between(t, p) == t \in DOMAIN req /\ req[t].of[2] = p /\ req[t].step \in HalfDone

\* A code is beside a success only while such a request is under way.
SideBySide ==
    \A p \in success \ broken : code[p] # None => \E t \in Threads : Between(t, p)

\* The inductive invariant of PhoneAuth.
IInv ==
    /\ TypeOK /\ AttemptsBounded
    /\ CodesSent /\ RequestsProved /\ VerifiedByCode
    /\ SideBySide

-----------------------------------------------------------------------------
(* Requests begin, go on and end.                                           *)

LEMMA AttemptParts ==
  ASSUME NEW a \in Attempts
  PROVE  a[1] \in Purposes /\ a[2] \in Phones
  BY DEF Attempts

LEMMA Beginning ==
  ASSUME TypeOK, NEW t \in Threads, NEW r \in Req, Begin(t, r)
  PROVE  /\ DOMAIN req' = DOMAIN req \cup {t} /\ DOMAIN req' \subseteq Threads
         /\ t \notin DOMAIN req /\ req'[t] = r
         /\ \A u \in DOMAIN req : req'[u] = req[u]
         /\ \A u \in DOMAIN req' : req'[u] \in Req
  BY DEF TypeOK, Begin

LEMMA Going ==
  ASSUME TypeOK, NEW t \in DOMAIN req, NEW step, Go(t, step),
         step \in {"code", "count", "expire", "reset", "save", "drop", "insert"}
  PROVE  /\ DOMAIN req' = DOMAIN req /\ DOMAIN req' \subseteq Threads
         /\ req'[t] \in Req /\ req'[t].step = step /\ req'[t].of = req[t].of
         /\ \A u \in DOMAIN req \ {t} : req'[u] = req[u]
         /\ \A u \in DOMAIN req' : req'[u] \in Req
  <1>1. PICK r : r = req[t]
    OBVIOUS
  <1>2. r \in Req
    BY <1>1 DEF TypeOK
  <1>3. PICK new : new = [r EXCEPT !.step = step]
    OBVIOUS
  <1>4. new \in Req /\ new.step = step /\ new.of = r.of
    BY <1>2, <1>3 DEF Req
  <1>5. req' = [req EXCEPT ![t] = new]
    BY <1>1, <1>3 DEF Go
  <1>6. DOMAIN req' = DOMAIN req /\ req'[t] = new /\ \A u \in DOMAIN req \ {t} : req'[u] = req[u]
    BY <1>5
  <1>7. QED
    BY <1>1, <1>4, <1>6 DEF TypeOK

LEMMA GoingPast ==
  ASSUME TypeOK, NEW t \in DOMAIN req, NEW step, NEW S, GoPast(t, step, S),
         step \in {"code", "count", "expire", "reset", "save", "drop", "insert"}
  PROVE  /\ DOMAIN req' = DOMAIN req /\ DOMAIN req' \subseteq Threads
         /\ req'[t] \in Req /\ req'[t].step = step /\ req'[t].of = req[t].of
         /\ \A u \in DOMAIN req \ {t} :
              /\ req'[u].of = req[u].of /\ req'[u].step = req[u].step
              /\ u \in S => req'[u].stale
              /\ u \notin S => req'[u].stale = req[u].stale
         /\ \A u \in DOMAIN req' : req'[u] \in Req
  <1>1. DOMAIN req' = DOMAIN req /\ \A u \in DOMAIN req : req[u] \in Req
    BY DEF GoPast, TypeOK
  <1>2. req'[t] \in Req /\ req'[t].step = step /\ req'[t].of = req[t].of
    <2>1. PICK r \in Req : r = req[t]
      BY <1>1
    <2>2. PICK new : new = [r EXCEPT !.step = step]
      OBVIOUS
    <2>3. new \in Req /\ new.step = step /\ new.of = r.of
      BY <2>1, <2>2 DEF Req
    <2>4. req'[t] = new
      BY <2>1, <2>2 DEF GoPast
    <2>5. QED
      BY <2>1, <2>3, <2>4
  <1>3. ASSUME NEW u \in DOMAIN req \ {t}
        PROVE  /\ req'[u] \in Req
               /\ req'[u].of = req[u].of /\ req'[u].step = req[u].step
               /\ (u \in S => req'[u].stale) /\ (u \notin S => req'[u].stale = req[u].stale)
    <2>1. PICK r \in Req : r = req[u]
      BY <1>1
    <2>2. PICK new : new = [r EXCEPT !.stale = TRUE]
      OBVIOUS
    <2>3. new \in Req /\ new.step = r.step /\ new.of = r.of /\ new.stale = TRUE
      BY <2>1, <2>2 DEF Req
    <2>4. CASE u \in S
      <3>1. req'[u] = new
        BY <2>1, <2>2, <2>4 DEF GoPast
      <3>2. QED
        BY <2>1, <2>3, <2>4, <3>1
    <2>5. CASE u \notin S
      <3>1. req'[u] = r
        BY <2>1, <2>5 DEF GoPast
      <3>2. QED
        BY <2>1, <2>5, <3>1
    <2>6. QED
      BY <2>4, <2>5
  <1>4. QED
    BY <1>1, <1>2, <1>3 DEF TypeOK

LEMMA GoIsGoPast ==
  ASSUME NEW t, NEW step, Go(t, step)
  PROVE  GoPast(t, step, {})
  BY DEF Go, GoPast

LEMMA Ending ==
  ASSUME TypeOK, NEW t \in DOMAIN req, End(t)
  PROVE  /\ DOMAIN req' = DOMAIN req \ {t} /\ DOMAIN req' \subseteq Threads
         /\ \A u \in DOMAIN req \ {t} : req'[u] = req[u]
         /\ \A u \in DOMAIN req' : req'[u] \in Req
  BY DEF TypeOK, End

\* The facts about the request at hand.
LEMMA Current ==
  ASSUME TypeOK, NEW t \in DOMAIN req
  PROVE  /\ t \in Threads /\ req[t] \in Req
         /\ req[t].of \in Attempts /\ req[t].of[2] \in Phones
  BY AttemptParts DEF TypeOK, Req

-----------------------------------------------------------------------------
(* The bound on attempts.                                                   *)

LEMMA UncountedFinite ==
  ASSUME TypeOK, NEW a \in Attempts
  PROVE  /\ Uncounted(a) \subseteq Threads /\ IsFiniteSet(Uncounted(a))
         /\ Cardinality(Uncounted(a)) \in Nat /\ Cardinality(Threads) \in Nat
         /\ Cardinality(Uncounted(a)) <= Cardinality(Threads)
  <1>1. Uncounted(a) \subseteq Threads
    BY DEF Uncounted, TypeOK
  <1>2. QED
    BY <1>1, PhoneAssumption, FS_Subset, FS_CardinalityType

\* The bound on the attempts a when the set of threads in between is S and n
\* were counted.
Within(a, n, S) == n + Cardinality(S) < MaxAttempt[a[1]] + Cardinality(Threads)

LEMMA FewerWithin ==
  ASSUME NEW a \in Attempts, NEW n \in Nat, NEW m \in Nat,
         NEW S \in SUBSET Threads, NEW R \in SUBSET S, Within(a, n, S), m <= n
  PROVE  Within(a, m, R)
  <1>1. IsFiniteSet(S) /\ IsFiniteSet(Threads)
    BY PhoneAssumption, FS_Subset
  <1>2. Cardinality(R) <= Cardinality(S) /\ Cardinality(R) \in Nat /\ Cardinality(S) \in Nat
        /\ Cardinality(Threads) \in Nat
    BY <1>1, FS_Subset, FS_CardinalityType
  <1>3. MaxAttempt[a[1]] \in Nat
    BY AttemptParts, PhoneAssumption
  <1>4. QED
    BY <1>2, <1>3 DEF Within

LEMMA CountedWithin ==
  ASSUME NEW a \in Attempts, NEW n \in Nat, NEW S \in SUBSET Threads, NEW t \in S,
         Within(a, n, S)
  PROVE  Within(a, n + 1, S \ {t})
  <1>1. IsFiniteSet(S) /\ IsFiniteSet(Threads)
    BY PhoneAssumption, FS_Subset
  <1>2. Cardinality(S \ {t}) = Cardinality(S) - 1 /\ Cardinality(S) \in Nat
        /\ Cardinality(Threads) \in Nat
    BY <1>1, FS_RemoveElement, FS_CardinalityType
  <1>3. MaxAttempt[a[1]] \in Nat
    BY AttemptParts, PhoneAssumption
  <1>4. QED
    BY <1>2, <1>3 DEF Within

LEMMA CheckedWithin ==
  ASSUME NEW a \in Attempts, NEW n \in Nat, NEW S \in SUBSET Threads, ~IsExceed(a, n)
  PROVE  Within(a, n, S)
  <1>1. Cardinality(S) <= Cardinality(Threads) /\ Cardinality(S) \in Nat
        /\ Cardinality(Threads) \in Nat
    BY PhoneAssumption, FS_Subset, FS_CardinalityType
  <1>2. MaxAttempt[a[1]] \in Nat
    BY AttemptParts, PhoneAssumption
  <1>3. QED
    BY <1>1, <1>2 DEF Within, IsExceed

LEMMA BoundAsWithin ==
  AttemptsBounded <=> \A a \in Attempts : Within(a, attempts[a], Uncounted(a))
  BY DEF AttemptsBounded, Within

\* A step by which no thread comes between check and count keeps the bound.
LEMMA BoundKept ==
  ASSUME TypeOK, AttemptsBounded,
         \A a \in Attempts : attempts'[a] \in Nat /\ attempts'[a] <= attempts[a],
         \A a \in Attempts : Uncounted(a)' \subseteq Uncounted(a)
  PROVE  AttemptsBounded'
  <1>1. ASSUME NEW a \in Attempts
        PROVE  attempts'[a] + Cardinality(Uncounted(a)') < MaxAttempt[a[1]] + Cardinality(Threads)
    <2>1. PICK S \in SUBSET Threads : S = Uncounted(a)
      BY UncountedFinite
    <2>2. PICK R \in SUBSET S : R = Uncounted(a)'
      BY <2>1
    <2>3. PICK n \in Nat : n = attempts[a]
      BY DEF TypeOK
    <2>4. PICK m \in Nat : m = attempts'[a] /\ m <= n
      BY <2>3
    <2>5. Within(a, n, S)
      BY <2>1, <2>3, BoundAsWithin
    <2>6. Within(a, m, R)
      BY <2>4, <2>5, FewerWithin
    <2>7. QED
      BY <2>2, <2>4, <2>6 DEF Within
  <1>2. QED
    BY <1>1 DEF AttemptsBounded

-----------------------------------------------------------------------------
(* Requests that begin, are refused or fail.                                *)

LEMMA BeginKeeps ==
  ASSUME IInv, NEW t \in Threads, NEW r \in Req, Begin(t, r),
         UNCHANGED <<redis, database, history>>,
         r.step \in {"attempts", "find", "look"},
         r.step = "look" => r.of[2] \in proved
  PROVE  IInv'
  <1>1. TypeOK /\ AttemptsBounded /\ CodesSent /\ RequestsProved /\ VerifiedByCode /\ SideBySide
    BY DEF IInv
  <1>2. /\ DOMAIN req' = DOMAIN req \cup {t} /\ DOMAIN req' \subseteq Threads
        /\ t \notin DOMAIN req /\ req'[t] = r
        /\ \A u \in DOMAIN req : req'[u] = req[u]
        /\ \A u \in DOMAIN req' : req'[u] \in Req
    BY <1>1, Beginning
  <1>3. TypeOK'
    BY <1>1, <1>2 DEF TypeOK, redis, database, history, answers
  <1>4. AttemptsBounded'
    <2>1. \A a \in Attempts : Uncounted(a)' \subseteq Uncounted(a)
      BY <1>2 DEF Uncounted
    <2>2. \A a \in Attempts : attempts'[a] \in Nat /\ attempts'[a] <= attempts[a]
      BY <1>1 DEF TypeOK, redis
    <2>3. QED
      BY <1>1, <2>1, <2>2, BoundKept
  <1>5. CodesSent' /\ VerifiedByCode'
    BY <1>1 DEF CodesSent, VerifiedByCode, redis, database, history, answers
  <1>6. RequestsProved'
    BY <1>1, <1>2 DEF RequestsProved, history, answers
  <1>7. SideBySide'
    BY <1>1, <1>2 DEF SideBySide, Between, redis, history, answers
  <1>8. QED
    BY <1>3, <1>4, <1>5, <1>6, <1>7 DEF IInv

\* A request that ends without being half done, or leaves its phone broken.
LEMMA EndKeeps ==
  ASSUME IInv, NEW t \in DOMAIN req, End(t),
         UNCHANGED <<redis, database, sent, proved, answers>>,
         broken' = (IF req[t].step \in HalfDone THEN broken \cup {req[t].of[2]} ELSE broken),
         orphaned' \subseteq Attempts
  PROVE  IInv'
  <1>1. TypeOK /\ AttemptsBounded /\ CodesSent /\ RequestsProved /\ VerifiedByCode /\ SideBySide
    BY DEF IInv
  <1>2. /\ DOMAIN req' = DOMAIN req \ {t} /\ DOMAIN req' \subseteq Threads
        /\ \A u \in DOMAIN req \ {t} : req'[u] = req[u]
        /\ \A u \in DOMAIN req' : req'[u] \in Req
    BY <1>1, Ending
  <1>3. req[t].of[2] \in Phones
    BY <1>1, Current
  <1>4. TypeOK'
    BY <1>1, <1>2, <1>3 DEF TypeOK, redis, database, answers
  <1>5. AttemptsBounded'
    <2>1. \A a \in Attempts : Uncounted(a)' \subseteq Uncounted(a)
      BY <1>2 DEF Uncounted
    <2>2. \A a \in Attempts : attempts'[a] \in Nat /\ attempts'[a] <= attempts[a]
      BY <1>1 DEF TypeOK, redis
    <2>3. QED
      BY <1>1, <2>1, <2>2, BoundKept
  <1>6. CodesSent' /\ VerifiedByCode'
    BY <1>1 DEF CodesSent, VerifiedByCode, redis, database
  <1>7. RequestsProved'
    BY <1>1, <1>2 DEF RequestsProved
  <1>8. SideBySide'
    <2>1. ASSUME NEW p \in success \ broken, p \notin broken', code[p] # None
          PROVE  \E u \in Threads : u \in DOMAIN req \ {t} /\ Between(u, p)
      <3>1. PICK u \in Threads : Between(u, p)
        BY <1>1, <2>1 DEF SideBySide
      <3>2. u # t
        BY <2>1, <3>1 DEF Between
      <3>3. QED
        BY <3>1, <3>2 DEF Between
    <2>2. QED
      BY <1>2, <2>1 DEF SideBySide, Between, redis
  <1>9. QED
    BY <1>4, <1>5, <1>6, <1>7, <1>8 DEF IInv

LEMMA RefuseKeeps ==
  ASSUME IInv, NEW t \in DOMAIN req, Refuse(t), req[t].step \notin HalfDone
  PROVE  IInv'
  <1>1. End(t) /\ UNCHANGED <<redis, database, history>>
    BY DEF Refuse
  <1>2. orphaned' \subseteq Attempts
    BY <1>1 DEF history, answers, IInv, TypeOK
  <1>3. QED
    BY <1>1, <1>2, EndKeeps DEF history, answers

LEMMA FailKeeps ==
  ASSUME IInv, NEW t \in DOMAIN req, Fail(t)
  PROVE  IInv'
  <1>1. req[t].of \in Attempts
    BY Current DEF IInv
  <1>2. orphaned' \subseteq Attempts
    BY <1>1 DEF Fail, IInv, TypeOK
  <1>3. End(t) /\ UNCHANGED <<redis, database, sent, proved, answers>>
    BY DEF Fail
  <1>4. broken' = (IF req[t].step \in HalfDone THEN broken \cup {req[t].of[2]} ELSE broken)
    BY DEF Fail
  <1>5. QED
    BY <1>2, <1>3, <1>4, EndKeeps

\* A request that goes on without a write to what its phone keeps.
LEMMA LookKeeps ==
  ASSUME IInv, NEW t \in DOMAIN req, NEW step \in {"save", "insert"}, NEW S, GoPast(t, step, S),
         UNCHANGED <<redis, database, sent, broken, orphaned, answers>>,
         req[t].step \notin HalfDone,
         proved \subseteq proved', proved' \subseteq Phones, req[t].of[2] \in proved'
  PROVE  IInv'
  <1>1. TypeOK /\ AttemptsBounded /\ CodesSent /\ RequestsProved /\ VerifiedByCode /\ SideBySide
    BY DEF IInv
  <1>2. /\ DOMAIN req' = DOMAIN req /\ DOMAIN req' \subseteq Threads
        /\ req'[t] \in Req /\ req'[t].step = step /\ req'[t].of = req[t].of
        /\ \A u \in DOMAIN req \ {t} : req'[u].of = req[u].of /\ req'[u].step = req[u].step
        /\ \A u \in DOMAIN req' : req'[u] \in Req
    BY <1>1, GoingPast
  <1>3. TypeOK'
    BY <1>1, <1>2 DEF TypeOK, redis, database, answers
  <1>4. AttemptsBounded'
    <2>1. \A a \in Attempts : Uncounted(a)' \subseteq Uncounted(a)
      BY <1>2 DEF Uncounted
    <2>2. \A a \in Attempts : attempts'[a] \in Nat /\ attempts'[a] <= attempts[a]
      BY <1>1 DEF TypeOK, redis
    <2>3. QED
      BY <1>1, <2>1, <2>2, BoundKept
  <1>5. CodesSent' /\ VerifiedByCode'
    BY <1>1 DEF CodesSent, VerifiedByCode, redis, database
  <1>6. RequestsProved'
    BY <1>1, <1>2 DEF RequestsProved
  <1>7. SideBySide'
    BY <1>1, <1>2 DEF SideBySide, Between, redis
  <1>8. QED
    BY <1>3, <1>4, <1>5, <1>6, <1>7 DEF IInv

-----------------------------------------------------------------------------
(* Sending a code.                                                          *)

LEMMA CheckAttemptsKeeps ==
  ASSUME IInv, NEW t \in DOMAIN req, CheckAttempts(t)
  PROVE  IInv'
  <1>1. TypeOK /\ AttemptsBounded /\ CodesSent /\ RequestsProved /\ VerifiedByCode /\ SideBySide
    BY DEF IInv
  <1>2. CASE Refuse(t)
    BY <1>2, RefuseKeeps DEF CheckAttempts, At, HalfDone
  <1>3. CASE ~Refuse(t)
    <2>1. /\ ~IsExceed(req[t].of, attempts[req[t].of])
          /\ Go(t, "code") /\ UNCHANGED <<redis, database, history>>
      BY <1>3 DEF CheckAttempts
    <2>2. /\ DOMAIN req' = DOMAIN req /\ DOMAIN req' \subseteq Threads
          /\ req'[t] \in Req /\ req'[t].step = "code" /\ req'[t].of = req[t].of
          /\ \A u \in DOMAIN req \ {t} : req'[u] = req[u]
          /\ \A u \in DOMAIN req' : req'[u] \in Req
      BY <1>1, <2>1, Going
    <2>3. TypeOK'
      BY <1>1, <2>1, <2>2 DEF TypeOK, redis, database, history, answers
    <2>4. ASSUME NEW a \in Attempts
          PROVE  attempts'[a] + Cardinality(Uncounted(a)') < MaxAttempt[a[1]] + Cardinality(Threads)
      <3>1. attempts' = attempts /\ attempts[a] \in Nat
        BY <1>1, <2>1 DEF redis, TypeOK
      <3>2. PICK n \in Nat : n = attempts[a]
        BY <3>1
      <3>3. Uncounted(a)' \subseteq Threads
        BY <2>2 DEF Uncounted
      <3>4. PICK R \in SUBSET Threads : R = Uncounted(a)'
        BY <3>3
      <3>5. CASE req[t].of = a
        <4>1. Within(a, n, R)
          BY <2>1, <3>2, <3>5, CheckedWithin
        <4>2. QED
          BY <3>1, <3>2, <3>4, <4>1 DEF Within
      <3>6. CASE req[t].of # a
        <4>1. Uncounted(a)' \subseteq Uncounted(a)
          BY <2>2, <3>6 DEF Uncounted
        <4>2. PICK S \in SUBSET Threads : S = Uncounted(a)
          BY <1>1, UncountedFinite
        <4>3. Within(a, n, S)
          BY <1>1, <3>2, <4>2, BoundAsWithin
        <4>4. Within(a, n, R)
          BY <3>4, <4>1, <4>2, <4>3, FewerWithin
        <4>5. QED
          BY <3>1, <3>2, <3>4, <4>4 DEF Within
      <3>7. QED
        BY <3>5, <3>6
    <2>5. AttemptsBounded'
      BY <2>4 DEF AttemptsBounded
    <2>6. CodesSent' /\ VerifiedByCode'
      BY <1>1, <2>1 DEF CodesSent, VerifiedByCode, redis, database, history, answers
    <2>7. RequestsProved'
      BY <1>1, <2>1, <2>2 DEF RequestsProved, history, answers
    <2>8. SideBySide'
      <3>1. req[t].step = "attempts"
        BY DEF CheckAttempts, At
      <3>2. QED
        BY <1>1, <2>1, <2>2, <3>1 DEF SideBySide, Between, HalfDone, redis, history, answers
    <2>9. QED
      BY <2>3, <2>5, <2>6, <2>7, <2>8 DEF IInv
  <1>4. QED
    BY <1>2, <1>3

LEMMA SaveCodeKeeps ==
  ASSUME IInv, NEW t \in DOMAIN req, SaveCode(t)
  PROVE  IInv'
  <1>1. TypeOK /\ AttemptsBounded /\ CodesSent /\ RequestsProved /\ VerifiedByCode /\ SideBySide
    BY DEF IInv
  <1>2. PICK p \in Phones, c \in Codes :
          /\ p = req[t].of[2]
          /\ code' = [code EXCEPT ![p] = c]
          /\ sent' = [sent EXCEPT ![p] = @ \cup {c}]
    BY <1>1, Current DEF SaveCode
  <1>3. /\ GoPast(t, "count", Verifying(p)) /\ req[t].step = "code"
        /\ asked' = asked \cup {p} /\ swept' = swept \ {p}
        /\ UNCHANGED <<attempts, expiring, success, database, proved, broken, orphaned>>
    BY <1>2 DEF SaveCode, At
  <1>4. /\ DOMAIN req' = DOMAIN req /\ DOMAIN req' \subseteq Threads
        /\ req'[t] \in Req /\ req'[t].step = "count" /\ req'[t].of = req[t].of
        /\ \A u \in DOMAIN req \ {t} : req'[u].of = req[u].of /\ req'[u].step = req[u].step
        /\ \A u \in DOMAIN req' : req'[u] \in Req
    BY <1>1, <1>3, GoingPast
  <1>5. TypeOK'
    BY <1>1, <1>2, <1>3, <1>4 DEF TypeOK, database
  <1>6. AttemptsBounded'
    <2>1. \A a \in Attempts : Uncounted(a)' \subseteq Uncounted(a)
      BY <1>3, <1>4 DEF Uncounted
    <2>2. \A a \in Attempts : attempts'[a] \in Nat /\ attempts'[a] <= attempts[a]
      BY <1>1, <1>3 DEF TypeOK
    <2>3. QED
      BY <1>1, <2>1, <2>2, BoundKept
  <1>7. CodesSent'
    BY <1>1, <1>2 DEF CodesSent, TypeOK
  <1>8. VerifiedByCode'
    BY <1>1, <1>3 DEF VerifiedByCode, database
  <1>9. RequestsProved'
    BY <1>1, <1>3, <1>4 DEF RequestsProved
  <1>10. SideBySide'
    <2>1. ASSUME NEW q \in success \ broken, code'[q] # None
          PROVE  \E u \in Threads : Between(u, q)'
      <3>1. CASE q = p
        <4>1. t \in Threads /\ t \in DOMAIN req' /\ req'[t].of[2] = q /\ req'[t].step \in HalfDone
          BY <1>1, <1>2, <1>4, <3>1, Current DEF HalfDone
        <4>2. QED
          BY <4>1 DEF Between
      <3>2. CASE q # p
        <4>1. code[q] # None
          BY <1>1, <1>2, <2>1, <3>2 DEF TypeOK
        <4>2. PICK u \in Threads : Between(u, q)
          BY <1>1, <2>1, <4>1 DEF SideBySide
        <4>3. u # t
          BY <1>2, <3>2, <4>2 DEF Between
        <4>4. QED
          BY <1>4, <4>2, <4>3 DEF Between
      <3>3. QED
        BY <3>1, <3>2
    <2>2. QED
      BY <1>3, <2>1 DEF SideBySide
  <1>11. QED
    BY <1>5, <1>6, <1>7, <1>8, <1>9, <1>10 DEF IInv

LEMMA CountKeeps ==
  ASSUME IInv, NEW t \in DOMAIN req, Count(t)
  PROVE  IInv'
  <1>1. TypeOK /\ AttemptsBounded /\ CodesSent /\ RequestsProved /\ VerifiedByCode /\ SideBySide
    BY DEF IInv
  <1>2. PICK b \in Attempts : b = req[t].of
    BY <1>1, Current
  <1>3. PICK n \in Nat : n = attempts[b]
    BY <1>1 DEF TypeOK
  <1>4. PICK step \in {"expire", "reset"} : Go(t, step)
    BY <1>2 DEF Count
  <1>5. /\ req[t].step = "count" /\ attempts' = [attempts EXCEPT ![b] = n + 1]
        /\ UNCHANGED <<expiring, code, success, database, history>>
    BY <1>2, <1>3 DEF Count, At
  <1>6. /\ DOMAIN req' = DOMAIN req /\ DOMAIN req' \subseteq Threads
        /\ req'[t] \in Req /\ req'[t].step = step /\ req'[t].of = req[t].of
        /\ \A u \in DOMAIN req \ {t} : req'[u] = req[u]
        /\ \A u \in DOMAIN req' : req'[u] \in Req
    BY <1>1, <1>4, Going
  <1>7. TypeOK'
    BY <1>1, <1>5, <1>6 DEF TypeOK, database, history, answers
  <1>8. ASSUME NEW a \in Attempts
        PROVE  attempts'[a] + Cardinality(Uncounted(a)') < MaxAttempt[a[1]] + Cardinality(Threads)
    <2>1. PICK S \in SUBSET Threads : S = Uncounted(a)
      BY <1>1, UncountedFinite
    <2>2. PICK m \in Nat : m = attempts[a] /\ Within(a, m, S)
      BY <1>1, <2>1, BoundAsWithin DEF TypeOK
    <2>3. CASE a = b
      <3>1. t \in S /\ Uncounted(a)' = S \ {t}
        BY <1>2, <1>5, <1>6, <2>1, <2>3 DEF Uncounted
      <3>2. Within(a, m + 1, S \ {t})
        BY <2>2, <3>1, CountedWithin
      <3>3. attempts'[a] = m + 1
        BY <1>1, <1>3, <1>5, <2>2, <2>3 DEF TypeOK
      <3>4. QED
        BY <3>1, <3>2, <3>3 DEF Within
    <2>4. CASE a # b
      <3>1. Uncounted(a)' \subseteq S
        BY <1>2, <1>5, <1>6, <2>1, <2>4 DEF Uncounted
      <3>2. PICK R \in SUBSET S : R = Uncounted(a)'
        BY <3>1
      <3>3. Within(a, m, R)
        BY <2>2, <3>2, FewerWithin
      <3>4. attempts'[a] = m
        BY <1>1, <1>5, <2>2, <2>4 DEF TypeOK
      <3>5. QED
        BY <3>2, <3>3, <3>4 DEF Within
    <2>5. QED
      BY <2>3, <2>4
  <1>9. AttemptsBounded'
    BY <1>8 DEF AttemptsBounded
  <1>10. CodesSent' /\ VerifiedByCode'
    BY <1>1, <1>5 DEF CodesSent, VerifiedByCode, database, history, answers
  <1>11. RequestsProved'
    BY <1>1, <1>5, <1>6 DEF RequestsProved, history, answers
  <1>12. SideBySide'
    BY <1>1, <1>4, <1>5, <1>6 DEF SideBySide, Between, HalfDone, history, answers
  <1>13. QED
    BY <1>7, <1>9, <1>10, <1>11, <1>12 DEF IInv

LEMMA ExpireAttemptsKeeps ==
  ASSUME IInv, NEW t \in DOMAIN req, ExpireAttempts(t)
  PROVE  IInv'
  <1>1. TypeOK /\ AttemptsBounded /\ CodesSent /\ RequestsProved /\ VerifiedByCode /\ SideBySide
    BY DEF IInv
  <1>2. /\ req[t].step = "expire" /\ Go(t, "reset")
        /\ UNCHANGED <<attempts, code, success, database, history>>
    BY DEF ExpireAttempts, At
  <1>3. /\ DOMAIN req' = DOMAIN req /\ DOMAIN req' \subseteq Threads
        /\ req'[t] \in Req /\ req'[t].step = "reset" /\ req'[t].of = req[t].of
        /\ \A u \in DOMAIN req \ {t} : req'[u] = req[u]
        /\ \A u \in DOMAIN req' : req'[u] \in Req
    BY <1>1, <1>2, Going
  <1>4. TypeOK'
    <2>1. expiring' \subseteq Attempts /\ \A a \in expiring' : attempts[a] > 0
      BY <1>1, Current DEF ExpireAttempts, TypeOK
    <2>2. QED
      BY <1>1, <1>2, <1>3, <2>1 DEF TypeOK, database, history, answers
  <1>5. AttemptsBounded'
    <2>1. \A a \in Attempts : Uncounted(a)' \subseteq Uncounted(a)
      BY <1>2, <1>3 DEF Uncounted
    <2>2. \A a \in Attempts : attempts'[a] \in Nat /\ attempts'[a] <= attempts[a]
      BY <1>1, <1>2 DEF TypeOK
    <2>3. QED
      BY <1>1, <2>1, <2>2, BoundKept
  <1>6. CodesSent' /\ VerifiedByCode'
    BY <1>1, <1>2 DEF CodesSent, VerifiedByCode, database, history, answers
  <1>7. RequestsProved'
    BY <1>1, <1>2, <1>3 DEF RequestsProved, history, answers
  <1>8. SideBySide'
    BY <1>1, <1>2, <1>3 DEF SideBySide, Between, HalfDone, history, answers
  <1>9. QED
    BY <1>4, <1>5, <1>6, <1>7, <1>8 DEF IInv

LEMMA ResetKeeps ==
  ASSUME IInv, NEW t \in DOMAIN req, Reset(t)
  PROVE  IInv'
  <1>1. TypeOK /\ AttemptsBounded /\ CodesSent /\ RequestsProved /\ VerifiedByCode /\ SideBySide
    BY DEF IInv
  <1>2. /\ success' = success \ {req[t].of[2]} /\ End(t)
        /\ UNCHANGED <<attempts, expiring, code, database, sent, proved, broken, orphaned, asked>>
        /\ swept' \subseteq swept \cup {req[t].of[2]}
    BY DEF Reset, Sweeps
  <1>3. /\ DOMAIN req' = DOMAIN req \ {t} /\ DOMAIN req' \subseteq Threads
        /\ \A u \in DOMAIN req \ {t} : req'[u] = req[u]
        /\ \A u \in DOMAIN req' : req'[u] \in Req
    BY <1>1, <1>2, Ending
  <1>4. TypeOK'
    BY <1>1, <1>2, <1>3, Current DEF TypeOK, database
  <1>5. AttemptsBounded'
    <2>1. \A a \in Attempts : Uncounted(a)' \subseteq Uncounted(a)
      BY <1>2, <1>3 DEF Uncounted
    <2>2. \A a \in Attempts : attempts'[a] \in Nat /\ attempts'[a] <= attempts[a]
      BY <1>1, <1>2 DEF TypeOK
    <2>3. QED
      BY <1>1, <2>1, <2>2, BoundKept
  <1>6. CodesSent' /\ VerifiedByCode'
    BY <1>1, <1>2 DEF CodesSent, VerifiedByCode, database
  <1>7. RequestsProved'
    BY <1>1, <1>2, <1>3 DEF RequestsProved
  <1>8. SideBySide'
    BY <1>1, <1>2, <1>3 DEF SideBySide, Between
  <1>9. QED
    BY <1>4, <1>5, <1>6, <1>7, <1>8 DEF IInv

-----------------------------------------------------------------------------
(* Verifying a code.                                                        *)

LEMMA FindCodeKeeps ==
  ASSUME IInv, NEW t \in DOMAIN req, FindCode(t)
  PROVE  IInv'
  <1>1. TypeOK /\ AttemptsBounded /\ CodesSent /\ RequestsProved /\ VerifiedByCode /\ SideBySide
    BY DEF IInv
  <1>2. req[t].step = "find"
    BY DEF FindCode, At
  <1>3. PICK p \in Phones : p = req[t].of[2]
    BY <1>1, Current
  <1>4. CASE Matches(req[t].code, code[p])
    <2>1. /\ GoPast(t, "save", Sending(p))
          /\ proved' = (IF req[t].code \in sent[p] THEN proved \cup {p} ELSE proved)
          /\ UNCHANGED <<redis, database, sent, broken, orphaned, answers>>
      BY <1>3, <1>4 DEF FindCode
    <2>2. req[t].code \in sent[p]
      BY <1>1, <1>4 DEF Matches, CodesSent
    <2>3. proved' = proved \cup {p}
      BY <2>1, <2>2
    <2>4. proved \subseteq proved' /\ proved' \subseteq Phones /\ req[t].of[2] \in proved'
      BY <1>1, <1>3, <2>3 DEF TypeOK
    <2>5. req[t].step \notin HalfDone
      BY <1>2 DEF HalfDone
    <2>6. QED
      BY <2>1, <2>4, <2>5, LookKeeps
  <1>5. CASE ~Matches(req[t].code, code[p])
    <2>1. Refuse(t) /\ req[t].step \notin HalfDone
      BY <1>2, <1>3, <1>5 DEF FindCode, HalfDone
    <2>2. QED
      BY <2>1, RefuseKeeps
  <1>6. QED
    BY <1>4, <1>5

LEMMA SaveSuccessKeeps ==
  ASSUME IInv, NEW t \in DOMAIN req, SaveSuccess(t)
  PROVE  IInv'
  <1>1. TypeOK /\ AttemptsBounded /\ CodesSent /\ RequestsProved /\ VerifiedByCode /\ SideBySide
    BY DEF IInv
  <1>2. /\ success' = success \cup {req[t].of[2]} /\ Go(t, "drop") /\ req[t].step = "save"
        /\ UNCHANGED <<attempts, expiring, code, database, history>>
    BY DEF SaveSuccess, At
  <1>3. /\ DOMAIN req' = DOMAIN req /\ DOMAIN req' \subseteq Threads
        /\ req'[t] \in Req /\ req'[t].step = "drop" /\ req'[t].of = req[t].of
        /\ \A u \in DOMAIN req \ {t} : req'[u] = req[u]
        /\ \A u \in DOMAIN req' : req'[u] \in Req
    BY <1>1, <1>2, Going
  <1>4. req[t].of[2] \in Phones /\ req[t].of[2] \in proved /\ t \in Threads
    BY <1>1, <1>2, Current DEF RequestsProved
  <1>5. TypeOK'
    BY <1>1, <1>2, <1>3, <1>4 DEF TypeOK, database, history, answers
  <1>6. AttemptsBounded'
    <2>1. \A a \in Attempts : Uncounted(a)' \subseteq Uncounted(a)
      BY <1>2, <1>3 DEF Uncounted
    <2>2. \A a \in Attempts : attempts'[a] \in Nat /\ attempts'[a] <= attempts[a]
      BY <1>1, <1>2 DEF TypeOK
    <2>3. QED
      BY <1>1, <2>1, <2>2, BoundKept
  <1>7. CodesSent' /\ VerifiedByCode'
    BY <1>1, <1>2, <1>4 DEF CodesSent, VerifiedByCode, database, history, answers
  <1>8. RequestsProved'
    BY <1>1, <1>2, <1>3, <1>4 DEF RequestsProved, history, answers
  <1>9. SideBySide'
    <2>1. ASSUME NEW q \in success' \ broken, code[q] # None
          PROVE  \E u \in Threads : Between(u, q)'
      <3>1. CASE q = req[t].of[2]
        BY <1>3, <1>4, <3>1 DEF Between, HalfDone
      <3>2. CASE q # req[t].of[2]
        <4>1. PICK u \in Threads : Between(u, q)
          BY <1>1, <1>2, <2>1, <3>2 DEF SideBySide
        <4>2. u # t
          BY <3>2, <4>1 DEF Between
        <4>3. QED
          BY <1>3, <4>1, <4>2 DEF Between
      <3>3. QED
        BY <3>1, <3>2
    <2>2. QED
      BY <1>2, <2>1 DEF SideBySide, history, answers
  <1>10. QED
    BY <1>5, <1>6, <1>7, <1>8, <1>9 DEF IInv

LEMMA DropCodeKeeps ==
  ASSUME IInv, NEW t \in DOMAIN req, DropCode(t)
  PROVE  IInv'
  <1>1. TypeOK /\ AttemptsBounded /\ CodesSent /\ RequestsProved /\ VerifiedByCode /\ SideBySide
    BY DEF IInv
  <1>2. /\ code' = [code EXCEPT ![req[t].of[2]] = None] /\ End(t)
        /\ UNCHANGED <<attempts, expiring, success, database, sent, proved, broken, orphaned,
                       asked>>
        /\ swept' \subseteq swept \cup {req[t].of[2]}
    BY DEF DropCode, Sweeps
  <1>3. /\ DOMAIN req' = DOMAIN req \ {t} /\ DOMAIN req' \subseteq Threads
        /\ \A u \in DOMAIN req \ {t} : req'[u] = req[u]
        /\ \A u \in DOMAIN req' : req'[u] \in Req
    BY <1>1, <1>2, Ending
  <1>4. TypeOK'
    BY <1>1, <1>2, <1>3, Current DEF TypeOK, database
  <1>5. AttemptsBounded'
    <2>1. \A a \in Attempts : Uncounted(a)' \subseteq Uncounted(a)
      BY <1>2, <1>3 DEF Uncounted
    <2>2. \A a \in Attempts : attempts'[a] \in Nat /\ attempts'[a] <= attempts[a]
      BY <1>1, <1>2 DEF TypeOK
    <2>3. QED
      BY <1>1, <2>1, <2>2, BoundKept
  <1>6. CodesSent' /\ VerifiedByCode'
    BY <1>1, <1>2 DEF CodesSent, VerifiedByCode, TypeOK, database
  <1>7. RequestsProved'
    BY <1>1, <1>2, <1>3 DEF RequestsProved
  <1>8. SideBySide'
    BY <1>1, <1>2, <1>3 DEF SideBySide, Between, TypeOK
  <1>9. QED
    BY <1>4, <1>5, <1>6, <1>7, <1>8 DEF IInv

-----------------------------------------------------------------------------
(* Signing up, and what happens without a request.                          *)

LEMMA CheckDuplicateKeeps ==
  ASSUME IInv, NEW t \in DOMAIN req, CheckDuplicate(t)
  PROVE  IInv'
  <1>1. TypeOK /\ AttemptsBounded /\ CodesSent /\ RequestsProved /\ VerifiedByCode /\ SideBySide
    BY DEF IInv
  <1>2. req[t].step = "look"
    BY DEF CheckDuplicate, At
  <1>3. req[t].step \notin HalfDone
    BY <1>2 DEF HalfDone
  <1>4. CASE Refuse(t)
    BY <1>3, <1>4, RefuseKeeps
  <1>5. CASE ~Refuse(t)
    <2>1. Go(t, "insert") /\ UNCHANGED <<redis, database, history>>
      BY <1>5 DEF CheckDuplicate
    <2>2. proved' = proved /\ proved \subseteq Phones /\ req[t].of[2] \in proved
      BY <1>1, <1>2, <2>1 DEF RequestsProved, TypeOK, history, answers
    <2>3. GoPast(t, "insert", {})
      BY <2>1, GoIsGoPast
    <2>4. QED
      BY <1>3, <2>1, <2>2, <2>3, LookKeeps DEF history, answers
  <1>6. QED
    BY <1>4, <1>5

LEMMA InsertKeeps ==
  ASSUME IInv, NEW t \in DOMAIN req, Insert(t)
  PROVE  IInv'
  <1>1. TypeOK /\ AttemptsBounded /\ CodesSent /\ RequestsProved /\ VerifiedByCode /\ SideBySide
    BY DEF IInv
  <1>2. /\ accountsOf' = [accountsOf EXCEPT ![req[t].of[2]] = @ + 1] /\ End(t)
        /\ req[t].step = "insert"
        /\ attempts' = attempts /\ UNCHANGED <<redis, active, history>>
    BY DEF Insert, At, redis
  <1>3. /\ DOMAIN req' = DOMAIN req \ {t} /\ DOMAIN req' \subseteq Threads
        /\ \A u \in DOMAIN req \ {t} : req'[u] = req[u]
        /\ \A u \in DOMAIN req' : req'[u] \in Req
    BY <1>1, <1>2, Ending
  <1>4. req[t].of[2] \in proved /\ req[t].of[2] \in Phones
    BY <1>1, <1>2, Current DEF RequestsProved
  <1>5. TypeOK'
    BY <1>1, <1>2, <1>3, <1>4 DEF TypeOK, redis, history, answers
  <1>6. AttemptsBounded'
    <2>1. \A a \in Attempts : Uncounted(a)' \subseteq Uncounted(a)
      BY <1>2, <1>3 DEF Uncounted
    <2>2. \A a \in Attempts : attempts'[a] \in Nat /\ attempts'[a] <= attempts[a]
      BY <1>1, <1>2 DEF TypeOK
    <2>3. QED
      BY <1>1, <2>1, <2>2, BoundKept
  <1>7. CodesSent'
    BY <1>1, <1>2 DEF CodesSent, redis, history, answers
  <1>8. VerifiedByCode'
    BY <1>1, <1>2, <1>4 DEF VerifiedByCode, TypeOK, redis, history, answers
  <1>9. RequestsProved'
    BY <1>1, <1>2, <1>3 DEF RequestsProved, history, answers
  <1>10. SideBySide'
    BY <1>1, <1>2, <1>3 DEF SideBySide, Between, HalfDone, redis, history, answers
  <1>11. QED
    BY <1>5, <1>6, <1>7, <1>8, <1>9, <1>10 DEF IInv

LEMMA ActivateKeeps ==
  ASSUME IInv, NEW p \in Phones, Activate(p)
  PROVE  IInv'
  BY DEF Activate, IInv, TypeOK, AttemptsBounded, Uncounted, CodesSent, RequestsProved,
         VerifiedByCode, SideBySide, Between, redis, history, answers

LEMMA LapseKeeps ==
  ASSUME IInv, Lapse
  PROVE  IInv'
  <1>1. TypeOK /\ AttemptsBounded /\ CodesSent /\ RequestsProved /\ VerifiedByCode /\ SideBySide
    BY DEF IInv
  <1>2. ASSUME NEW a \in Attempts, LapseAttempts(a) PROVE IInv'
    <2>1. /\ attempts' = [attempts EXCEPT ![a] = 0] /\ expiring' = expiring \ {a}
          /\ UNCHANGED <<code, success, database, req, history>>
      BY <1>2 DEF LapseAttempts
    <2>2. TypeOK'
      BY <1>1, <2>1 DEF TypeOK, database, history, answers
    <2>3. AttemptsBounded'
      <3>1. \A b \in Attempts : attempts'[b] \in Nat /\ attempts'[b] <= attempts[b]
        BY <1>1, <2>1 DEF TypeOK
      <3>2. \A b \in Attempts : Uncounted(b)' \subseteq Uncounted(b)
        BY <2>1 DEF Uncounted
      <3>3. QED
        BY <1>1, <3>1, <3>2, BoundKept
    <2>4. QED
      BY <1>1, <2>1, <2>2, <2>3
         DEF IInv, CodesSent, RequestsProved, VerifiedByCode, SideBySide, Between, database,
             history, answers
  <1>3. ASSUME NEW p \in Phones, LapseCode(p) PROVE IInv'
    <2>1. /\ code' = [code EXCEPT ![p] = None]
          /\ asked' = asked \ {p}
          /\ UNCHANGED <<attempts, expiring, success, database, req, sent, proved, broken,
                         orphaned, swept>>
      BY <1>3 DEF LapseCode
    <2>2. TypeOK' /\ AttemptsBounded'
      BY <1>1, <2>1 DEF TypeOK, AttemptsBounded, Uncounted, database, history, answers
    <2>3. CodesSent' /\ SideBySide'
      BY <1>1, <2>1 DEF CodesSent, SideBySide, Between, TypeOK, history, answers
    <2>4. QED
      BY <1>1, <2>1, <2>2, <2>3 DEF IInv, RequestsProved, VerifiedByCode, database, history, answers
  <1>4. ASSUME NEW p \in Phones, LapseSuccess(p) PROVE IInv'
    BY <1>1, <1>4
       DEF LapseSuccess, IInv, TypeOK, AttemptsBounded, Uncounted, CodesSent, RequestsProved,
           VerifiedByCode, SideBySide, Between, database, history, answers
  <1>5. QED
    BY <1>2, <1>3, <1>4 DEF Lapse

LEMMA RequestKeeps ==
  ASSUME IInv, NEW t \in Threads, Request(t)
  PROVE  IInv'
  <1>1. TypeOK /\ AttemptsBounded /\ CodesSent /\ RequestsProved /\ VerifiedByCode /\ SideBySide
    BY DEF IInv
  <1>2. ASSUME NEW a \in Attempts, Send(t, a) PROVE IInv'
    <2>1. PICK r : r = [do |-> "send", of |-> a, code |-> None, step |-> "attempts",
                      stale |-> FALSE]
      OBVIOUS
    <2>2. r \in Req /\ r.step = "attempts"
      BY <2>1 DEF Req
    <2>3. Begin(t, r) /\ UNCHANGED <<redis, database, history>>
      BY <1>2, <2>1 DEF Send
    <2>4. QED
      BY <2>2, <2>3, BeginKeeps
  <1>3. ASSUME NEW p \in Phones, SignUp(t, p) PROVE IInv'
    <2>1. PICK r : r = [do |-> "signUp", of |-> <<"SIGN_UP", p>>, code |-> None, step |-> "look",
                      stale |-> FALSE]
      OBVIOUS
    <2>2. <<"SIGN_UP", p>> \in Attempts
      BY DEF Attempts, Purposes
    <2>3. r \in Req /\ r.step = "look" /\ r.of[2] = p
      BY <2>1, <2>2 DEF Req
    <2>4. p \in proved
      BY <1>1, <1>3 DEF SignUp, VerifiedByCode
    <2>5. Begin(t, r) /\ UNCHANGED <<redis, database, history>>
      BY <1>3, <2>1 DEF SignUp
    <2>6. QED
      BY <2>3, <2>4, <2>5, BeginKeeps
  <1>4. ASSUME NEW p \in Phones, NEW c \in Codes, Verify(t, p, c) PROVE IInv'
    <2>1. PICK r : r = [do |-> "verify", of |-> <<"SIGN_UP", p>>, code |-> c, step |-> "find",
                      stale |-> FALSE]
      OBVIOUS
    <2>2. <<"SIGN_UP", p>> \in Attempts
      BY DEF Attempts, Purposes
    <2>3. r \in Req /\ r.step = "find"
      BY <2>1, <2>2 DEF Req
    <2>4. Begin(t, r) /\ UNCHANGED <<redis, database, history>>
      BY <1>4, <2>1 DEF Verify
    <2>5. QED
      BY <2>3, <2>4, BeginKeeps
  <1>5. QED
    BY <1>2, <1>3, <1>4 DEF Request

LEMMA StepKeepsIInv ==
  ASSUME IInv, NEW t \in Threads, Step(t)
  PROVE  IInv'
  <1>1. t \in DOMAIN req
    BY DEF Step, SendStep, VerifyStep, CheckAttempts, SaveCode, Count, ExpireAttempts, Reset,
           FindCode, SaveSuccess, DropCode, CheckDuplicate, Insert, At
  <1>2. CASE SendStep(t)
    BY <1>1, <1>2, CheckAttemptsKeeps, SaveCodeKeeps, CountKeeps, ExpireAttemptsKeeps, ResetKeeps
       DEF SendStep
  <1>3. CASE VerifyStep(t)
    BY <1>1, <1>3, FindCodeKeeps, SaveSuccessKeeps, DropCodeKeeps DEF VerifyStep
  <1>4. CASE CheckDuplicate(t) \/ Insert(t)
    BY <1>1, <1>4, CheckDuplicateKeeps, InsertKeeps
  <1>5. QED
    BY <1>2, <1>3, <1>4 DEF Step

-----------------------------------------------------------------------------
(* The theorems about PhoneAuth.                                            *)

\* The invariant holds in every state.
THEOREM Invariant == Spec => []IInv
  <1>1. Init => IInv
    <2>1. SUFFICES ASSUME Init PROVE IInv
      OBVIOUS
    <2>2. DOMAIN req = {}
      BY <2>1 DEF Init
    <2>3. TypeOK
      BY <2>1, <2>2 DEF Init, TypeOK
    <2>4. AttemptsBounded
      <3>1. ASSUME NEW a \in Attempts PROVE Within(a, attempts[a], Uncounted(a))
        <4>1. PICK S \in SUBSET Threads : S = Uncounted(a)
          BY <2>3, UncountedFinite
        <4>2. ~IsExceed(a, 0)
          BY AttemptParts, PhoneAssumption DEF IsExceed
        <4>3. Within(a, 0, S)
          BY <4>2, CheckedWithin
        <4>4. QED
          BY <2>1, <4>1, <4>3 DEF Init
      <3>2. QED
        BY <3>1, BoundAsWithin
    <2>5. QED
      BY <2>1, <2>2, <2>3, <2>4
         DEF Init, IInv, CodesSent, RequestsProved, VerifiedByCode, SideBySide
  <1>2. IInv /\ [Next]_vars => IInv'
    <2>1. SUFFICES ASSUME IInv, [Next]_vars PROVE IInv'
      OBVIOUS
    <2>2. ASSUME NEW t \in Threads, Request(t) PROVE IInv'
      BY <2>1, <2>2, RequestKeeps
    <2>3. ASSUME NEW t \in Threads, Step(t) PROVE IInv'
      BY <2>1, <2>3, StepKeepsIInv
    <2>4. ASSUME NEW t \in Threads, Fail(t) PROVE IInv'
      <3>1. t \in DOMAIN req
        BY <2>4 DEF Fail
      <3>2. QED
        BY <2>1, <2>4, <3>1, FailKeeps
    <2>5. ASSUME NEW p \in Phones, Activate(p) PROVE IInv'
      BY <2>1, <2>5, ActivateKeeps
    <2>6. CASE Lapse
      BY <2>1, <2>6, LapseKeeps
    <2>7. CASE UNCHANGED vars
      BY <2>1, <2>7
         DEF vars, redis, database, history, answers, IInv, TypeOK, AttemptsBounded, Uncounted,
             CodesSent, RequestsProved, VerifiedByCode, SideBySide, Between
    <2>8. QED
      BY <2>1, <2>2, <2>3, <2>4, <2>5, <2>6, <2>7 DEF Next
  <1>3. QED
    BY <1>1, <1>2, PTL DEF Spec

\* However the commands of requests interleave or fail, the keys are well typed
\* and only a phone with an account is active.
THEOREM TypeCorrect == Spec => []TypeOK
  BY Invariant, PTL DEF IInv

\* Requests that pass the check of the attempts together exceed the maximum by
\* less than the number of threads.
THEOREM Bounded == Spec => []AttemptsBounded
  BY Invariant, PTL DEF IInv

\* A phone is verified, and has an account, only after a code that was sent to
\* it was presented.
THEOREM Verified == Spec => []VerifiedByCode
  BY Invariant, PTL DEF IInv

-----------------------------------------------------------------------------
(* A code to present, or a success.                                         *)

\* The phones sent a code of which no request deleted what it knew nothing of.
Clear == asked \ (broken \cup swept)

SendSteps == {"count", "expire", "reset"}

FindSteps == {"save", "drop"}

Answerable == \A p \in Clear : code[p] # None \/ p \in success

\* A request that is about to delete one key, and knows of all that happened
\* since it looked, finds the other there.
Knowing ==
    \A t \in DOMAIN req :
       req[t].of[2] \in Clear /\ ~req[t].stale =>
          /\ req[t].step = "drop" => req[t].of[2] \in success
          /\ req[t].step \in SendSteps => code[req[t].of[2]] # None

\* Of a verification and a sending that are both about to delete, the one that
\* looked first does not know of the other.
Strangers ==
    \A t, u \in DOMAIN req :
       /\ req[t].of[2] = req[u].of[2]
       /\ req[t].step \in FindSteps /\ req[u].step \in SendSteps
       => req[t].stale \/ req[u].stale

AInv == Answerable /\ Knowing /\ Strangers

\* The requests about to delete after the step were so before it.
SameDeleters ==
    \A t \in DOMAIN req' : req'[t].step \in FindSteps \cup SendSteps =>
       /\ t \in DOMAIN req /\ req'[t].of = req[t].of /\ req'[t].stale = req[t].stale
       /\ req'[t].step \in FindSteps <=> req[t].step \in FindSteps
       /\ req'[t].step \in SendSteps <=> req[t].step \in SendSteps

SameDrops == \A t \in DOMAIN req' : req'[t].step = "drop" => req[t].step = "drop"

LEMMA StrangersKept ==
  ASSUME AInv, SameDeleters
  PROVE  Strangers'
  BY DEF AInv, Strangers, SameDeleters

\* A step that leaves alone the keys of the phones in Clear.
LEMMA AsideKeeps ==
  ASSUME AInv, SameDeleters, SameDrops,
         \A p \in Clear' : p \in Clear /\ code'[p] = code[p] /\ (p \in success' <=> p \in success)
  PROVE  AInv'
  <1>1. Answerable'
    BY DEF AInv, Answerable
  <1>2. Knowing'
    BY DEF AInv, Knowing, SameDeleters, SameDrops, FindSteps
  <1>3. QED
    BY <1>1, <1>2, StrangersKept DEF AInv

LEMMA BeginAside ==
  ASSUME TypeOK, AInv, NEW t \in Threads, NEW r \in Req, Begin(t, r),
         r.step \in {"attempts", "find", "look"}, UNCHANGED <<redis, history>>
  PROVE  AInv'
  <1>1. /\ DOMAIN req' = DOMAIN req \cup {t} /\ req'[t] = r
        /\ \A u \in DOMAIN req : req'[u] = req[u]
    BY Beginning
  <1>2. SameDeleters /\ SameDrops
    BY <1>1 DEF SameDeleters, SameDrops, FindSteps, SendSteps
  <1>3. QED
    BY <1>2, AsideKeeps DEF Clear, redis, history, answers

LEMMA RequestAside ==
  ASSUME TypeOK, AInv, NEW t \in Threads, Request(t)
  PROVE  AInv'
  <1>1. ASSUME NEW a \in Attempts, Send(t, a) PROVE AInv'
    <2>1. PICK r : r = [do |-> "send", of |-> a, code |-> None, step |-> "attempts",
                        stale |-> FALSE]
      OBVIOUS
    <2>2. r \in Req /\ r.step = "attempts"
      BY <2>1 DEF Req
    <2>3. Begin(t, r) /\ UNCHANGED <<redis, history>>
      BY <1>1, <2>1 DEF Send
    <2>4. QED
      BY <2>2, <2>3, BeginAside
  <1>2. ASSUME NEW p \in Phones, SignUp(t, p) PROVE AInv'
    <2>1. PICK r : r = [do |-> "signUp", of |-> <<"SIGN_UP", p>>, code |-> None, step |-> "look",
                        stale |-> FALSE]
      OBVIOUS
    <2>2. <<"SIGN_UP", p>> \in Attempts
      BY DEF Attempts, Purposes
    <2>3. r \in Req /\ r.step = "look"
      BY <2>1, <2>2 DEF Req
    <2>4. Begin(t, r) /\ UNCHANGED <<redis, history>>
      BY <1>2, <2>1 DEF SignUp
    <2>5. QED
      BY <2>3, <2>4, BeginAside
  <1>3. ASSUME NEW p \in Phones, NEW c \in Codes, Verify(t, p, c) PROVE AInv'
    <2>1. PICK r : r = [do |-> "verify", of |-> <<"SIGN_UP", p>>, code |-> c, step |-> "find",
                        stale |-> FALSE]
      OBVIOUS
    <2>2. <<"SIGN_UP", p>> \in Attempts
      BY DEF Attempts, Purposes
    <2>3. r \in Req /\ r.step = "find"
      BY <2>1, <2>2 DEF Req
    <2>4. Begin(t, r) /\ UNCHANGED <<redis, history>>
      BY <1>3, <2>1 DEF Verify
    <2>5. QED
      BY <2>3, <2>4, BeginAside
  <1>4. QED
    BY <1>1, <1>2, <1>3 DEF Request

\* A request that ends, whatever it wrote.
LEMMA EndDeleters ==
  ASSUME TypeOK, NEW t \in DOMAIN req, End(t)
  PROVE  SameDeleters /\ SameDrops
  <1>1. /\ DOMAIN req' = DOMAIN req \ {t}
        /\ \A u \in DOMAIN req \ {t} : req'[u] = req[u]
    BY Ending
  <1>2. QED
    BY <1>1 DEF SameDeleters, SameDrops

LEMMA EndAside ==
  ASSUME TypeOK, AInv, NEW t \in DOMAIN req, End(t), UNCHANGED <<code, success, answers>>,
         broken \subseteq broken'
  PROVE  AInv'
  BY EndDeleters, AsideKeeps DEF Clear, answers

\* A request that goes on and does not begin to delete.
LEMMA GoAside ==
  ASSUME TypeOK, AInv, NEW t \in DOMAIN req, NEW step, Go(t, step),
         UNCHANGED <<code, success, history>>,
         \/ step \in {"code", "insert"}
         \/ step \in {"expire", "reset"} /\ req[t].step \in SendSteps
  PROVE  AInv'
  <1>1. step \in {"code", "count", "expire", "reset", "save", "drop", "insert"}
    OBVIOUS
  <1>2. /\ DOMAIN req' = DOMAIN req /\ req'[t].step = step /\ req'[t].of = req[t].of
        /\ \A u \in DOMAIN req \ {t} : req'[u] = req[u]
    BY <1>1, Going
  <1>3. req'[t].stale = req[t].stale
    <2>1. PICK r \in Req : r = req[t]
      BY DEF TypeOK
    <2>2. PICK new : new = [r EXCEPT !.step = step]
      OBVIOUS
    <2>3. new.stale = r.stale
      BY <2>1, <2>2 DEF Req
    <2>4. req'[t] = new
      BY <2>1, <2>2 DEF Go
    <2>5. QED
      BY <2>1, <2>3, <2>4
  <1>4. SameDeleters /\ SameDrops
    BY <1>2, <1>3 DEF SameDeleters, SameDrops, FindSteps, SendSteps
  <1>5. QED
    BY <1>4, AsideKeeps DEF Clear, history, answers

LEMMA SaveCodeAnswers ==
  ASSUME TypeOK, AInv, NEW t \in DOMAIN req, SaveCode(t)
  PROVE  AInv'
  <1>1. PICK p \in Phones, c \in Codes :
          p = req[t].of[2] /\ code' = [code EXCEPT ![p] = c]
    BY Current DEF SaveCode
  <1>2. /\ GoPast(t, "count", Verifying(p))
        /\ asked' = asked \cup {p} /\ swept' = swept \ {p} /\ UNCHANGED <<success, broken>>
    BY <1>1 DEF SaveCode
  <1>3. code'[p] # None /\ \A q \in Phones \ {p} : code'[q] = code[q]
    BY <1>1, PhoneAssumption DEF TypeOK
  <1>4. Clear' \subseteq Clear \cup {p} /\ Clear' \subseteq Phones
    BY <1>2 DEF Clear, TypeOK
  <1>5. /\ DOMAIN req' = DOMAIN req /\ req'[t].step = "count" /\ req'[t].of = req[t].of
        /\ \A u \in DOMAIN req \ {t} :
             /\ req'[u].of = req[u].of /\ req'[u].step = req[u].step
             /\ (u \in Verifying(p) => req'[u].stale)
             /\ (u \notin Verifying(p) => req'[u].stale = req[u].stale)
    <2>1. PICK S : S = Verifying(p)
      OBVIOUS
    <2>2. GoPast(t, "count", S)
      BY <1>2, <2>1
    <2>3. \A u \in DOMAIN req \ {t} :
            (u \in S => req'[u].stale) /\ (u \notin S => req'[u].stale = req[u].stale)
      BY <2>2, GoingPast
    <2>4. QED
      BY <2>1, <2>2, <2>3, GoingPast
  <1>6. Answerable'
    BY <1>2, <1>3, <1>4 DEF AInv, Answerable
  <1>7. ASSUME NEW u \in DOMAIN req, req'[u].of[2] = p, req'[u].step \in FindSteps
        PROVE  req'[u].stale
    BY <1>5, <1>7 DEF Verifying, FindSteps
  <1>8. Knowing'
    <2>1. ASSUME NEW u \in DOMAIN req, req'[u].of[2] \in Clear', ~req'[u].stale
          PROVE  /\ req'[u].step = "drop" => req'[u].of[2] \in success'
                 /\ req'[u].step \in SendSteps => code'[req'[u].of[2]] # None
      <3>1. CASE req'[u].of[2] = p
        BY <1>3, <1>7, <2>1, <3>1 DEF FindSteps
      <3>2. CASE req'[u].of[2] # p
        <4>1. u # t /\ req[u].of = req'[u].of /\ req[u].step = req'[u].step
          BY <1>1, <1>5, <3>2
        <4>2. ~req[u].stale
          BY <1>5, <2>1, <4>1
        <4>3. req[u].of[2] \in Clear /\ code'[req[u].of[2]] = code[req[u].of[2]]
          BY <1>3, <1>4, <2>1, <3>2, <4>1
        <4>4. QED
          BY <1>2, <4>1, <4>2, <4>3 DEF AInv, Knowing
      <3>3. QED
        BY <3>1, <3>2
    <2>2. QED
      BY <1>5, <2>1 DEF Knowing
  <1>9. Strangers'
    <2>1. ASSUME NEW u \in DOMAIN req, NEW v \in DOMAIN req, req'[u].of[2] = req'[v].of[2],
                 req'[u].step \in FindSteps, req'[v].step \in SendSteps,
                 req'[u].of[2] # p
          PROVE  req'[u].stale \/ req'[v].stale
      <3>1. u # t /\ v # t
        BY <1>1, <1>5, <2>1
      <3>2. req[u].stale \/ req[v].stale
        BY <1>5, <2>1, <3>1 DEF AInv, Strangers
      <3>3. QED
        BY <1>5, <3>1, <3>2
    <2>2. QED
      BY <1>5, <1>7, <2>1 DEF Strangers
  <1>10. QED
    BY <1>6, <1>8, <1>9 DEF AInv

LEMMA FindCodeAnswers ==
  ASSUME TypeOK, AInv, NEW t \in DOMAIN req, FindCode(t)
  PROVE  AInv'
  <1>1. PICK p \in Phones : p = req[t].of[2]
    BY Current
  <1>2. CASE Matches(req[t].code, code[p])
    <2>1. /\ GoPast(t, "save", Sending(p)) /\ UNCHANGED <<code, success, broken, asked, swept>>
      BY <1>1, <1>2 DEF FindCode, redis, answers
    <2>2. /\ DOMAIN req' = DOMAIN req /\ req'[t].step = "save" /\ req'[t].of = req[t].of
          /\ \A u \in DOMAIN req \ {t} :
               /\ req'[u].of = req[u].of /\ req'[u].step = req[u].step
               /\ (u \in Sending(p) => req'[u].stale)
               /\ (u \notin Sending(p) => req'[u].stale = req[u].stale)
      <3>1. PICK S : S = Sending(p)
        OBVIOUS
      <3>2. GoPast(t, "save", S)
        BY <2>1, <3>1
      <3>3. \A u \in DOMAIN req \ {t} :
              (u \in S => req'[u].stale) /\ (u \notin S => req'[u].stale = req[u].stale)
        BY <3>2, GoingPast
      <3>4. QED
        BY <3>1, <3>2, <3>3, GoingPast
    <2>3. Clear' = Clear
      BY <2>1 DEF Clear
    <2>4. Answerable'
      BY <2>1, <2>3 DEF AInv, Answerable
    <2>5. Knowing'
      <3>1. ASSUME NEW u \in DOMAIN req \ {t}, ~req'[u].stale
            PROVE  ~req[u].stale
        BY <2>2, <3>1
      <3>2. QED
        BY <2>1, <2>2, <2>3, <3>1 DEF AInv, Knowing, SendSteps
    <2>6. Strangers'
      <3>1. ASSUME NEW u \in DOMAIN req, NEW v \in DOMAIN req, req'[u].of[2] = req'[v].of[2],
                   req'[u].step \in FindSteps, req'[v].step \in SendSteps
            PROVE  req'[u].stale \/ req'[v].stale
        <4>1. v # t
          BY <2>2, <3>1 DEF SendSteps
        <4>2. CASE req[v].of[2] = p
          BY <2>2, <3>1, <4>1, <4>2 DEF Sending, SendSteps
        <4>3. CASE req[v].of[2] # p
          <5>1. u # t
            BY <1>1, <2>2, <3>1, <4>1, <4>3
          <5>2. req[u].stale \/ req[v].stale
            BY <2>2, <3>1, <4>1, <5>1 DEF AInv, Strangers
          <5>3. QED
            BY <2>2, <4>1, <5>1, <5>2
        <4>4. QED
          BY <4>2, <4>3
      <3>2. QED
        BY <2>2, <3>1 DEF Strangers
    <2>7. QED
      BY <2>4, <2>5, <2>6 DEF AInv
  <1>3. CASE ~Matches(req[t].code, code[p])
    <2>1. End(t) /\ UNCHANGED <<code, success, answers>> /\ broken' = broken
      BY <1>1, <1>3 DEF FindCode, Refuse, redis, history
    <2>2. QED
      BY <2>1, EndAside
  <1>4. QED
    BY <1>2, <1>3

LEMMA SaveSuccessAnswers ==
  ASSUME TypeOK, AInv, NEW t \in DOMAIN req, SaveSuccess(t)
  PROVE  AInv'
  <1>1. /\ success' = success \cup {req[t].of[2]} /\ Go(t, "drop") /\ req[t].step = "save"
        /\ UNCHANGED <<code, broken, asked, swept>>
    BY DEF SaveSuccess, At, history, answers
  <1>2. /\ DOMAIN req' = DOMAIN req /\ req'[t].step = "drop" /\ req'[t].of = req[t].of
        /\ \A u \in DOMAIN req \ {t} : req'[u] = req[u]
    BY <1>1, Going
  <1>3. req'[t].stale = req[t].stale
    <2>1. GoPast(t, "drop", {})
      BY <1>1, GoIsGoPast
    <2>2. PICK r \in Req : r = req[t]
      BY DEF TypeOK
    <2>3. PICK new : new = [r EXCEPT !.step = "drop"]
      OBVIOUS
    <2>4. new.stale = r.stale
      BY <2>2, <2>3 DEF Req
    <2>5. req'[t] = new
      BY <2>1, <2>2, <2>3 DEF GoPast
    <2>6. QED
      BY <2>2, <2>4, <2>5
  <1>4. Clear' = Clear
    BY <1>1 DEF Clear
  <1>5. Answerable'
    BY <1>1, <1>4 DEF AInv, Answerable
  <1>6. Knowing'
    BY <1>1, <1>2, <1>4 DEF AInv, Knowing, SendSteps
  <1>7. SameDeleters
    BY <1>1, <1>2, <1>3 DEF SameDeleters, FindSteps, SendSteps
  <1>8. QED
    BY <1>5, <1>6, <1>7, StrangersKept DEF AInv

\* A sending that knows of no verification finds its code there; one that does
\* not know of a success it deletes leaves the phone swept.
LEMMA ResetAnswers ==
  ASSUME TypeOK, AInv, NEW t \in DOMAIN req, Reset(t)
  PROVE  AInv'
  <1>1. PICK p : p = req[t].of[2]
    OBVIOUS
  <1>2. /\ success' = success \ {p} /\ End(t) /\ req[t].step = "reset"
        /\ swept' = swept \cup Sweeps(t, success) /\ UNCHANGED <<code, broken, asked>>
    BY <1>1 DEF Reset, At
  <1>3. /\ DOMAIN req' = DOMAIN req \ {t}
        /\ \A u \in DOMAIN req \ {t} : req'[u] = req[u]
    BY <1>2, Ending
  <1>4. SameDeleters /\ SameDrops
    BY <1>2, EndDeleters
  <1>5. Clear' \subseteq Clear
    BY <1>2 DEF Clear
  <1>6. CASE p \notin success
    BY <1>2, <1>4, <1>5, <1>6, AsideKeeps
  <1>7. CASE p \notin Clear'
    BY <1>2, <1>4, <1>5, <1>7, AsideKeeps
  <1>8. CASE p \in success /\ p \in Clear'
    <2>1. ~req[t].stale
      BY <1>1, <1>2, <1>8 DEF Clear, Sweeps
    <2>2. code[p] # None
      BY <1>1, <1>2, <1>5, <1>8, <2>1 DEF AInv, Knowing, SendSteps
    <2>3. Answerable'
      BY <1>2, <1>5, <2>2 DEF AInv, Answerable
    <2>4. ASSUME NEW u \in DOMAIN req, req[u].of[2] = p, req[u].step = "drop"
          PROVE  req[u].stale
      BY <1>1, <1>2, <2>1, <2>4 DEF AInv, Strangers, FindSteps, SendSteps
    <2>5. Knowing'
      BY <1>2, <1>3, <1>5, <2>4 DEF AInv, Knowing
    <2>6. QED
      BY <1>4, <2>3, <2>5, StrangersKept DEF AInv
  <1>9. QED
    BY <1>6, <1>7, <1>8

LEMMA DropCodeAnswers ==
  ASSUME TypeOK, AInv, NEW t \in DOMAIN req, DropCode(t)
  PROVE  AInv'
  <1>1. PICK p \in Phones : p = req[t].of[2]
    BY Current
  <1>2. /\ code' = [code EXCEPT ![p] = None] /\ End(t) /\ req[t].step = "drop"
        /\ swept' = swept \cup Sweeps(t, {q \in Phones : code[q] # None})
        /\ UNCHANGED <<success, broken, asked>>
    BY <1>1 DEF DropCode, At
  <1>3. /\ DOMAIN req' = DOMAIN req \ {t}
        /\ \A u \in DOMAIN req \ {t} : req'[u] = req[u]
    BY <1>2, Ending
  <1>4. SameDeleters /\ SameDrops
    BY <1>2, EndDeleters
  <1>5. Clear' \subseteq Clear /\ Clear' \subseteq Phones
    BY <1>2 DEF Clear, TypeOK
  <1>6. \A q \in Phones \ {p} : code'[q] = code[q]
    BY <1>2 DEF TypeOK
  <1>7. CASE code[p] = None
    <2>1. code'[p] = code[p]
      BY <1>2, <1>7 DEF TypeOK
    <2>2. QED
      BY <1>2, <1>4, <1>5, <1>6, <2>1, AsideKeeps
  <1>8. CASE p \notin Clear'
    BY <1>2, <1>4, <1>5, <1>6, <1>8, AsideKeeps
  <1>9. CASE code[p] # None /\ p \in Clear'
    <2>1. ~req[t].stale
      BY <1>1, <1>2, <1>9 DEF Clear, Sweeps
    <2>2. p \in success
      BY <1>1, <1>2, <1>5, <1>9, <2>1 DEF AInv, Knowing
    <2>3. Answerable'
      BY <1>2, <1>5, <1>6, <2>2 DEF AInv, Answerable
    <2>4. ASSUME NEW u \in DOMAIN req, req[u].of[2] = p, req[u].step \in SendSteps
          PROVE  req[u].stale
      BY <1>1, <1>2, <2>1, <2>4 DEF AInv, Strangers, FindSteps
    <2>5. Knowing'
      BY <1>2, <1>3, <1>5, <1>6, <2>4 DEF AInv, Knowing
    <2>6. QED
      BY <1>4, <2>3, <2>5, StrangersKept DEF AInv
  <1>10. QED
    BY <1>7, <1>8, <1>9

LEMMA LapseAside ==
  ASSUME TypeOK, AInv, Lapse
  PROVE  AInv'
  <1>1. SameDeleters /\ SameDrops
    BY DEF Lapse, LapseAttempts, LapseCode, LapseSuccess, SameDeleters, SameDrops
  <1>2. ASSUME NEW a \in Attempts, LapseAttempts(a) PROVE AInv'
    BY <1>1, <1>2, AsideKeeps DEF LapseAttempts, Clear, history, answers
  <1>3. ASSUME NEW p \in Phones, LapseCode(p) PROVE AInv'
    BY <1>1, <1>3, AsideKeeps DEF LapseCode, Clear, TypeOK
  <1>4. ASSUME NEW p \in Phones, LapseSuccess(p) PROVE AInv'
    BY <1>1, <1>4, AsideKeeps DEF LapseSuccess, Clear
  <1>5. QED
    BY <1>2, <1>3, <1>4 DEF Lapse

LEMMA StepAnswers ==
  ASSUME TypeOK, AInv, NEW t \in Threads, Step(t)
  PROVE  AInv'
  <1>1. t \in DOMAIN req
    BY DEF Step, SendStep, VerifyStep, CheckAttempts, SaveCode, Count, ExpireAttempts, Reset,
           FindCode, SaveSuccess, DropCode, CheckDuplicate, Insert, At
  <1>2. ASSUME Refuse(t) PROVE AInv'
    <2>1. End(t) /\ UNCHANGED <<code, success, answers>> /\ broken' = broken
      BY <1>2 DEF Refuse, redis, history
    <2>2. QED
      BY <1>1, <2>1, EndAside
  <1>3. CASE CheckAttempts(t)
    BY <1>1, <1>2, <1>3, GoAside DEF CheckAttempts, redis
  <1>4. CASE CheckDuplicate(t)
    BY <1>1, <1>2, <1>4, GoAside DEF CheckDuplicate, redis
  <1>5. CASE Count(t)
    <2>1. PICK step \in {"expire", "reset"} : Go(t, step)
      BY <1>5 DEF Count
    <2>2. req[t].step \in SendSteps /\ UNCHANGED <<code, success, history>>
      BY <1>5 DEF Count, At, SendSteps
    <2>3. QED
      BY <1>1, <2>1, <2>2, GoAside
  <1>6. CASE ExpireAttempts(t)
    <2>1. Go(t, "reset") /\ req[t].step \in SendSteps /\ UNCHANGED <<code, success, history>>
      BY <1>6 DEF ExpireAttempts, At, SendSteps
    <2>2. QED
      BY <1>1, <2>1, GoAside
  <1>7. CASE Insert(t)
    <2>1. End(t) /\ UNCHANGED <<code, success, answers>> /\ broken' = broken
      BY <1>7 DEF Insert, redis, history
    <2>2. QED
      BY <1>1, <2>1, EndAside
  <1>8. QED
    BY <1>1, <1>3, <1>4, <1>5, <1>6, <1>7, SaveCodeAnswers, ResetAnswers, FindCodeAnswers,
       SaveSuccessAnswers, DropCodeAnswers
       DEF Step, SendStep, VerifyStep

\* Sendings and verifications that interleave leave a phone that was sent a code
\* with one to present or verified, and with both only while one is under way,
\* until a key expires, a request fails half done or one deletes what it knew
\* nothing of.
THEOREM CodeUsable == Spec => []CodeOrVerified
  <1>1. Init => AInv
    BY DEF Init, AInv, Clear, Answerable, Knowing, Strangers
  <1>2. IInv /\ AInv /\ [Next]_vars => AInv'
    <2>1. SUFFICES ASSUME TypeOK, AInv, [Next]_vars PROVE AInv'
      BY DEF IInv
    <2>2. ASSUME NEW t \in Threads, Request(t) PROVE AInv'
      BY <2>1, <2>2, RequestAside
    <2>3. ASSUME NEW t \in Threads, Step(t) PROVE AInv'
      BY <2>1, <2>3, StepAnswers
    <2>4. ASSUME NEW t \in Threads, Fail(t) PROVE AInv'
      <3>1. t \in DOMAIN req /\ End(t) /\ UNCHANGED <<code, success, answers>>
            /\ broken \subseteq broken'
        BY <2>4 DEF Fail, redis
      <3>2. QED
        BY <2>1, <3>1, EndAside
    <2>5. ASSUME req' = req, UNCHANGED <<redis, history>> PROVE AInv'
      <3>1. SameDeleters /\ SameDrops
        BY <2>5 DEF SameDeleters, SameDrops
      <3>2. QED
        BY <2>1, <2>5, <3>1, AsideKeeps DEF Clear, redis, history, answers
    <2>6. ASSUME NEW p \in Phones, Activate(p) PROVE AInv'
      BY <2>5, <2>6 DEF Activate
    <2>7. CASE Lapse
      BY <2>1, <2>7, LapseAside
    <2>8. CASE UNCHANGED vars
      BY <2>5, <2>8 DEF vars
    <2>9. QED
      BY <2>1, <2>2, <2>3, <2>4, <2>6, <2>7, <2>8 DEF Next
  <1>3. IInv /\ AInv => CodeOrVerified
    BY DEF IInv, AInv, SideBySide, Between, Answerable, Clear, CodeOrVerified, TypeOK
  <1>4. QED
    BY <1>1, <1>2, <1>3, Invariant, PTL DEF Spec

-----------------------------------------------------------------------------
(* From the account to its store.                                           *)

\* What a job writes follows from what it read.
Shaped(job) ==
    /\ DOMAIN job.read = DOMAIN job.accounts
    /\ DOMAIN job.seen = DOMAIN job.registrations
    /\ \A r \in DOMAIN job.registrations :
         /\ job.registrations[r] = "APPROVE" <=> job.do = "approve"
         /\ job.seen[r] # "APPROVE"
    /\ job.do # "admin" => \A a \in DOMAIN job.accounts :
         job.accounts[a].permission = "USER" => job.read[a].permission = "USER"

\* When an approval commits, the applicant will be an owner.
WillOwn(job, permits, excused) ==
    job.do = "approve" => \A r \in DOMAIN job.registrations :
       LET a == Applicant[r]
       IN  IF a \in DOMAIN job.accounts THEN job.accounts[a].permission # "USER"
           ELSE a \notin excused => permits[a].permission # "USER"

\* The inductive invariant of Onboarding.
OnboardingInv ==
    /\ OnboardingTypeOK /\ OneStoreEach /\ StoresHaveOwners
    /\ \A t \in DOMAIN txn : Shaped(txn[t]) /\ WillOwn(txn[t], accounts, lost \cup demoted)

\* The types of a job.
TypedJob(job) ==
    /\ job.do \in Services
    /\ DOMAIN job.accounts \subseteq Accounts
    /\ \A a \in DOMAIN job.accounts : job.accounts[a] \in Account
    /\ DOMAIN job.registrations \subseteq Registrations
    /\ \A r \in DOMAIN job.registrations : job.registrations[r] \in Statuses

\* The types of the committed rows.
TypedRows ==
    /\ accounts \in [Accounts -> Account]
    /\ registrations \in [Registrations -> Statuses]
    /\ stores \in [Registrations -> Nat]
    /\ lost \subseteq Accounts \cup Registrations /\ demoted \subseteq Accounts

LEMMA JobTypes ==
  OnboardingTypeOK <=>
     TypedRows /\ DOMAIN txn \subseteq Transactions /\ \A t \in DOMAIN txn : TypedJob(txn[t])
  BY DEF OnboardingTypeOK, TypedRows, TypedJob

LEMMA WrittenRows ==
  ASSUME NEW x, NEW row
  PROVE  /\ DOMAIN One(x, row) = {x} /\ One(x, row)[x] = row
         /\ DOMAIN Nothing = {}
  BY DEF One, Nothing

-----------------------------------------------------------------------------
(* Requests of Onboarding.                                                  *)

\* A request that begins with a well-typed job that follows from the rows it
\* read keeps the invariant.
LEMMA JobBegins ==
  ASSUME OnboardingInv, NEW t \in Transactions, NEW do \in Services, NEW accs, NEW regs,
         BeginJob(t, do, accs, regs),
         DOMAIN accs \subseteq Accounts, \A a \in DOMAIN accs : accs[a] \in Account,
         DOMAIN regs \subseteq Registrations, \A r \in DOMAIN regs : regs[r] \in Statuses,
         \A r \in DOMAIN regs :
            (regs[r] = "APPROVE" <=> do = "approve") /\ registrations[r] # "APPROVE",
         do # "admin" => \A a \in DOMAIN accs :
            accs[a].permission = "USER" => accounts[a].permission = "USER",
         do = "approve" => \A r \in DOMAIN regs :
            IF Applicant[r] \in DOMAIN accs THEN accs[Applicant[r]].permission # "USER"
            ELSE accounts[Applicant[r]].permission # "USER"
  PROVE  OnboardingInv'
  <1>1. PICK job : job = [do |-> do, accounts |-> accs, registrations |-> regs,
                          read |-> [a \in DOMAIN accs |-> accounts[a]],
                          seen |-> [r \in DOMAIN regs |-> registrations[r]]]
    OBVIOUS
  <1>2. /\ txn' = [u \in DOMAIN txn \cup {t} |-> IF u = t THEN job ELSE txn[u]]
        /\ t \notin DOMAIN txn
        /\ UNCHANGED <<accounts, registrations, stores, lost, demoted>>
    BY <1>1 DEF BeginJob
  <1>3. /\ job.do = do /\ job.accounts = accs /\ job.registrations = regs
        /\ DOMAIN job.read = DOMAIN accs /\ DOMAIN job.seen = DOMAIN regs
        /\ \A a \in DOMAIN accs : job.read[a] = accounts[a]
        /\ \A r \in DOMAIN regs : job.seen[r] = registrations[r]
    BY <1>1
  <1>4. TypedJob(job)
    BY <1>3 DEF TypedJob
  <1>5. Shaped(job)
    BY <1>3 DEF Shaped
  <1>6. WillOwn(job, accounts, lost \cup demoted)
    BY <1>3 DEF WillOwn
  <1>7. ASSUME NEW u \in DOMAIN txn'
        PROVE  /\ TypedJob(txn'[u]) /\ Shaped(txn'[u])
               /\ WillOwn(txn'[u], accounts, lost \cup demoted)
    <2>1. u = t => txn'[u] = job
      BY <1>2, <1>7
    <2>2. u # t => u \in DOMAIN txn /\ txn'[u] = txn[u]
      BY <1>2, <1>7
    <2>3. QED
      BY <1>4, <1>5, <1>6, <2>1, <2>2, JobTypes DEF OnboardingInv
  <1>8. OnboardingTypeOK'
    <2>1. DOMAIN txn' \subseteq Transactions
      BY <1>2, JobTypes DEF OnboardingInv
    <2>2. TypedRows'
      BY <1>2, JobTypes DEF OnboardingInv, TypedRows
    <2>3. QED
      BY <1>7, <2>1, <2>2 DEF OnboardingTypeOK, TypedRows, TypedJob
  <1>9. OneStoreEach' /\ StoresHaveOwners'
    BY <1>2 DEF OnboardingInv, OneStoreEach, StoresHaveOwners
  <1>10. QED
    BY <1>2, <1>7, <1>8, <1>9 DEF OnboardingInv

LEMMA JobRequested ==
  ASSUME OnboardingInv, NEW t \in Transactions, RequestJob(t)
  PROVE  OnboardingInv'
  <1>1. TypedRows
    BY JobTypes DEF OnboardingInv
  <1>2. ASSUME NEW do \in Services, do \notin {"admin", "approve"}, NEW a \in Accounts,
               NEW row \in Account, row.permission = accounts[a].permission,
               BeginJob(t, do, One(a, row), Nothing)
        PROVE  OnboardingInv'
    <2>1. PICK accs : accs = One(a, row) /\ DOMAIN accs = {a} /\ accs[a] = row
      BY WrittenRows
    <2>2. PICK regs : regs = Nothing /\ DOMAIN regs = {}
      BY WrittenRows
    <2>3. BeginJob(t, do, accs, regs)
      BY <1>2, <2>1, <2>2
    <2>4. QED
      BY <1>2, <2>1, <2>2, <2>3, JobBegins
  <1>3. ASSUME NEW do \in Services, do \notin {"admin", "approve"}, NEW r \in Registrations,
               NEW status \in Statuses, status # "APPROVE", registrations[r] # "APPROVE",
               BeginJob(t, do, Nothing, One(r, status))
        PROVE  OnboardingInv'
    <2>1. PICK regs : regs = One(r, status) /\ DOMAIN regs = {r} /\ regs[r] = status
      BY WrittenRows
    <2>2. PICK accs : accs = Nothing /\ DOMAIN accs = {}
      BY WrittenRows
    <2>3. BeginJob(t, do, accs, regs)
      BY <1>3, <2>1, <2>2
    <2>4. QED
      BY <1>3, <2>1, <2>2, <2>3, JobBegins
  <1>4. ASSUME NEW a \in Accounts, SignIn(t, a) \/ ChangePassword(t, a) PROVE OnboardingInv'
    <2>1. accounts[a] \in Account
      BY <1>1 DEF TypedRows
    <2>2. QED
      BY <1>2, <1>4, <2>1 DEF SignIn, ChangePassword, Services
  <1>5. ASSUME NEW a \in Accounts, ActivateAccount(t, a) PROVE OnboardingInv'
    <2>1. PICK row : row = [accounts[a] EXCEPT !.state = "ACTIVE"]
      OBVIOUS
    <2>2. row \in Account /\ row.permission = accounts[a].permission
      BY <1>1, <2>1 DEF TypedRows, Account, States
    <2>3. BeginJob(t, "activate", One(a, row), Nothing)
      BY <1>5, <2>1 DEF ActivateAccount
    <2>4. QED
      BY <1>2, <2>2, <2>3 DEF Services
  <1>6. ASSUME NEW a \in Accounts, UpdateByAdmin(t, a) PROVE OnboardingInv'
    <2>1. PICK row \in Account : BeginJob(t, "admin", One(a, row), Nothing)
      BY <1>6 DEF UpdateByAdmin
    <2>2. PICK accs : accs = One(a, row) /\ DOMAIN accs = {a} /\ accs[a] = row
      BY WrittenRows
    <2>3. PICK regs : regs = Nothing /\ DOMAIN regs = {}
      BY WrittenRows
    <2>4. BeginJob(t, "admin", accs, regs) /\ "admin" \in Services
      BY <2>1, <2>2, <2>3 DEF Services
    <2>5. QED
      BY <2>2, <2>3, <2>4, JobBegins
  <1>7. ASSUME NEW r \in Registrations, Apply(t, r) \/ Reapply(t, r) \/ Reject(t, r)
        PROVE  OnboardingInv'
    <2>1. CASE Apply(t, r)
      BY <1>3, <2>1 DEF Apply, Services, Statuses
    <2>2. CASE Reapply(t, r)
      BY <1>3, <2>2 DEF Reapply, Services, Statuses
    <2>3. CASE Reject(t, r)
      BY <1>3, <2>3 DEF Reject, IsApplied, Services, Statuses
    <2>4. QED
      BY <1>7, <2>1, <2>2, <2>3
  <1>8. ASSUME NEW r \in Registrations, Approve(t, r) PROVE OnboardingInv'
    <2>1. PICK a \in Accounts : a = Applicant[r]
      BY OnboardingAssumption
    <2>2. PICK regs : regs = One(r, "APPROVE") /\ DOMAIN regs = {r} /\ regs[r] = "APPROVE"
      BY WrittenRows
    <2>3. PICK accs : accs = Authorized(a)
      OBVIOUS
    <2>4. BeginJob(t, "approve", accs, regs) /\ registrations[r] # "APPROVE"
      BY <1>8, <2>1, <2>2, <2>3 DEF Approve, IsApplied
    <2>5. "approve" \in Services /\ "APPROVE" \in Statuses
      BY DEF Services, Statuses
    <2>6. CASE accounts[a].permission = "USER"
      <3>1. PICK row : row = [accounts[a] EXCEPT !.permission = "OWNER"]
        OBVIOUS
      <3>2. row \in Account /\ row.permission = "OWNER"
        BY <1>1, <3>1 DEF TypedRows, Account, Permissions
      <3>3. DOMAIN accs = {a} /\ accs[a] = row
        BY <2>3, <2>6, <3>1, WrittenRows DEF Authorized
      <3>4. QED
        BY <2>1, <2>2, <2>4, <2>5, <3>2, <3>3, JobBegins
    <2>7. CASE accounts[a].permission # "USER"
      <3>1. DOMAIN accs = {}
        BY <2>3, <2>7, WrittenRows DEF Authorized
      <3>2. QED
        BY <2>1, <2>2, <2>4, <2>5, <2>7, <3>1, JobBegins
    <2>8. QED
      BY <2>6, <2>7
  <1>9. QED
    BY <1>4, <1>5, <1>6, <1>7, <1>8 DEF RequestJob

-----------------------------------------------------------------------------
(* Commits of Onboarding.                                                   *)

LEMMA JobCommits ==
  ASSUME OnboardingInv, NEW t \in Transactions, Commit(t)
  PROVE  OnboardingInv'
  <1>1. t \in DOMAIN txn /\ TypedRows /\ \A u \in DOMAIN txn : TypedJob(txn[u])
    BY JobTypes DEF OnboardingInv, Commit
  <1>2. PICK job : job = txn[t]
    OBVIOUS
  <1>3. TypedJob(job) /\ Shaped(job) /\ WillOwn(job, accounts, lost \cup demoted)
    BY <1>1, <1>2 DEF OnboardingInv
  <1>4. /\ \A a \in Accounts :
             accounts'[a] = IF a \in DOMAIN job.accounts THEN job.accounts[a] ELSE accounts[a]
        /\ accounts' \in [Accounts -> Account]
    BY <1>1, <1>2, <1>3 DEF Commit, Over, TypedRows, TypedJob
  <1>5. /\ \A r \in Registrations :
             registrations'[r] =
               IF r \in DOMAIN job.registrations THEN job.registrations[r] ELSE registrations[r]
        /\ registrations' \in [Registrations -> Statuses]
    BY <1>1, <1>2, <1>3 DEF Commit, Over, TypedRows, TypedJob
  <1>6. /\ \A r \in Registrations :
             stores'[r] = IF job.do = "approve" /\ r \in DOMAIN job.registrations
                            THEN stores[r] + 1 ELSE stores[r]
        /\ stores' \in [Registrations -> Nat]
    BY <1>1, <1>2 DEF Commit, TypedRows
  <1>7. /\ lost' = lost \cup Unseen(job)
        /\ demoted \subseteq demoted' /\ demoted' \subseteq Accounts
        /\ job.do = "admin" =>
             \A a \in DOMAIN job.accounts : job.accounts[a].permission = "USER" => a \in demoted'
    BY <1>1, <1>2, <1>3 DEF Commit, TypedRows, TypedJob
  <1>8. Unseen(job) \subseteq Accounts \cup Registrations
    BY <1>3 DEF Unseen, TypedJob
  <1>9. /\ DOMAIN txn' = DOMAIN txn \ {t}
        /\ \A u \in DOMAIN txn \ {t} : txn'[u] = txn[u]
    BY DEF Commit, EndJob
  <1>10. OnboardingTypeOK'
    <2>1. TypedRows'
      BY <1>1, <1>4, <1>5, <1>6, <1>7, <1>8 DEF TypedRows
    <2>2. DOMAIN txn' \subseteq Transactions
      BY <1>9, JobTypes DEF OnboardingInv
    <2>3. \A u \in DOMAIN txn' : TypedJob(txn'[u])
      BY <1>1, <1>9
    <2>4. QED
      BY <2>1, <2>2, <2>3 DEF OnboardingTypeOK, TypedRows, TypedJob
  <1>11. ASSUME NEW a \in Accounts, a \notin lost' \cup demoted', accounts[a].permission # "USER"
         PROVE  accounts'[a].permission # "USER"
    <2>1. CASE a \in DOMAIN job.accounts
      <3>1. accounts[a] = job.read[a]
        BY <1>7, <1>11, <2>1 DEF Unseen
      <3>2. CASE job.do = "admin"
        BY <1>4, <1>7, <1>11, <2>1, <3>2
      <3>3. CASE job.do # "admin"
        BY <1>3, <1>4, <1>11, <2>1, <3>1, <3>3 DEF Shaped
      <3>4. QED
        BY <3>2, <3>3
    <2>2. CASE a \notin DOMAIN job.accounts
      BY <1>4, <1>11, <2>2
    <2>3. QED
      BY <2>1, <2>2
  <1>12. ASSUME NEW r \in Registrations, r \notin lost'
         PROVE  stores'[r] = IF registrations'[r] = "APPROVE" THEN 1 ELSE 0
    <2>1. stores[r] = IF registrations[r] = "APPROVE" THEN 1 ELSE 0
      BY <1>7, <1>12 DEF OnboardingInv, OneStoreEach
    <2>2. CASE r \in DOMAIN job.registrations
      <3>1. registrations[r] # "APPROVE"
        BY <1>3, <1>7, <1>12, <2>2 DEF Unseen, Shaped
      <3>2. registrations'[r] = "APPROVE" <=> job.do = "approve"
        BY <1>3, <1>5, <2>2 DEF Shaped
      <3>3. QED
        BY <1>6, <2>1, <2>2, <3>1, <3>2
    <2>3. CASE r \notin DOMAIN job.registrations
      BY <1>5, <1>6, <2>1, <2>3
    <2>4. QED
      BY <2>2, <2>3
  <1>13. OneStoreEach'
    BY <1>12 DEF OneStoreEach
  <1>14. ASSUME NEW r \in Registrations, stores'[r] > 0, Applicant[r] \notin lost' \cup demoted'
         PROVE  accounts'[Applicant[r]].permission # "USER"
    <2>1. PICK a \in Accounts : a = Applicant[r]
      BY OnboardingAssumption
    <2>2. a \notin lost \cup demoted
      BY <1>7, <1>14, <2>1
    <2>3. CASE job.do = "approve" /\ r \in DOMAIN job.registrations
      <3>1. IF a \in DOMAIN job.accounts THEN job.accounts[a].permission # "USER"
            ELSE accounts[a].permission # "USER"
        BY <1>3, <2>1, <2>2, <2>3 DEF WillOwn
      <3>2. QED
        BY <1>4, <2>1, <3>1
    <2>4. CASE ~(job.do = "approve" /\ r \in DOMAIN job.registrations)
      <3>1. accounts[a].permission # "USER"
        BY <1>6, <1>14, <2>1, <2>2, <2>4 DEF OnboardingInv, StoresHaveOwners
      <3>2. QED
        BY <1>11, <1>14, <2>1, <3>1
    <2>5. QED
      BY <2>3, <2>4
  <1>15. StoresHaveOwners'
    BY <1>14 DEF StoresHaveOwners
  <1>16. ASSUME NEW u \in DOMAIN txn'
         PROVE  Shaped(txn'[u]) /\ WillOwn(txn'[u], accounts', lost' \cup demoted')
    <2>1. PICK other : other = txn[u] /\ txn'[u] = other
      BY <1>9
    <2>2. TypedJob(other) /\ Shaped(other) /\ WillOwn(other, accounts, lost \cup demoted)
      BY <1>1, <1>9, <2>1 DEF OnboardingInv
    <2>3. WillOwn(other, accounts', lost' \cup demoted')
      <3>1. ASSUME other.do = "approve", NEW r \in DOMAIN other.registrations,
                   Applicant[r] \notin DOMAIN other.accounts,
                   Applicant[r] \notin lost' \cup demoted'
            PROVE  accounts'[Applicant[r]].permission # "USER"
        <4>1. Applicant[r] \in Accounts
          BY <2>2, <3>1, OnboardingAssumption DEF TypedJob
        <4>2. Applicant[r] \notin lost \cup demoted
          BY <1>7, <3>1
        <4>3. accounts[Applicant[r]].permission # "USER"
          BY <2>2, <3>1, <4>2 DEF WillOwn
        <4>4. QED
          BY <1>11, <3>1, <4>1, <4>3
      <3>2. QED
        BY <2>2, <3>1 DEF WillOwn
    <2>4. QED
      BY <2>1, <2>2, <2>3
  <1>17. QED
    BY <1>10, <1>13, <1>15, <1>16 DEF OnboardingInv

-----------------------------------------------------------------------------
(* The theorems about Onboarding.                                           *)

\* The invariant holds in every state.
THEOREM OnboardingInvariant == OnboardingSpec => []OnboardingInv
  <1>1. OnboardingInit => OnboardingInv
    <2>1. SUFFICES ASSUME OnboardingInit PROVE OnboardingInv
      OBVIOUS
    <2>2. DOMAIN txn = {}
      BY <2>1, WrittenRows DEF OnboardingInit
    <2>3. accounts \in [Accounts -> Account]
      BY <2>1 DEF OnboardingInit, Account, States, Permissions
    <2>4. OnboardingTypeOK
      BY <2>1, <2>2, <2>3 DEF OnboardingInit, OnboardingTypeOK, Statuses
    <2>5. OneStoreEach /\ StoresHaveOwners
      BY <2>1 DEF OnboardingInit, OneStoreEach, StoresHaveOwners
    <2>6. QED
      BY <2>2, <2>4, <2>5 DEF OnboardingInv
  <1>2. OnboardingInv /\ [OnboardingNext]_onboardingVars => OnboardingInv'
    <2>1. SUFFICES ASSUME OnboardingInv, [OnboardingNext]_onboardingVars PROVE OnboardingInv'
      OBVIOUS
    <2>2. ASSUME NEW t \in Transactions, RequestJob(t) PROVE OnboardingInv'
      BY <2>1, <2>2, JobRequested
    <2>3. ASSUME NEW t \in Transactions, Commit(t) PROVE OnboardingInv'
      BY <2>1, <2>3, JobCommits
    <2>4. ASSUME NEW t \in Transactions, RollBack(t) PROVE OnboardingInv'
      BY <2>1, <2>4
         DEF RollBack, EndJob, OnboardingInv, OnboardingTypeOK, OneStoreEach, StoresHaveOwners
    <2>5. CASE UNCHANGED onboardingVars
      BY <2>1, <2>5
         DEF onboardingVars, OnboardingInv, OnboardingTypeOK, OneStoreEach, StoresHaveOwners
    <2>6. QED
      BY <2>1, <2>2, <2>3, <2>4, <2>5 DEF OnboardingNext
  <1>3. QED
    BY <1>1, <1>2, PTL DEF OnboardingSpec

\* Whatever transactions interleave, rows keep their types.
THEOREM OnboardingTypeCorrect == OnboardingSpec => []OnboardingTypeOK
  BY OnboardingInvariant, PTL DEF OnboardingInv

\* An approval makes one store, and only an approval does, unless a decision
\* was written over unseen.
THEOREM OneStore == OnboardingSpec => []OneStoreEach
  BY OnboardingInvariant, PTL DEF OnboardingInv

\* Whoever has a store is an owner, unless demoted or written over unseen.
THEOREM OwnersOfStores == OnboardingSpec => []StoresHaveOwners
  BY OnboardingInvariant, PTL DEF OnboardingInv

=============================================================================
