------------------------- MODULE WaitingLineProofs -------------------------
(***************************************************************************)
(* Proofs about WaitingLine, for any threads, stores, phone numbers and     *)
(* bounds.  What makes them inductive is what the lock of a line keeps      *)
(* true of a transaction between its reads and its commit: nobody else is   *)
(* about to write to its line, so the waiting it read is still in line, and *)
(* a phone number it did not find is still not there.                       *)
(***************************************************************************)
EXTENDS WaitingLine, FiniteSetTheorems, TLAPS

\* Transactions under way work on different lines and different waitings.
Apart ==
    \A q, r \in Running : q # r =>
        /\ txn[q].row.store # txn[r].row.store
        /\ txn[q].waiting # txn[r].waiting

\* What thread r read still holds: the waiting is in line, of that store and
\* phone number; or, for a registration, no such waiting is in line.
StillTrue(r) ==
    LET w == txn[r].waiting
        row == txn[r].row
    IN  IF w \in DOMAIN waitings
          THEN /\ InLine(w)
               /\ waitings[w].store = row.store /\ waitings[w].phone = row.phone
          ELSE \A v \in DOMAIN waitings :
                 ~(InLine(v) /\ waitings[v].store = row.store
                             /\ waitings[v].phone = row.phone)

IInv ==
    /\ TypeOK
    /\ txn = [r \in Threads |-> txn[r]]
    /\ Apart
    /\ \A r \in Running : StillTrue(r)
    /\ OnePlacePerStore

-----------------------------------------------------------------------------

\* The queries count finitely many rows.
LEMMA Counts ==
  ASSUME TypeOK, NEW s \in Stores
  PROVE  LastNumber(s) \in Nat /\ TeamCount(s) \in Nat
  <1>0. clock \in Int
    BY WaitingAssumption DEF TypeOK
  <1>1. IsFiniteSet(1 .. clock)
    BY <1>0, FS_Interval
  <1>2. /\ OfToday(s) \subseteq 1 .. clock
        /\ {w \in OfToday(s) : InLine(w)} \subseteq 1 .. clock
    BY DEF TypeOK, OfToday
  <1>3. IsFiniteSet(OfToday(s)) /\ IsFiniteSet({w \in OfToday(s) : InLine(w)})
    BY <1>1, <1>2, FS_Subset
  <1> QED
    BY <1>3, FS_CardinalityType DEF LastNumber, TeamCount

\* At first nobody is in line and nobody is at work.
LEMMA InitIInv == Init => IInv
  <1> SUFFICES ASSUME Init PROVE IInv
    OBVIOUS
  <1>1. Running = {} /\ DOMAIN waitings = {}
    BY DEF Init, Running
  <1>2. TypeOK
    BY <1>1, WaitingAssumption DEF Init, TypeOK
  <1> QED
    BY <1>1, <1>2 DEF Init, IInv, Apart, OnePlacePerStore

\* A thread that begins with a waiting in line, keeping its store and phone.
LEMMA BeginKnown ==
  ASSUME IInv, NEW r \in Threads, NEW w \in DOMAIN waitings, InLine(w), NEW row \in Waiting,
         row.store = waitings[w].store, row.phone = waitings[w].phone,
         Begin(r, w, row), UNCHANGED clock
  PROVE  IInv'
  <1>1. /\ txn' = [txn EXCEPT ![r] = [waiting |-> w, row |-> row]]
        /\ waitings' = waitings /\ openedAt' = openedAt /\ clock' = clock
        /\ r \notin Running
        /\ \A q \in Running : txn[q].row.store # row.store
    BY DEF Begin, LineIsFree, Running
  <1>2. /\ Running' \subseteq Running \cup {r}
        /\ \A q \in Running' : q # r => q \in Running /\ txn'[q] = txn[q]
        /\ txn'[r] = [waiting |-> w, row |-> row]
    BY <1>1 DEF IInv, Running
  <1>3. TypeOK'
    BY <1>1, <1>2 DEF IInv, TypeOK
  <1>4. txn' = [q \in Threads |-> txn'[q]]
    BY <1>1 DEF IInv
  <1>5. \A q \in Running : txn[q].waiting # w
    BY <1>1 DEF IInv, StillTrue
  <1>6. Apart'
    <2> SUFFICES ASSUME NEW p \in Running', NEW q \in Running', p # q
                 PROVE  /\ txn'[p].row.store # txn'[q].row.store
                        /\ txn'[p].waiting # txn'[q].waiting
      BY DEF Apart
    <2>1. CASE p = r
      BY <2>1, <1>1, <1>2, <1>5
    <2>2. CASE q = r
      BY <2>2, <1>1, <1>2, <1>5
    <2>3. CASE p # r /\ q # r
      BY <2>3, <1>2 DEF IInv, Apart
    <2> QED
      BY <2>1, <2>2, <2>3
  <1>7. ASSUME NEW q \in Running' PROVE StillTrue(q)'
    <2>1. CASE q = r
      BY <1>1, <1>2, <2>1 DEF StillTrue, InLine
    <2>2. CASE q # r
      <3>1. StillTrue(q) /\ txn'[q] = txn[q]
        BY <1>2, <2>2 DEF IInv
      <3> QED
        BY <1>1, <3>1 DEF StillTrue, InLine
    <2> QED
      BY <2>1, <2>2
  <1>8. OnePlacePerStore'
    BY <1>1 DEF IInv, OnePlacePerStore, InLine
  <1> QED
    BY <1>3, <1>4, <1>6, <1>7, <1>8 DEF IInv

\* A registration found no such phone number in line, and no other thread is
\* about to write to its line.
LEMMA RegisterIInv ==
  ASSUME IInv, NEW r \in Threads, NEW s \in Stores, NEW phone \in Phones,
         Register(r, s, phone)
  PROVE  IInv'
  <1> DEFINE n == clock + 1
             row == [store |-> s, phone |-> phone, number |-> LastNumber(s) + 1,
                     ahead |-> TeamCount(s), calls |-> 0,
                     state |-> "REGISTRATION", day |-> openedAt[s]]
  <1>1. /\ clock' = n /\ clock < MaxClock
        /\ txn' = [txn EXCEPT ![r] = [waiting |-> n, row |-> row]]
        /\ waitings' = waitings /\ openedAt' = openedAt
        /\ r \notin Running /\ ~IsWaiting(phone)
        /\ \A q \in Running : txn[q].row.store # s
    BY DEF Register, Begin, LineIsFree, Running
  <1>2. row \in Waiting
    <2>1. LastNumber(s) + 1 \in Nat /\ TeamCount(s) \in Nat /\ openedAt[s] \in Nat
          /\ 0 \in 0 .. MaxCalls
      BY Counts, WaitingAssumption DEF IInv, TypeOK
    <2> QED
      BY <2>1 DEF Waiting, States
  <1>3. n \in Nat /\ n \in 1 .. n /\ n \in 0 .. MaxClock /\ n \notin 1 .. clock
        /\ 1 .. clock \subseteq 1 .. n /\ clock \in Nat
    BY <1>1, WaitingAssumption DEF IInv, TypeOK
  <1> HIDE DEF n
  <1>3a. row.store = s /\ row.phone = phone
    OBVIOUS
  <1> HIDE DEF row
  <1>4. /\ \A q \in Running' : q # r => q \in Running /\ txn'[q] = txn[q]
        /\ txn'[r] = [waiting |-> n, row |-> row]
    BY <1>1 DEF IInv, Running
  <1>5. TypeOK'
    BY <1>1, <1>2, <1>3, <1>4 DEF IInv, TypeOK
  <1>6. txn' = [q \in Threads |-> txn'[q]]
    BY <1>1 DEF IInv
  <1>7. n \notin DOMAIN waitings /\ \A q \in Running : txn[q].waiting # n
    BY <1>3 DEF IInv, TypeOK
  <1>8. Apart'
    <2> SUFFICES ASSUME NEW p \in Running', NEW q \in Running', p # q
                 PROVE  /\ txn'[p].row.store # txn'[q].row.store
                        /\ txn'[p].waiting # txn'[q].waiting
      BY DEF Apart
    <2>1. CASE p = r
      BY <2>1, <1>1, <1>4, <1>7, <1>3a
    <2>2. CASE q = r
      BY <2>2, <1>1, <1>4, <1>7, <1>3a
    <2>3. CASE p # r /\ q # r
      BY <2>3, <1>4 DEF IInv, Apart
    <2> QED
      BY <2>1, <2>2, <2>3
  <1>9. \A q \in Running' : StillTrue(q)'
    BY <1>1, <1>4, <1>7, <1>3a DEF IInv, StillTrue, InLine, IsWaiting
  <1>10. OnePlacePerStore'
    BY <1>1 DEF IInv, OnePlacePerStore, InLine
  <1> QED
    BY <1>5, <1>6, <1>8, <1>9, <1>10 DEF IInv

\* What a commit makes of the rows.
LEMMA CommitEffect ==
  ASSUME IInv, NEW r \in Threads, Commit(r)
  PROVE  /\ r \in Running
         /\ DOMAIN waitings' = DOMAIN waitings \cup {txn[r].waiting}
         /\ waitings'[txn[r].waiting] = txn[r].row
         /\ \A v \in DOMAIN waitings : v # txn[r].waiting => waitings'[v] = waitings[v]
         /\ \A q \in Running' : q # r /\ q \in Running /\ txn'[q] = txn[q]
         /\ openedAt' = openedAt /\ clock' = clock
         /\ txn' = [q \in Threads |-> txn'[q]]
  BY DEF Commit, IInv, Running

\* What the commit of a thread writes was still true when it wrote it.
LEMMA CommitIInv ==
  ASSUME IInv, NEW r \in Threads, Commit(r)
  PROVE  IInv'
  <1> DEFINE w == txn[r].waiting
             row == txn[r].row
  <1>1. /\ r \in Running
        /\ DOMAIN waitings' = DOMAIN waitings \cup {w}
        /\ waitings'[w] = row
        /\ \A v \in DOMAIN waitings : v # w => waitings'[v] = waitings[v]
        /\ \A q \in Running' : q # r /\ q \in Running /\ txn'[q] = txn[q]
        /\ openedAt' = openedAt /\ clock' = clock
        /\ txn' = [q \in Threads |-> txn'[q]]
    BY CommitEffect
  <1>2. w \in 1 .. clock /\ row \in Waiting
    BY <1>1 DEF IInv, TypeOK
  <1>3. StillTrue(r)
    BY <1>1 DEF IInv
  <1>4. TypeOK'
    <2>1. waitings' \in [DOMAIN waitings' -> Waiting]
      BY <1>2 DEF Commit, IInv, TypeOK
    <2> QED
      BY <1>1, <1>2, <2>1 DEF IInv, TypeOK
  <1>5. Apart'
    BY <1>1 DEF IInv, Apart
  <1>6. ASSUME NEW q \in Running' PROVE StillTrue(q)'
    <2>1. q # r /\ q \in Running /\ txn'[q] = txn[q]
      BY <1>1
    <2>2. StillTrue(q) /\ txn[q].waiting # w /\ txn[q].row.store # row.store
      BY <1>1, <2>1 DEF IInv, Apart
    <2> QED
      BY <1>1, <2>1, <2>2 DEF StillTrue, InLine
  <1>7. OnePlacePerStore'
    BY <1>1, <1>3 DEF IInv, OnePlacePerStore, StillTrue, InLine
  <1> QED
    BY <1>1, <1>4, <1>5, <1>6, <1>7 DEF IInv

\* Every step keeps what the lock of a line keeps true.
LEMMA NextIInv == IInv /\ [Next]_vars => IInv'
  <1> SUFFICES ASSUME IInv, [Next]_vars PROVE IInv'
    OBVIOUS
  <1>1. ASSUME NEW r \in Threads, NEW s \in Stores, NEW phone \in Phones,
               Register(r, s, phone)
        PROVE  IInv'
    BY <1>1, RegisterIInv
  <1>2. ASSUME NEW r \in Threads, NEW w \in DOMAIN waitings, CallGuest(r, w)
        PROVE  IInv'
    <2>1. waitings[w] \in Waiting /\ waitings[w].calls + 1 \in 0 .. MaxCalls
      BY <1>2, WaitingAssumption DEF CallGuest, IInv, TypeOK, Waiting
    <2>2. [waitings[w] EXCEPT !.calls = @ + 1] \in Waiting
      BY <2>1 DEF Waiting
    <2> QED
      BY <1>2, <2>1, <2>2, BeginKnown DEF CallGuest, Waiting
  <1>3. ASSUME NEW r \in Threads, NEW w \in DOMAIN waitings,
               NEW state \in {"COMPLETE", "CANCEL"}, InLine(w),
               Begin(r, w, [waitings[w] EXCEPT !.state = state]), UNCHANGED clock
        PROVE  IInv'
    <2>1. waitings[w] \in Waiting
      BY DEF IInv, TypeOK
    <2>2. /\ [waitings[w] EXCEPT !.state = state] \in Waiting
          /\ [waitings[w] EXCEPT !.state = state].store = waitings[w].store
          /\ [waitings[w] EXCEPT !.state = state].phone = waitings[w].phone
      BY <2>1 DEF Waiting, States
    <2> QED
      BY <1>3, <2>2, BeginKnown
  <1>4. ASSUME NEW r \in Threads, NEW w \in DOMAIN waitings, Complete(r, w) \/ Cancel(r, w)
        PROVE  IInv'
    BY <1>3, <1>4 DEF Complete, Cancel
  <1>5. ASSUME NEW r \in Threads, Commit(r) PROVE IInv'
    BY <1>5, CommitIInv
  <1>6. ASSUME NEW r \in Threads, Rollback(r) PROVE IInv'
    <2>1. /\ \A q \in Running' : q \in Running /\ txn'[q] = txn[q]
          /\ txn' = [q \in Threads |-> txn'[q]]
          /\ openedAt' = openedAt /\ waitings' = waitings /\ clock' = clock
      BY <1>6 DEF Rollback, IInv, Running
    <2>2. TypeOK' /\ OnePlacePerStore'
      BY <2>1 DEF IInv, TypeOK, OnePlacePerStore, InLine
    <2>3. Apart'
      BY <2>1 DEF IInv, Apart
    <2>4. \A q \in Running' : StillTrue(q)'
      BY <2>1 DEF IInv, StillTrue, InLine
    <2> QED
      BY <2>1, <2>2, <2>3, <2>4 DEF IInv
  <1>7. ASSUME NEW s \in Stores, Open(s) PROVE IInv'
    <2>1. /\ waitings' = waitings /\ txn' = txn /\ Running' = Running
          /\ clock' \in clock .. MaxClock
          /\ openedAt' \in [Stores -> 0 .. MaxClock]
      BY <1>7, WaitingAssumption DEF Open, IInv, TypeOK, Running
    <2>2. TypeOK'
      BY <2>1, WaitingAssumption DEF IInv, TypeOK
    <2> QED
      BY <2>1, <2>2 DEF IInv, Apart, StillTrue, OnePlacePerStore, InLine
  <1>8. CASE UNCHANGED vars
    BY <1>8 DEF vars, IInv, TypeOK, Apart, StillTrue, OnePlacePerStore, InLine, Running
  <1> QED
    BY <1>1, <1>2, <1>4, <1>5, <1>6, <1>7, <1>8 DEF Next

\* The lock of a line keeps what a transaction read true until it commits.
THEOREM SpecIInv == Spec => []IInv
  BY InitIInv, NextIInv, PTL DEF Spec

\* For any number of stores, guests and threads the rows of the waiting lines
\* are well typed, no guest is called more than MaxCalls times, and a
\* transaction writes to a waiting created in the past.
THEOREM TypeCorrect == Spec => []TypeOK
  <1>1. IInv => TypeOK
    BY DEF IInv
  <1> QED
    BY <1>1, SpecIInv, PTL

\* However requests interleave, a phone number is in the line of one store at
\* most once: the lock of the line covers the check and the commit.
THEOREM OnePlace == Spec => []OnePlacePerStore
  <1>1. IInv => OnePlacePerStore
    BY DEF IInv
  <1> QED
    BY <1>1, SpecIInv, PTL

\* However requests interleave, a waiting that was seated or canceled is
\* never written again.
THEOREM FinishedStays == Spec => FinishedIsFinal
  <1>1. IInv /\ [Next]_vars =>
          [\A w \in DOMAIN waitings : ~InLine(w) => waitings'[w] = waitings[w]]_vars
    <2> SUFFICES ASSUME IInv, Next, NEW w \in DOMAIN waitings, ~InLine(w)
                 PROVE  waitings'[w] = waitings[w]
      OBVIOUS
    <2>1. ASSUME NEW r \in Threads, Commit(r) PROVE waitings'[w] = waitings[w]
      <3>1. /\ r \in Running
            /\ \A v \in DOMAIN waitings : v # txn[r].waiting => waitings'[v] = waitings[v]
        BY <2>1, CommitEffect
      <3>2. txn[r].waiting # w
        BY <3>1 DEF IInv, StillTrue
      <3> QED
        BY <3>1, <3>2
    <2> QED
      BY <2>1 DEF Next, Register, CallGuest, Complete, Cancel, Begin, Rollback, Open
  <1> QED
    BY <1>1, SpecIInv, PTL DEF Spec, FinishedIsFinal

-----------------------------------------------------------------------------
(* Numbers and turns.  Between its reads and its commit a registration      *)
(* still counts right, unless the store opened for a new day, and every     *)
(* waiting of its store came before it.                                     *)

\* A row is numbered from an opening before it was created.
Dated(w, row) == row.day < w /\ row.day <= openedAt[row.store]

\* What thread r is to write agrees with the rows of its store.
StillCounts(r) ==
    LET w == txn[r].waiting
        row == txn[r].row
    IN  IF w \in DOMAIN waitings
          THEN row.number = waitings[w].number /\ row.day = waitings[w].day
          ELSE /\ Dated(w, row)
               /\ row.state = "REGISTRATION"
               /\ row.day = openedAt[row.store] =>
                    row.number = LastNumber(row.store) + 1 /\ row.ahead = TeamCount(row.store)
               /\ \A v \in DOMAIN waitings : waitings[v].store = row.store =>
                    /\ v < w
                    /\ waitings[v].day = row.day => waitings[v].number < row.number

\* The numbers of today do not exceed the count the next one is made from.
Counted ==
    \A w \in DOMAIN waitings :
        /\ Dated(w, waitings[w])
        /\ waitings[w].day = openedAt[waitings[w].store] =>
             waitings[w].number <= LastNumber(waitings[w].store)

NInv ==
    /\ IInv
    /\ openedAt \in [Stores -> 0 .. clock]
    /\ Counted
    /\ NumbersInOrder
    /\ \A r \in Running : StillCounts(r)

\* The counts depend on the rows of the store and its opening only.
LEMMA SameCounts ==
  ASSUME waitings' = waitings, NEW s \in Stores, openedAt'[s] = openedAt[s]
  PROVE  LastNumber(s)' = LastNumber(s) /\ TeamCount(s)' = TeamCount(s)
  BY DEF LastNumber, TeamCount, OfToday, InLine

\* The row a running thread writes is well typed.
LEMMA RowType ==
  ASSUME IInv
  PROVE  /\ \A r \in Running : txn[r].row \in Waiting /\ txn[r].row.store \in Stores
         /\ \A w \in DOMAIN waitings : waitings[w] \in Waiting /\ waitings[w].store \in Stores
  BY DEF IInv, TypeOK, Waiting

\* At first no number was given.
LEMMA InitNInv == Init => NInv
  <1> SUFFICES ASSUME Init PROVE NInv
    OBVIOUS
  <1>1. Running = {} /\ DOMAIN waitings = {}
    BY DEF Init, Running
  <1> QED
    BY <1>1, InitIInv DEF Init, NInv, Counted, NumbersInOrder

\* Steps that only change what thread r is to write.
LEMMA BeginNInv ==
  ASSUME NInv, IInv', NEW r \in Threads, NEW w, NEW row, Begin(r, w, row),
         clock' \in Nat, clock <= clock',
         r \in Running' => StillCounts(r)'
  PROVE  NInv'
  <1>1. /\ waitings' = waitings /\ openedAt' = openedAt
        /\ \A q \in Running' : q # r => q \in Running /\ txn'[q] = txn[q]
    BY DEF Begin, NInv, IInv, Running
  <1>2. \A s \in Stores : LastNumber(s)' = LastNumber(s) /\ TeamCount(s)' = TeamCount(s)
    BY <1>1, SameCounts
  <1>3. openedAt' \in [Stores -> 0 .. clock']
    BY <1>1, WaitingAssumption DEF NInv, IInv, TypeOK
  <1>4. Counted' /\ NumbersInOrder'
    BY <1>1, <1>2, RowType DEF NInv, Counted, NumbersInOrder, Dated
  <1>5. ASSUME NEW q \in Running', q # r PROVE StillCounts(q)'
    <2>1. q \in Running /\ txn'[q] = txn[q] /\ StillCounts(q) /\ txn[q].row.store \in Stores
      BY <1>1, <1>5, RowType DEF NInv
    <2> QED
      BY <1>1, <1>2, <2>1 DEF StillCounts, Dated
  <1> QED
    BY <1>3, <1>4, <1>5 DEF NInv

\* A registration numbers its waiting by a count nobody else changes until it
\* commits.
LEMMA RegisterNInv ==
  ASSUME NInv, IInv', NEW r \in Threads, NEW s \in Stores, NEW phone \in Phones,
         Register(r, s, phone)
  PROVE  NInv'
  <1> DEFINE n == clock + 1
             row == [store |-> s, phone |-> phone, number |-> LastNumber(s) + 1,
                     ahead |-> TeamCount(s), calls |-> 0,
                     state |-> "REGISTRATION", day |-> openedAt[s]]
  <1>1. /\ clock' = n /\ Begin(r, n, row)
        /\ txn'[r] = [waiting |-> n, row |-> row]
        /\ waitings' = waitings /\ openedAt' = openedAt
    BY DEF Register, Begin, NInv, IInv
  <1>2. clock \in Nat /\ n \in Nat /\ openedAt[s] \in 0 .. clock
    BY WaitingAssumption DEF NInv, IInv, TypeOK
  <1>3. n \notin DOMAIN waitings /\ \A v \in DOMAIN waitings : v \in Nat /\ v < n
    BY <1>2 DEF NInv, IInv, TypeOK
  <1>4. LastNumber(s)' = LastNumber(s) /\ TeamCount(s)' = TeamCount(s)
    BY <1>1, SameCounts
  <1>5. LastNumber(s) \in Nat
    BY Counts DEF NInv, IInv
  <1>6. \A v \in DOMAIN waitings : waitings[v].store = s /\ waitings[v].day = openedAt[s] =>
           waitings[v].number < LastNumber(s) + 1
    <2> SUFFICES ASSUME NEW v \in DOMAIN waitings, waitings[v].store = s,
                        waitings[v].day = openedAt[s]
                 PROVE  waitings[v].number < LastNumber(s) + 1
      OBVIOUS
    <2>1. waitings[v].number \in Nat
      BY RowType DEF NInv, Waiting
    <2>2. waitings[v].number <= LastNumber(s)
      BY DEF NInv, Counted
    <2> QED
      BY <1>5, <2>1, <2>2
  <1>7. /\ row.store = s /\ row.day = openedAt[s] /\ row.number = LastNumber(s) + 1
        /\ row.ahead = TeamCount(s) /\ row.state = "REGISTRATION"
    OBVIOUS
  <1>8. openedAt[s] < n /\ openedAt[s] <= openedAt[s]
    BY <1>2
  <1> HIDE DEF row, n
  <1>9. StillCounts(r)'
    BY <1>1, <1>3, <1>4, <1>6, <1>7, <1>8 DEF StillCounts, Dated
  <1>10. clock <= clock'
    BY <1>1, <1>2 DEF n
  <1> QED
    BY <1>1, <1>2, <1>9, <1>10, BeginNInv

\* A step that begins with a known waiting and keeps its number.
LEMMA KnownNInv ==
  ASSUME NInv, IInv', NEW r \in Threads, NEW w \in DOMAIN waitings, NEW row,
         row.number = waitings[w].number, row.day = waitings[w].day,
         Begin(r, w, row), clock' = clock
  PROVE  NInv'
  <1>1. txn'[r] = [waiting |-> w, row |-> row] /\ waitings' = waitings
    BY DEF Begin, NInv, IInv
  <1>2. StillCounts(r)'
    BY <1>1 DEF StillCounts
  <1>3. clock \in Nat /\ clock <= clock'
    BY WaitingAssumption DEF NInv, IInv, TypeOK
  <1> QED
    BY <1>2, <1>3, BeginNInv

\* How many of today a commit makes of a store: one more at most, and of
\* another store as many as before.
LEMMA CommitCounts ==
  ASSUME NInv, NEW r \in Threads, Commit(r), NEW s \in Stores
  PROVE  /\ s # txn[r].row.store =>
              LastNumber(s)' = LastNumber(s) /\ TeamCount(s)' = TeamCount(s)
         /\ txn[r].waiting \in DOMAIN waitings => LastNumber(s)' = LastNumber(s)
         /\ LastNumber(s)' \in Nat /\ LastNumber(s) <= LastNumber(s)'
         /\ /\ s = txn[r].row.store
            /\ txn[r].waiting \notin DOMAIN waitings
            /\ txn[r].waiting > openedAt[s]
            => LastNumber(s)' = LastNumber(s) + 1
  <1> DEFINE w == txn[r].waiting
             row == txn[r].row
  <1>1. /\ r \in Running
        /\ DOMAIN waitings' = DOMAIN waitings \cup {w}
        /\ waitings'[w] = row
        /\ \A v \in DOMAIN waitings : v # w => waitings'[v] = waitings[v]
        /\ openedAt' = openedAt
    BY CommitEffect DEF NInv
  <1>2. StillTrue(r)
    BY <1>1 DEF NInv, IInv
  <1>3. s # row.store => /\ OfToday(s)' = OfToday(s)
                         /\ \A v \in OfToday(s) : InLine(v)' = InLine(v)
    BY <1>1, <1>2 DEF OfToday, InLine, StillTrue
  <1>4. w \in DOMAIN waitings => OfToday(s)' = OfToday(s)
    BY <1>1, <1>2 DEF OfToday, StillTrue
  <1>5. s = row.store /\ w \notin DOMAIN waitings /\ w > openedAt[s]
          => OfToday(s)' = OfToday(s) \cup {w} /\ w \notin OfToday(s)
    BY <1>1 DEF OfToday
  <1>6. s = row.store /\ w \notin DOMAIN waitings /\ ~(w > openedAt[s])
          => OfToday(s)' = OfToday(s)
    BY <1>1 DEF OfToday
  <1>7. IsFiniteSet(OfToday(s)) /\ LastNumber(s) \in Nat
    <2>1. clock \in Int /\ OfToday(s) \subseteq 1 .. clock
      BY WaitingAssumption DEF NInv, IInv, TypeOK, OfToday
    <2>2. IsFiniteSet(1 .. clock)
      BY <2>1, FS_Interval
    <2> QED
      BY <2>1, <2>2, FS_Subset, Counts DEF NInv, IInv
  <1>8. s = row.store /\ w \notin DOMAIN waitings /\ w > openedAt[s]
          => LastNumber(s)' = LastNumber(s) + 1
    BY <1>5, <1>7, FS_AddElement DEF LastNumber
  <1>9. OfToday(s)' = OfToday(s) => LastNumber(s)' = LastNumber(s)
    BY DEF LastNumber
  <1>10. s # row.store => TeamCount(s)' = TeamCount(s)
    BY <1>3 DEF TeamCount
  <1> QED
    BY <1>3, <1>4, <1>6, <1>7, <1>8, <1>9, <1>10

\* A committed number is the highest of its day, or was there before.
LEMMA CommitNInv ==
  ASSUME NInv, IInv', NEW r \in Threads, Commit(r)
  PROVE  NInv'
  <1> DEFINE w == txn[r].waiting
             row == txn[r].row
  <1>1. /\ r \in Running
        /\ DOMAIN waitings' = DOMAIN waitings \cup {w}
        /\ waitings'[w] = row
        /\ \A v \in DOMAIN waitings : v # w => waitings'[v] = waitings[v]
        /\ \A q \in Running' : q # r /\ q \in Running /\ txn'[q] = txn[q]
        /\ openedAt' = openedAt /\ clock' = clock
    BY CommitEffect DEF NInv
  <1>2. /\ StillTrue(r) /\ StillCounts(r) /\ w \in Nat
        /\ row.store \in Stores /\ row \in Waiting
    <2>1. StillTrue(r) /\ StillCounts(r) /\ w \in Nat
      BY <1>1, WaitingAssumption DEF NInv, IInv, TypeOK
    <2> QED
      BY <1>1, <2>1, RowType DEF NInv
  <1>3. ASSUME NEW v \in DOMAIN waitings', NEW s \in Stores, s = waitings'[v].store
        PROVE  /\ waitings'[v].day < v /\ waitings'[v].day <= openedAt[s]
               /\ waitings'[v].day = openedAt[s] => waitings'[v].number <= LastNumber(s)'
    <2>0. /\ LastNumber(s) <= LastNumber(s)'
          /\ LastNumber(s) \in Nat /\ LastNumber(s)' \in Nat
      BY CommitCounts, Counts DEF NInv, IInv
    <2>1. CASE v # w
      <3>1. v \in DOMAIN waitings /\ waitings'[v] = waitings[v] /\ waitings[v].number \in Nat
        BY <1>1, <2>1, RowType DEF NInv, Waiting
      <3> QED
        BY <1>3, <2>0, <3>1 DEF NInv, Counted, Dated
    <2>2. CASE v = w /\ w \in DOMAIN waitings
      <3>1. LastNumber(s)' = LastNumber(s)
        BY <2>2, CommitCounts
      <3> QED
        BY <1>1, <1>2, <1>3, <2>2, <3>1 DEF NInv, Counted, Dated, StillTrue, StillCounts
    <2>3. CASE v = w /\ w \notin DOMAIN waitings
      <3>1. /\ s = row.store /\ Dated(w, row)
            /\ row.day = openedAt[s] => row.number = LastNumber(s) + 1 /\ w > openedAt[s]
        BY <1>1, <1>2, <1>3, <2>3 DEF StillCounts, Dated
      <3>2. row.day = openedAt[s] => row.number = LastNumber(s)'
        BY <2>3, <3>1, CommitCounts
      <3> QED
        BY <1>1, <2>0, <2>3, <3>1, <3>2 DEF Dated
    <2> QED
      BY <2>1, <2>2, <2>3
  <1>4. NumbersInOrder'
    <2> SUFFICES ASSUME NEW u \in DOMAIN waitings', NEW v \in DOMAIN waitings',
                        waitings'[u].store = waitings'[v].store,
                        waitings'[u].day = waitings'[v].day, u < v
                 PROVE  waitings'[u].number < waitings'[v].number
      BY DEF NumbersInOrder
    <2>1. CASE w \in DOMAIN waitings
      <3>1. \A x \in DOMAIN waitings' :
              /\ x \in DOMAIN waitings /\ waitings'[x].store = waitings[x].store
              /\ waitings'[x].day = waitings[x].day
              /\ waitings'[x].number = waitings[x].number
        BY <1>1, <1>2, <2>1 DEF StillTrue, StillCounts
      <3> QED
        BY <3>1 DEF NInv, NumbersInOrder
    <2>2. CASE w \notin DOMAIN waitings
      <3>1. u \in Nat /\ v \in Nat
        BY <1>1, <1>2 DEF NInv, IInv, TypeOK
      <3>2. \A x \in DOMAIN waitings : waitings[x].store = row.store =>
              x < w /\ (waitings[x].day = row.day => waitings[x].number < row.number)
        BY <1>2, <2>2 DEF StillCounts
      <3>3. CASE v = w
        BY <1>1, <2>2, <3>1, <3>2, <3>3
      <3>4. CASE u = w
        BY <1>1, <2>2, <3>1, <3>2, <3>4
      <3>5. CASE u # w /\ v # w
        BY <1>1, <3>5 DEF NInv, NumbersInOrder
      <3> QED
        BY <3>3, <3>4, <3>5
    <2> QED
      BY <2>1, <2>2
  <1>5. ASSUME NEW q \in Running' PROVE StillCounts(q)'
    <2>1. /\ q # r /\ q \in Running /\ txn'[q] = txn[q]
          /\ StillCounts(q) /\ txn[q].row.store \in Stores
          /\ txn[q].waiting # w /\ txn[q].row.store # row.store
      BY <1>1, RowType DEF NInv, IInv, Apart
    <2>2. /\ LastNumber(txn[q].row.store)' = LastNumber(txn[q].row.store)
          /\ TeamCount(txn[q].row.store)' = TeamCount(txn[q].row.store)
      BY <2>1, CommitCounts
    <2> QED
      BY <1>1, <2>1, <2>2 DEF StillCounts, Dated
  <1>6. Counted'
    <2>1. \A v \in DOMAIN waitings' : waitings'[v].store \in Stores
      BY DEF IInv, TypeOK, Waiting
    <2> QED
      BY <1>1, <1>3, <2>1 DEF Counted, Dated
  <1> QED
    BY <1>1, <1>4, <1>5, <1>6 DEF NInv

\* An opening starts a new day, whose numbers have nobody to exceed.
LEMMA OpenNInv ==
  ASSUME NInv, IInv', NEW s \in Stores, Open(s)
  PROVE  NInv'
  <1>1. /\ waitings' = waitings /\ txn' = txn /\ Running' = Running
        /\ \A t \in Stores : t # s => openedAt'[t] = openedAt[t]
        /\ openedAt[s] \in Nat /\ openedAt'[s] \in Nat /\ openedAt[s] < openedAt'[s]
        /\ openedAt' \in [Stores -> 0 .. clock']
    BY WaitingAssumption DEF Open, NInv, IInv, TypeOK, Running
  <1>2. \A t \in Stores : t # s =>
          LastNumber(t)' = LastNumber(t) /\ TeamCount(t)' = TeamCount(t)
    BY <1>1, SameCounts
  <1>3. ASSUME NEW w, NEW row \in Waiting, Dated(w, row)
        PROVE  /\ Dated(w, row)' /\ row.store \in Stores
               /\ row.day = openedAt'[row.store] =>
                    row.store # s /\ row.day = openedAt[row.store]
    <2>1. row.store \in Stores /\ row.day \in Nat
      BY DEF Waiting
    <2> QED
      BY <1>1, <1>3, <2>1 DEF Dated
  <1>4. Counted'
    BY <1>1, <1>2, <1>3, RowType DEF NInv, Counted
  <1>5. NumbersInOrder'
    BY <1>1 DEF NInv, NumbersInOrder
  <1>6. ASSUME NEW q \in Running' PROVE StillCounts(q)'
    <2>1. /\ q \in Running /\ txn'[q] = txn[q] /\ StillCounts(q)
          /\ txn[q].row \in Waiting
      BY <1>1, RowType DEF NInv
    <2>2. CASE txn[q].waiting \in DOMAIN waitings
      BY <1>1, <2>1, <2>2 DEF StillCounts
    <2>3. CASE txn[q].waiting \notin DOMAIN waitings
      <3>1. Dated(txn[q].waiting, txn[q].row)
        BY <2>1, <2>3 DEF StillCounts
      <3>2. /\ Dated(txn[q].waiting, txn[q].row)'
            /\ txn[q].row.day = openedAt'[txn[q].row.store] =>
                 txn[q].row.store # s /\ txn[q].row.day = openedAt[txn[q].row.store]
            /\ txn[q].row.store \in Stores
        BY <1>3, <2>1, <3>1
      <3> QED
        BY <1>1, <1>2, <2>1, <2>3, <3>2 DEF StillCounts, Dated
    <2> QED
      BY <2>2, <2>3
  <1> QED
    BY <1>1, <1>4, <1>5, <1>6 DEF NInv

\* Every step keeps the numbers of each day in order.
LEMMA NextNInv == NInv /\ [Next]_vars => NInv'
  <1> SUFFICES ASSUME NInv, [Next]_vars PROVE NInv'
    OBVIOUS
  <1>0. IInv'
    BY NextIInv DEF NInv
  <1>1. ASSUME NEW r \in Threads, NEW s \in Stores, NEW phone \in Phones,
               Register(r, s, phone)
        PROVE  NInv'
    BY <1>0, <1>1, RegisterNInv
  <1>2. ASSUME NEW r \in Threads, NEW w \in DOMAIN waitings,
               CallGuest(r, w) \/ Complete(r, w) \/ Cancel(r, w)
        PROVE  NInv'
    <2>1. waitings[w] \in Waiting
      BY RowType DEF NInv
    <2> DEFINE called == [waitings[w] EXCEPT !.calls = @ + 1]
               moved(state) == [waitings[w] EXCEPT !.state = state]
    <2>2. /\ called.number = waitings[w].number /\ called.day = waitings[w].day
          /\ \A state : /\ moved(state).number = waitings[w].number
                        /\ moved(state).day = waitings[w].day
      BY <2>1 DEF Waiting
    <2>3. clock' = clock /\ (\/ Begin(r, w, called) \/ Begin(r, w, moved("COMPLETE"))
                            \/ Begin(r, w, moved("CANCEL")))
      BY <1>2 DEF CallGuest, Complete, Cancel
    <2> HIDE DEF called, moved
    <2> QED
      BY <1>0, <2>2, <2>3, KnownNInv
  <1>3. ASSUME NEW r \in Threads, Commit(r) PROVE NInv'
    BY <1>0, <1>3, CommitNInv
  <1>4. CASE waitings' = waitings /\ openedAt' = openedAt /\ clock' = clock
             /\ \A q \in Running' : q \in Running /\ txn'[q] = txn[q]
    <2>1. \A s \in Stores : LastNumber(s)' = LastNumber(s) /\ TeamCount(s)' = TeamCount(s)
      BY <1>4, SameCounts
    <2>2. Counted' /\ NumbersInOrder'
      BY <1>4, <2>1, RowType DEF NInv, Counted, NumbersInOrder, Dated
    <2>3. ASSUME NEW q \in Running' PROVE StillCounts(q)'
      <3>1. q \in Running /\ txn'[q] = txn[q] /\ StillCounts(q) /\ txn[q].row.store \in Stores
        BY <1>4, RowType DEF NInv
      <3> QED
        BY <1>4, <2>1, <3>1 DEF StillCounts, Dated
    <2> QED
      BY <1>0, <1>4, <2>2, <2>3 DEF NInv
  <1>5. ASSUME NEW r \in Threads, Rollback(r) PROVE NInv'
    BY <1>4, <1>5 DEF Rollback, NInv, IInv, Running
  <1>6. ASSUME NEW s \in Stores, Open(s) PROVE NInv'
    BY <1>0, <1>6, OpenNInv
  <1>7. CASE UNCHANGED vars
    BY <1>4, <1>7 DEF vars, Running
  <1> QED
    BY <1>1, <1>2, <1>3, <1>5, <1>6, <1>7 DEF Next

\* A number counted under the lock of the line is right when it is committed.
THEOREM SpecNInv == Spec => []NInv
  BY InitNInv, NextNInv, PTL DEF Spec

\* However requests interleave, guests who registered later on one day of a
\* store have higher numbers, though a number is only a count of the rows.
THEOREM NumbersGrow == Spec => []NumbersInOrder
  <1>1. NInv => NumbersInOrder
    BY DEF NInv
  <1> QED
    BY <1>1, SpecNInv, PTL

\* However requests interleave, the number of teams before a guest never
\* grows: a commit either ends a waiting, leaves it, or adds one after all
\* others of its store.
THEOREM TurnsShrink == Spec => TurnNeverGrows
  <1>1. NInv /\ NInv' /\ [Next]_vars =>
          [\A w \in DOMAIN waitings : MyTurn(w)' <= MyTurn(w)]_vars
    <2> SUFFICES ASSUME NInv, NInv', Next, NEW w \in DOMAIN waitings
                 PROVE  MyTurn(w)' <= MyTurn(w)
      OBVIOUS
    <2> DEFINE before == {v \in OfToday(waitings[w].store) : InLine(v) /\ v < w}
    <2>1. IsFiniteSet(before)
      <3>1. clock \in Int /\ before \subseteq 1 .. clock
        BY WaitingAssumption DEF NInv, IInv, TypeOK, OfToday
      <3>2. IsFiniteSet(1 .. clock)
        BY <3>1, FS_Interval
      <3> HIDE DEF before
      <3> QED
        BY <3>1, <3>2, FS_Subset
    <2>2. before' \subseteq before
      <3>1. ASSUME NEW r \in Threads, Commit(r) PROVE before' \subseteq before
        <4>1. /\ r \in Running
              /\ DOMAIN waitings' = DOMAIN waitings \cup {txn[r].waiting}
              /\ waitings'[txn[r].waiting] = txn[r].row
              /\ \A v \in DOMAIN waitings : v # txn[r].waiting => waitings'[v] = waitings[v]
              /\ openedAt' = openedAt
          BY <3>1, CommitEffect DEF NInv
        <4>2. StillTrue(r) /\ StillCounts(r)
          BY <4>1 DEF NInv, IInv
        <4>3. waitings'[w].store = waitings[w].store /\ w \in Nat /\ txn[r].waiting \in Nat
          BY <4>1, <4>2, WaitingAssumption DEF StillTrue, NInv, IInv, TypeOK
        <4>4. CASE txn[r].waiting \in DOMAIN waitings
          BY <4>1, <4>2, <4>3, <4>4 DEF StillTrue, OfToday, InLine
        <4>5. CASE txn[r].waiting \notin DOMAIN waitings
          <5>1. txn[r].row.store = waitings[w].store => w < txn[r].waiting
            BY <4>2, <4>5 DEF StillCounts
          <5> QED
            BY <4>1, <4>3, <4>5, <5>1 DEF OfToday, InLine
        <4> QED
          BY <4>4, <4>5
      <3>2. ASSUME NEW s \in Stores, Open(s) PROVE before' \subseteq before
        <4>1. \A t \in Stores : openedAt[t] \in Nat /\ openedAt'[t] \in Nat
                               /\ openedAt[t] <= openedAt'[t]
          BY <3>2, WaitingAssumption DEF Open, NInv, IInv, TypeOK
        <4>2. waitings' = waitings /\ waitings[w].store \in Stores
          BY <3>2, RowType DEF Open, NInv
        <4>3. \A v \in DOMAIN waitings : v \in Nat
          BY WaitingAssumption DEF NInv, IInv, TypeOK
        <4> QED
          BY <4>1, <4>2, <4>3 DEF OfToday, InLine
      <3>3. CASE waitings' = waitings /\ openedAt' = openedAt
        BY <3>3 DEF OfToday, InLine
      <3> QED
        BY <3>1, <3>2, <3>3 DEF Next, Register, CallGuest, Complete, Cancel, Begin, Rollback
    <2>3. Cardinality(before') <= Cardinality(before)
      BY <2>1, <2>2, FS_Subset
    <2> QED
      BY <2>3 DEF MyTurn
  <1> QED
    BY <1>1, SpecNInv, PTL DEF Spec, TurnNeverGrows

\* However requests interleave, the number of teams a guest is told at
\* registration is their turn when the registration commits.
THEOREM ToldTheirTurn == Spec => RegisteredAtTheirTurn
  <1>1. NInv /\ [Next]_vars =>
          [\A w \in DOMAIN waitings' \ DOMAIN waitings :
             waitings'[w].day = openedAt'[waitings'[w].store] =>
               waitings'[w].ahead = MyTurn(w)']_vars
    <2> SUFFICES ASSUME NInv, Next, NEW w \in DOMAIN waitings' \ DOMAIN waitings,
                        waitings'[w].day = openedAt'[waitings'[w].store]
                 PROVE  waitings'[w].ahead = MyTurn(w)'
      OBVIOUS
    <2>1. PICK r \in Threads : Commit(r)
      BY DEF Next, Register, CallGuest, Complete, Cancel, Begin, Rollback, Open
    <2>2. /\ r \in Running
          /\ DOMAIN waitings' = DOMAIN waitings \cup {txn[r].waiting}
          /\ waitings'[txn[r].waiting] = txn[r].row
          /\ \A v \in DOMAIN waitings : v # txn[r].waiting => waitings'[v] = waitings[v]
          /\ openedAt' = openedAt
      BY <2>1, CommitEffect DEF NInv
    <2>3. w = txn[r].waiting /\ waitings'[w] = txn[r].row
      BY <2>2
    <2>4. StillCounts(r)
      BY <2>2 DEF NInv
    <2> DEFINE s == waitings'[w].store
    <2>5. /\ waitings'[w].ahead = TeamCount(s)
          /\ \A v \in DOMAIN waitings : waitings[v].store = s => v < w
      BY <2>2, <2>3, <2>4 DEF StillCounts
    <2>6. w \in Nat
      BY <2>2, <2>3, WaitingAssumption DEF NInv, IInv, TypeOK
    <2>7. {v \in OfToday(waitings[w].store) : InLine(v) /\ v < w}' =
            {v \in OfToday(s) : InLine(v)}
      BY <2>2, <2>3, <2>5, <2>6 DEF OfToday, InLine
    <2> QED
      BY <2>5, <2>7 DEF TeamCount, MyTurn
  <1> QED
    BY <1>1, SpecNInv, PTL DEF Spec, RegisteredAtTheirTurn

=============================================================================
