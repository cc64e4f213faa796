--------------------------- MODULE StoreDayProofs ---------------------------
(***************************************************************************)
(* Proofs about StoreDay, for any threads, table numbers and bounds.  What  *)
(* a closing has seen stays finished since the guests' transactions, apart   *)
(* by their keys, write different rows, and one that keeps its row           *)
(* unfinished found it so.  The tables are those of the day though no lock    *)
(* keeps managers apart: until one overwrites a store that changed since it   *)
(* read it, whoever was not overtaken is still about the store as it is.      *)
(***************************************************************************)
EXTENDS StoreDay, TLAPS

IsLine(r) == LockKey(txn[r].request) = Line

\* The transaction of a guest leaves its row unfinished.
Keeps(r) == IF IsLine(r) THEN txn[r].write.row.inLine ELSE txn[r].write.row.active

\* What a guest's transaction is about to write is a row of its table, under
\* the key of its line or its table.  One it keeps unfinished is so already,
\* or is new.
GuestRow(r) ==
    LET write == txn[r].write
    IN  /\ write.id \in 1 .. clock
        /\ IF IsLine(r)
             THEN write.id \notin DOMAIN activities /\ write.row \in [inLine : BOOLEAN]
             ELSE /\ write.id \notin DOMAIN waitings
                  /\ write.row \in [table : DOMAIN tables, active : BOOLEAN]
                  /\ write.id \in DOMAIN activities =>
                       LockKey(txn[r].request) = activities[write.id].table[2]
        /\ Keeps(r) /\ write.id \in Known => write.id \in Unfinished

\* What a manager's transaction is about to write is the row of the store.
ManagerRow(r) ==
    /\ txn[r].request.kind \in {"open", "close", "update"}
    /\ txn[r].write \in [status : {"OPEN", "CLOSE"}, openedAt : 0 .. clock]
    /\ txn[r].request.kind = "open" => txn[r].write.openedAt \in 1 .. clock
    /\ txn[r].request.kind = "close" => txn[r].write.status = "CLOSE"

\* What a closing has seen is finished, and no transaction brings it back.
ClosingSees(r) ==
    txn[r].request.kind = "close" =>
      /\ txn[r].request.seen \subseteq 1 .. clock
      /\ txn[r].request.seen \cap Unfinished = {}
      /\ \A p \in Running \cap Guests : Keeps(p) => txn[p].write.id \notin txn[r].request.seen

GuestRequests == Requests \cup [kind : {"line"}]

IInv ==
    /\ TypeOK
    /\ txn = [r \in Threads |-> txn[r]]
    /\ \A r \in Guests : txn[r] # Idle => txn[r].request \in GuestRequests
    /\ \A r \in Running \cap Guests : GuestRow(r)
    /\ \A q, r \in Running \cap Guests : q # r => txn[q].write.id # txn[r].write.id
    /\ \A r \in Running \cap Managers : ManagerRow(r) /\ ClosingSees(r)

-----------------------------------------------------------------------------

\* The keys of the services at tables are not the key of the line.
LEMMA Keys ==
  /\ \A q \in Requests : LockKey(q) = Line <=> q.kind = "register"
  /\ \A q : q.kind = "line" => LockKey(q) = Line
  BY StoreDayAssumption DEF Requests, LockKey

\* At first nothing was made and nobody is at work.
LEMMA InitIInv == Init => IInv
  <1> SUFFICES ASSUME Init PROVE IInv
    OBVIOUS
  <1>1. /\ Running = {} /\ DOMAIN tables = {}
        /\ DOMAIN activities = {} /\ DOMAIN waitings = {}
        /\ txn = [r \in Threads |-> Idle]
    BY DEF Init, Running
  <1>2. TypeOK
    <2>1. overtaken \subseteq Managers /\ overwritten \in BOOLEAN
      BY DEF Init
    <2>2. clock \in 0 .. MaxClock /\ store \in [status : {"OPEN", "CLOSE"}, openedAt : 0 .. clock]
      BY StoreDayAssumption DEF Init
    <2> QED
      BY <1>1, <2>1, <2>2 DEF Init, TypeOK
  <1>3. txn = [r \in Threads |-> txn[r]] /\ \A r \in Guests : txn[r] = Idle
    BY <1>1 DEF Threads
  <1> QED
    BY <1>1, <1>2, <1>3 DEF IInv

\* What existed and what was unfinished is read from the rows.
LEMMA RowsRead ==
  ASSUME IInv
  PROVE  /\ Known \subseteq 1 .. clock /\ Unfinished \subseteq Known
         /\ \A x \in DOMAIN activities : x \in Unfinished <=> activities[x].active
         /\ \A x \in DOMAIN waitings : x \in Unfinished <=> waitings[x].inLine
  BY DEF IInv, TypeOK, Known, Unfinished, ActiveActivities, InLine

\* A guest's step that sets what thread r is to write.
LEMMA BeginIInv ==
  ASSUME IInv, NEW r \in Guests, NEW q \in GuestRequests, NEW row, Begin(r, q, row),
         clock' \in clock .. MaxClock,
         row.id \in 1 .. clock',
         IF LockKey(q) = Line
           THEN row.id \notin DOMAIN activities /\ row.row \in [inLine : BOOLEAN]
           ELSE /\ row.id \notin DOMAIN waitings
                /\ row.row \in [table : DOMAIN tables, active : BOOLEAN]
                /\ row.id \in DOMAIN activities => LockKey(q) = activities[row.id].table[2],
         row.id \in Unfinished \/ row.id \notin 1 .. clock,
         \A p \in Running \cap Guests : txn[p].write.id # row.id
  PROVE  IInv'
  <1>1. /\ txn' = [txn EXCEPT ![r] = [request |-> q, write |-> row]]
        /\ store' = store /\ tables' = tables
        /\ activities' = activities /\ waitings' = waitings
        /\ overtaken' = overtaken /\ overwritten' = overwritten
    BY DEF Begin, rows, history
  <1>2. /\ txn'[r].request = q /\ txn'[r].write = row
        /\ \A p \in Threads : p # r => txn'[p] = txn[p]
        /\ \A p \in Running' : p # r => p \in Running /\ txn'[p] = txn[p]
        /\ \A m \in Managers : m # r
    BY <1>1, StoreDayAssumption DEF IInv, Running, Threads
  <1>3. clock \in Nat /\ clock' \in 0 .. MaxClock /\ 1 .. clock \subseteq 1 .. clock'
        /\ 0 .. clock \subseteq 0 .. clock'
    BY StoreDayAssumption DEF IInv, TypeOK
  <1>4. TypeOK'
    BY <1>1, <1>3 DEF IInv, TypeOK, Tables
  <1>5. txn' = [p \in Threads |-> txn'[p]]
    BY <1>1 DEF IInv
  <1>6. \A p \in Guests : txn'[p] # Idle => txn'[p].request \in GuestRequests
    BY <1>2 DEF IInv, Threads
  <1>7. IsLine(r)' <=> LockKey(q) = Line
    BY <1>2 DEF IsLine, LockKey
  <1>8. \A p \in Running' : p # r => (IsLine(p)' <=> IsLine(p)) /\ (Keeps(p)' <=> Keeps(p))
    BY <1>2 DEF IsLine, Keeps, LockKey
  <1>9. /\ Known' = Known /\ Unfinished' = Unfinished
        /\ Known \subseteq 1 .. clock
    BY <1>1, RowsRead DEF Known, Unfinished, ActiveActivities, InLine
  <1>10. ASSUME NEW p \in (Running \cap Guests)' PROVE GuestRow(p)'
    <2>1. CASE p = r
      <3>1. LockKey(txn[p].request)' = LockKey(q)
        BY <1>2, <2>1 DEF LockKey
      <3> QED
        BY <1>1, <1>2, <1>7, <1>9, <2>1, <3>1 DEF GuestRow
    <2>2. CASE p # r
      <3>1. GuestRow(p) /\ txn'[p] = txn[p]
            /\ LockKey(txn[p].request)' = LockKey(txn[p].request)
        BY <1>2, <2>2 DEF IInv, LockKey
      <3> QED
        BY <1>1, <1>3, <1>8, <1>9, <2>2, <3>1 DEF GuestRow
    <2> QED
      BY <2>1, <2>2
  <1>11. \A p, s \in (Running \cap Guests)' : p # s => txn'[p].write.id # txn'[s].write.id
    BY <1>2 DEF IInv
  <1>12. ASSUME NEW m \in (Running \cap Managers)' PROVE ManagerRow(m)' /\ ClosingSees(m)'
    <2>1. m \in Running /\ m \in Managers /\ txn'[m] = txn[m] /\ ManagerRow(m) /\ ClosingSees(m)
      BY <1>2 DEF IInv
    <2>2. ManagerRow(m)'
      BY <1>3, <2>1 DEF ManagerRow
    <2>3. ASSUME txn[m].request.kind = "close"
          PROVE  /\ txn[m].request.seen \subseteq 1 .. clock'
                 /\ row.id \notin txn[m].request.seen
                 /\ \A p \in (Running \cap Guests)' :
                      Keeps(p)' => txn'[p].write.id \notin txn[m].request.seen
      BY <1>2, <1>3, <1>8, <2>1, <2>3 DEF ClosingSees
    <2> QED
      BY <1>9, <2>1, <2>2, <2>3 DEF ClosingSees
  <1> QED
    BY <1>4, <1>5, <1>6, <1>10, <1>11, <1>12 DEF IInv

\* A manager's step that sets what thread r is to write.
LEMMA ManageIInv ==
  ASSUME IInv, NEW r \in Managers, NEW q, q.kind \in {"open", "close", "update"},
         NEW row \in [status : {"OPEN", "CLOSE"}, openedAt : 0 .. clock'],
         Manage(r, q, row), clock' \in clock .. MaxClock,
         q.kind = "open" => row.openedAt \in 1 .. clock',
         q.kind = "close" => Unfinished = {} /\ q.seen = Known /\ row.status = "CLOSE"
  PROVE  IInv'
  <1>1. /\ txn' = [txn EXCEPT ![r] = [request |-> q, write |-> row]]
        /\ store' = store /\ tables' = tables
        /\ activities' = activities /\ waitings' = waitings
        /\ overtaken' = overtaken /\ overwritten' = overwritten
    BY DEF Manage, rows, history
  <1>2. /\ txn'[r].request = q /\ txn'[r].write = row
        /\ \A p \in Threads : p # r => txn'[p] = txn[p]
        /\ \A p \in Running' : p # r => p \in Running /\ txn'[p] = txn[p]
        /\ \A g \in Guests : g # r
    BY <1>1, StoreDayAssumption DEF IInv, Running, Threads
  <1>3. clock \in Nat /\ clock' \in 0 .. MaxClock /\ 1 .. clock \subseteq 1 .. clock'
        /\ 0 .. clock \subseteq 0 .. clock'
    BY StoreDayAssumption DEF IInv, TypeOK
  <1>4. TypeOK'
    BY <1>1, <1>3 DEF IInv, TypeOK, Tables
  <1>5. txn' = [p \in Threads |-> txn'[p]]
    BY <1>1 DEF IInv
  <1>6. \A p \in Guests : txn'[p] # Idle => txn'[p].request \in GuestRequests
    BY <1>2 DEF IInv, Threads
  <1>7. /\ Known' = Known /\ Unfinished' = Unfinished
        /\ Known \subseteq 1 .. clock
    BY <1>1, RowsRead DEF Known, Unfinished, ActiveActivities, InLine
  <1>8. ASSUME NEW p \in (Running \cap Guests)'
        PROVE  /\ p \in Running /\ p \in Guests /\ txn'[p] = txn[p] /\ GuestRow(p)
               /\ LockKey(txn[p].request)' = LockKey(txn[p].request)
               /\ (IsLine(p)' <=> IsLine(p)) /\ (Keeps(p)' <=> Keeps(p))
    BY <1>2 DEF IInv, IsLine, Keeps, LockKey
  <1>9. \A p \in (Running \cap Guests)' : GuestRow(p)'
    BY <1>1, <1>3, <1>7, <1>8 DEF GuestRow
  <1>10. \A p, s \in (Running \cap Guests)' : p # s => txn'[p].write.id # txn'[s].write.id
    BY <1>8 DEF IInv
  <1>11. ASSUME NEW m \in (Running \cap Managers)' PROVE ManagerRow(m)' /\ ClosingSees(m)'
    <2>1. CASE m # r
      <3>1. txn'[m] = txn[m] /\ ManagerRow(m) /\ ClosingSees(m)
        BY <1>2, <2>1 DEF IInv
      <3> QED
        BY <1>3, <1>7, <1>8, <3>1 DEF ManagerRow, ClosingSees
    <2>2. CASE m = r
      <3>1. ManagerRow(m)'
        BY <1>2, <2>2 DEF ManagerRow
      <3>2. ClosingSees(m)'
        <4>1. ASSUME q.kind = "close"
              PROVE  \A p \in (Running \cap Guests)' : Keeps(p)' => txn'[p].write.id \notin Known
          BY <1>8, <4>1 DEF GuestRow
        <4> QED
          BY <1>2, <1>3, <1>7, <2>2, <4>1 DEF ClosingSees
      <3> QED
        BY <3>1, <3>2
    <2> QED
      BY <2>1, <2>2
  <1> QED
    BY <1>4, <1>5, <1>6, <1>9, <1>10, <1>11 DEF IInv

\* Steps of threads that end or only enter.
LEMMA EndIInv ==
  ASSUME IInv, NEW r \in Threads,
         Running' \subseteq Running \ {r},
         \A p \in Threads : p # r => txn'[p] = txn[p],
         txn' = [p \in Threads |-> txn'[p]],
         r \in Guests => (txn'[r] # Idle => txn'[r].request \in GuestRequests),
         clock' = clock, TypeOK',
         \A p \in (Running \cap Guests)' : GuestRow(p)',
         \A m \in (Running \cap Managers)' : txn[m].request.kind = "close" =>
           txn[m].request.seen \cap Unfinished' = {}
  PROVE  IInv'
  <1>1. \A p \in Running' : p # r /\ p \in Threads /\ p \in Running /\ txn'[p] = txn[p]
    BY DEF Running
  <1>2. \A p \in (Running \cap Guests)' : Keeps(p)' <=> Keeps(p)
    BY <1>1 DEF Keeps, IsLine, LockKey
  <1>3. \A p \in Guests : txn'[p] # Idle => txn'[p].request \in GuestRequests
    BY DEF IInv, Threads
  <1>4. \A p, s \in (Running \cap Guests)' : p # s => txn'[p].write.id # txn'[s].write.id
    BY <1>1 DEF IInv
  <1>5. \A m \in (Running \cap Managers)' : ManagerRow(m)' /\ ClosingSees(m)'
    BY <1>1, <1>2 DEF IInv, ManagerRow, ClosingSees
  <1> QED
    BY <1>3, <1>4, <1>5 DEF IInv

\* Nobody's rows are disturbed where no row is written.
LEMMA UndisturbedIInv ==
  ASSUME IInv, NEW r \in Threads, UNCHANGED <<rows, clock, overwritten>>,
         overtaken' \subseteq overtaken,
         Running' \subseteq Running \ {r},
         \A p \in Threads : p # r => txn'[p] = txn[p],
         txn' = [p \in Threads |-> txn'[p]],
         r \in Guests => (txn'[r] # Idle => txn'[r].request \in GuestRequests)
  PROVE  IInv'
  <1>1. /\ store' = store /\ tables' = tables /\ clock' = clock
        /\ activities' = activities /\ waitings' = waitings
        /\ overwritten' = overwritten /\ overtaken' \subseteq Managers
    BY DEF rows, IInv, TypeOK
  <1>2. TypeOK'
    BY <1>1 DEF IInv, TypeOK, Tables
  <1>3. \A p \in Running' : p \in Running /\ txn'[p] = txn[p]
    BY DEF Running
  <1>4. Known' = Known /\ Unfinished' = Unfinished
    BY <1>1 DEF Known, Unfinished, ActiveActivities, InLine
  <1>5. \A p \in (Running \cap Guests)' : GuestRow(p)'
    BY <1>1, <1>3, <1>4 DEF IInv, GuestRow, Keeps, IsLine, LockKey
  <1>6. \A m \in (Running \cap Managers)' : txn[m].request.kind = "close" =>
          txn[m].request.seen \cap Unfinished' = {}
    BY <1>3, <1>4 DEF IInv, ClosingSees
  <1> QED
    BY <1>1, <1>2, <1>5, <1>6, EndIInv

\* A thread that waits to begin has a request of its own.
LEMMA WaitingRequest ==
  ASSUME IInv, NEW r \in Guests, txn[r] # Idle
  PROVE  txn[r].request \in GuestRequests
  BY DEF IInv

\* Instants are natural numbers, and the next one is not taken.
LEMMA FreshInstant ==
  ASSUME IInv, clock < MaxClock
  PROVE  /\ clock \in Nat /\ clock + 1 \in clock .. MaxClock /\ clock + 1 \in 1 .. clock + 1
         /\ clock + 1 \notin 1 .. clock
         /\ clock + 1 \notin DOMAIN activities /\ clock + 1 \notin DOMAIN waitings
         /\ \A p \in Running \cap Guests : txn[p].write.id # clock + 1
  <1>1. clock \in Nat
    BY StoreDayAssumption DEF IInv, TypeOK
  <1>2. clock + 1 \notin 1 .. clock
    BY <1>1
  <1>3. \A p \in Running \cap Guests : txn[p].write.id \in 1 .. clock
    BY DEF IInv, GuestRow
  <1>4. clock + 1 \in clock .. MaxClock /\ clock + 1 \in 1 .. clock + 1
    BY <1>1, StoreDayAssumption
  <1>5. DOMAIN activities \subseteq 1 .. clock /\ DOMAIN waitings \subseteq 1 .. clock
    BY DEF IInv, TypeOK
  <1> QED
    BY <1>1, <1>2, <1>3, <1>4, <1>5

\* A request for a table opens the activity it finds none of.
LEMMA SeatIInv ==
  ASSUME IInv, NEW r \in Guests, Seat(r)
  PROVE  IInv'
  <1> DEFINE q == txn[r].request
  <1>1. /\ txn[r] # Idle /\ q.kind \in {"order", "pay"}
        /\ clock < MaxClock /\ clock' = clock + 1
    BY DEF Seat, Waits
  <1>2. PICK t \in TablesNumbered(q.no) :
          Begin(r, q, [id |-> clock + 1, row |-> [table |-> t, active |-> TRUE]])
    BY DEF Seat
  <1>3. q \in GuestRequests /\ LockKey(q) # Line
    BY <1>1, WaitingRequest, Keys DEF GuestRequests, Requests
  <1>4. [table |-> t, active |-> TRUE] \in [table : DOMAIN tables, active : BOOLEAN]
    BY DEF TablesNumbered, ActiveTables
  <1> HIDE DEF q
  <1> QED
    BY <1>1, <1>2, <1>3, <1>4, FreshInstant, BeginIInv

\* A new waiting is a row that does not exist yet.
LEMMA RegisterIInv ==
  ASSUME IInv, NEW r \in Guests, Register(r)
  PROVE  IInv'
  <1> DEFINE q == txn[r].request
  <1>1. /\ txn[r] # Idle /\ q.kind = "register"
        /\ clock < MaxClock /\ clock' = clock + 1
        /\ Begin(r, q, [id |-> clock + 1, row |-> [inLine |-> TRUE]])
    BY DEF Register, Waits
  <1>2. q \in GuestRequests /\ LockKey(q) = Line
    BY <1>1, WaitingRequest, Keys DEF GuestRequests, Requests
  <1> HIDE DEF q
  <1> QED
    BY <1>1, <1>2, FreshInstant, BeginIInv

\* A payment or the POS writes an active activity, under its table's key.
LEMMA WriteActivityIInv ==
  ASSUME IInv, NEW r \in Guests, NEW q \in Requests, q.kind \in {"pay", "settle"},
         NEW a \in ActivitiesNumbered(q.no), NEW row,
         row \in [table : DOMAIN tables, active : BOOLEAN],
         Begin(r, q, [id |-> a, row |-> row]), clock' = clock
  PROVE  IInv'
  <1>1. a \in DOMAIN activities /\ activities[a].active /\ activities[a].table[2] = q.no
    BY DEF ActivitiesNumbered, ActiveActivities
  <1>2. /\ clock \in Nat /\ clock' \in clock .. MaxClock /\ a \in 1 .. clock
        /\ a \notin DOMAIN waitings
    BY <1>1, StoreDayAssumption DEF IInv, TypeOK
  <1>3. LockKey(q) = q.no /\ LockKey(q) # Line /\ q \in GuestRequests
    BY Keys DEF GuestRequests, LockKey
  <1>4. a \in Unfinished
    BY <1>1, RowsRead
  <1>5. \A p \in Running \cap Guests : txn[p].write.id # a
    <2>1. \A p \in Running \cap Guests : LockKey(txn[p].request) # q.no
      BY <1>3 DEF Begin, IsFree
    <2> QED
      BY <1>1, <2>1 DEF IInv, GuestRow
  <1>6. Begin(r, q, [id |-> a, row |-> row]) /\ [id |-> a, row |-> row].id = a
        /\ [id |-> a, row |-> row].row = row
    OBVIOUS
  <1> QED
    BY <1>1, <1>2, <1>3, <1>4, <1>5, <1>6, BeginIInv

\* They find the activity by the number of its table, and keep its table.
LEMMA PayOrSettleIInv ==
  ASSUME IInv, NEW r \in Guests, PayOff(r) \/ Discount(r) \/ Settle(r)
  PROVE  IInv'
  <1> DEFINE q == txn[r].request
  <1>1. /\ txn[r] # Idle /\ q.kind \in {"pay", "settle"} /\ clock' = clock
    BY DEF PayOff, Discount, Settle, Waits
  <1>2. q \in Requests
    BY <1>1, WaitingRequest DEF GuestRequests
  <1>3. PICK a \in ActivitiesNumbered(q.no) :
          \/ Begin(r, q, [id |-> a, row |-> activities[a]])
          \/ Begin(r, q, [id |-> a, row |-> [activities[a] EXCEPT !.active = FALSE]])
    BY DEF PayOff, Discount, Settle, ActivitiesNumbered, ActivitiesAt, TablesNumbered
  <1>4. /\ activities[a] \in [table : DOMAIN tables, active : BOOLEAN]
        /\ [activities[a] EXCEPT !.active = FALSE] \in [table : DOMAIN tables, active : BOOLEAN]
    BY DEF ActivitiesNumbered, ActiveActivities, IInv, TypeOK
  <1> HIDE DEF q
  <1> QED
    BY <1>1, <1>2, <1>3, <1>4, WriteActivityIInv

\* A guest who is called or leaves is in line, and so is the row until then.
LEMMA CallOrLeaveIInv ==
  ASSUME IInv, NEW r \in Guests, NEW w \in InLine, CallOrLeave(r, w)
  PROVE  IInv'
  <1> DEFINE q == [kind |-> "line"]
  <1>1. /\ clock \in Nat /\ clock \in clock .. MaxClock /\ w \in 1 .. clock
        /\ w \in DOMAIN waitings /\ w \notin DOMAIN activities
    BY StoreDayAssumption DEF IInv, TypeOK, InLine
  <1>2. q \in GuestRequests /\ LockKey(q) = Line
    BY Keys DEF GuestRequests
  <1>3. w \in Unfinished
    BY DEF Unfinished
  <1>4. PICK stays \in BOOLEAN : Begin(r, q, [id |-> w, row |-> [inLine |-> stays]])
    BY DEF CallOrLeave
  <1>5. clock' = clock
    BY DEF CallOrLeave
  <1> HIDE DEF q
  <1>6. \A p \in Running \cap Guests : txn[p].write.id # w
    <2>1. \A p \in Running \cap Guests : ~IsLine(p)
      BY <1>2, <1>4 DEF Begin, IsFree, IsLine
    <2> QED
      BY <1>1, <2>1 DEF IInv, GuestRow
  <1>7. [id |-> w, row |-> [inLine |-> stays]].id = w
        /\ [id |-> w, row |-> [inLine |-> stays]].row \in [inLine : BOOLEAN]
    OBVIOUS
  <1> QED
    BY <1>1, <1>2, <1>3, <1>4, <1>5, <1>6, <1>7, BeginIInv

\* A guest's commit writes a row of its own table, and the other guests'
\* rows stay rows of theirs.
LEMMA CommitGuestIInv ==
  ASSUME IInv, NEW r \in Guests, CommitGuest(r)
  PROVE  IInv'
  <1> DEFINE id == txn[r].write.id
             row == txn[r].write.row
  <1>1. /\ r \in Running /\ r \in Threads /\ GuestRow(r)
        /\ txn' = [txn EXCEPT ![r] = Idle]
        /\ store' = store /\ tables' = tables /\ clock' = clock
        /\ overtaken' = overtaken /\ overwritten' = overwritten
    BY DEF CommitGuest, IInv, Threads, history
  <1>2. /\ txn'[r] = Idle /\ txn' = [p \in Threads |-> txn'[p]]
        /\ \A p \in Threads : p # r => txn'[p] = txn[p]
        /\ Running' \subseteq Running \ {r}
    BY <1>1 DEF IInv, Running
  <1>3. IF IsLine(r)
          THEN waitings' = Put(waitings, id, row) /\ activities' = activities
          ELSE activities' = Put(activities, id, row) /\ waitings' = waitings
    BY DEF CommitGuest, IsLine
  <1>4. id \in 1 .. clock
    BY <1>1 DEF GuestRow
  <1>5. ASSUME NEW p \in (Running \cap Guests)'
        PROVE  /\ txn'[p] = txn[p] /\ GuestRow(p) /\ txn[p].write.id # id
               /\ LockKey(txn[p].request)' = LockKey(txn[p].request)
               /\ (IsLine(p)' <=> IsLine(p)) /\ (Keeps(p)' <=> Keeps(p))
    BY <1>1, <1>2 DEF IInv, Running, IsLine, Keeps, LockKey
  <1>6. \A m \in (Running \cap Managers)' : txn[m].request.kind = "close" =>
          /\ txn[m].request.seen \cap Unfinished = {}
          /\ Keeps(r) => id \notin txn[m].request.seen
    BY <1>1, <1>2 DEF IInv, ClosingSees
  <1>7. CASE IsLine(r)
    <2>1. id \notin DOMAIN activities /\ row \in [inLine : BOOLEAN]
      BY <1>1, <1>7 DEF GuestRow
    <2>2. /\ DOMAIN waitings' = DOMAIN waitings \cup {id}
          /\ waitings' \in [DOMAIN waitings' -> [inLine : BOOLEAN]]
      BY <1>3, <1>7, <2>1 DEF IInv, TypeOK, Put
    <2>3. TypeOK'
      BY <1>1, <1>3, <1>4, <1>7, <2>1, <2>2 DEF IInv, TypeOK, Tables
    <2>4. /\ Known' = Known \cup {id}
          /\ \A x : x # id => (x \in Unfinished' <=> x \in Unfinished)
          /\ id \in Unfinished' => Keeps(r)
      BY <1>3, <1>7, <2>1, <2>2
         DEF Put, Known, Unfinished, ActiveActivities, InLine, Keeps
    <2>5. ASSUME NEW p \in (Running \cap Guests)' PROVE GuestRow(p)'
      BY <1>1, <1>3, <1>5, <1>7, <2>2, <2>4 DEF GuestRow
    <2> QED
      BY <1>1, <1>2, <1>6, <2>3, <2>4, <2>5, EndIInv
  <1>8. CASE ~IsLine(r)
    <2>1. id \notin DOMAIN waitings /\ row \in [table : DOMAIN tables, active : BOOLEAN]
      BY <1>1, <1>8 DEF GuestRow
    <2>2. /\ DOMAIN activities' = DOMAIN activities \cup {id}
          /\ activities' \in [DOMAIN activities' -> [table : DOMAIN tables, active : BOOLEAN]]
      BY <1>3, <1>8, <2>1 DEF IInv, TypeOK, Put
    <2>3. TypeOK'
      BY <1>1, <1>3, <1>4, <1>8, <2>1, <2>2 DEF IInv, TypeOK, Tables
    <2>4. /\ Known' = Known \cup {id}
          /\ \A x : x # id => (x \in Unfinished' <=> x \in Unfinished)
          /\ id \in Unfinished' => Keeps(r)
      BY <1>3, <1>8, <2>1, <2>2
         DEF Put, Known, Unfinished, ActiveActivities, InLine, Keeps
    <2>5. ASSUME NEW p \in (Running \cap Guests)' PROVE GuestRow(p)'
      <3>1. \A x \in DOMAIN activities : x # id => activities'[x] = activities[x]
        BY <1>3, <1>8 DEF Put
      <3>2. /\ waitings' = waitings /\ tables' = tables /\ clock' = clock
            /\ txn[p].write.id \in DOMAIN activities' =>
                 /\ txn[p].write.id \in DOMAIN activities
                 /\ activities'[txn[p].write.id] = activities[txn[p].write.id]
            /\ txn[p].write.id \in Known' => txn[p].write.id \in Known
            /\ txn[p].write.id \in Unfinished => txn[p].write.id \in Unfinished'
        BY <1>1, <1>3, <1>5, <1>8, <2>2, <2>4, <3>1
      <3> QED
        BY <1>5, <3>2 DEF GuestRow
    <2> QED
      BY <1>1, <1>2, <1>6, <2>3, <2>4, <2>5, EndIInv
  <1> QED
    BY <1>7, <1>8

\* A manager's commit writes the row of the store and keeps every table made.
LEMMA CommitManagerIInv ==
  ASSUME IInv, NEW r \in Managers, CommitManager(r)
  PROVE  IInv'
  <1> DEFINE kind == txn[r].request.kind
             row == txn[r].write
  <1>1. /\ r \in Running /\ r \in Threads /\ ManagerRow(r) /\ r \notin Guests
        /\ txn' = [txn EXCEPT ![r] = Idle]
        /\ store' = row /\ tables' = TablesAfter(txn[r].request, row)
        /\ activities' = activities /\ waitings' = waitings /\ clock' = clock
    BY StoreDayAssumption DEF CommitManager, IInv, Threads
  <1>2. /\ txn' = [p \in Threads |-> txn'[p]]
        /\ \A p \in Threads : p # r => txn'[p] = txn[p]
        /\ Running' \subseteq Running \ {r}
    BY <1>1 DEF IInv, Running
  <1>3. /\ DOMAIN tables \subseteq DOMAIN tables' /\ DOMAIN tables' \subseteq Tables
        /\ tables' \in [DOMAIN tables' -> BOOLEAN]
    <2>0. clock \in Nat /\ 1 .. clock \subseteq 1 .. MaxClock
      BY StoreDayAssumption DEF IInv, TypeOK
    <2>1. CASE kind = "open"
      <3>1. tables' = [t \in DOMAIN tables \cup ({row.openedAt} \X Numbers) |->
                         t[1] = row.openedAt \/ tables[t]]
        BY <1>1, <2>1 DEF TablesAfter
      <3>2. {row.openedAt} \X Numbers \subseteq Tables
        BY <1>1, <2>0, <2>1 DEF ManagerRow, Tables
      <3>3. \A t \in DOMAIN tables \cup ({row.openedAt} \X Numbers) :
              (t[1] = row.openedAt \/ tables[t]) \in BOOLEAN
        OBVIOUS
      <3> QED
        BY <3>1, <3>2, <3>3 DEF IInv, TypeOK
    <2>2. CASE kind = "close"
      BY <1>1, <2>2 DEF TablesAfter, IInv, TypeOK
    <2>3. CASE kind = "update"
      BY <1>1, <2>3 DEF TablesAfter, IInv, TypeOK
    <2> QED
      BY <1>1, <2>1, <2>2, <2>3 DEF ManagerRow
  <1>4. TypeOK'
    <2>1. activities \in [DOMAIN activities -> [table : DOMAIN tables', active : BOOLEAN]]
      <3>1. \A a \in DOMAIN activities :
              activities[a] \in [table : DOMAIN tables', active : BOOLEAN]
        BY <1>3 DEF IInv, TypeOK
      <3> QED
        BY <3>1 DEF IInv, TypeOK
    <2>2. store' \in [status : {"OPEN", "CLOSE"}, openedAt : 0 .. clock]
      BY <1>1 DEF ManagerRow
    <2>3. overtaken' \subseteq Managers
      BY DEF CommitManager, Overtaken, IInv, TypeOK
    <2>4. overwritten' \in BOOLEAN
      BY DEF CommitManager
    <2> QED
      BY <1>1, <1>3, <2>1, <2>2, <2>3, <2>4 DEF IInv, TypeOK, Tables
  <1>5. Known' = Known /\ Unfinished' = Unfinished
    BY <1>1 DEF Known, Unfinished, ActiveActivities, InLine
  <1>6. ASSUME NEW p \in (Running \cap Guests)' PROVE GuestRow(p)'
    <2>1. p \in Running /\ p \in Guests /\ txn'[p] = txn[p] /\ GuestRow(p)
          /\ LockKey(txn[p].request)' = LockKey(txn[p].request)
          /\ (IsLine(p)' <=> IsLine(p)) /\ (Keeps(p)' <=> Keeps(p))
      BY <1>1, <1>2 DEF IInv, Running, IsLine, Keeps, LockKey
    <2> QED
      BY <1>1, <1>3, <1>5, <2>1 DEF GuestRow
  <1>7. \A m \in (Running \cap Managers)' : txn[m].request.kind = "close" =>
          txn[m].request.seen \cap Unfinished' = {}
    BY <1>2, <1>5 DEF IInv, ClosingSees
  <1> QED
    BY <1>1, <1>2, <1>4, <1>6, <1>7, EndIInv

\* Only a thread without a request enters, and whoever aborts forgets its own.
LEMMA NextIInv == IInv /\ [Next]_vars => IInv'
  <1> SUFFICES ASSUME IInv, [Next]_vars PROVE IInv'
    OBVIOUS
  <1>0. /\ clock \in Nat /\ MaxClock \in Nat /\ clock \in clock .. MaxClock
        /\ store \in [status : {"OPEN", "CLOSE"}, openedAt : 0 .. clock]
    BY StoreDayAssumption DEF IInv, TypeOK
  <1>1. ASSUME NEW r \in Guests, NEW q \in Requests, Enter(r, q) PROVE IInv'
    <2>1. /\ r \in Threads /\ UNCHANGED <<rows, clock, overwritten>>
          /\ overtaken' \subseteq overtaken
          /\ txn' = [txn EXCEPT ![r] = [request |-> q, write |-> Entered]]
      BY <1>1 DEF Enter, Threads, history
    <2>2. /\ txn' = [p \in Threads |-> txn'[p]]
          /\ txn'[r].request = q /\ txn'[r].write = Entered
          /\ \A p \in Threads : p # r => txn'[p] = txn[p]
      BY <2>1 DEF IInv
    <2>3. Running' \subseteq Running \ {r}
      BY <2>2 DEF Running
    <2> QED
      BY <2>1, <2>2, <2>3, UndisturbedIInv DEF GuestRequests
  <1>2. ASSUME NEW r \in Threads, Abort(r) PROVE IInv'
    <2>1. /\ UNCHANGED <<rows, clock, overwritten>> /\ overtaken' \subseteq overtaken
          /\ txn' = [txn EXCEPT ![r] = Idle]
      BY <1>2 DEF Abort
    <2>2. /\ txn' = [p \in Threads |-> txn'[p]] /\ txn'[r] = Idle
          /\ \A p \in Threads : p # r => txn'[p] = txn[p]
      BY <2>1 DEF IInv
    <2>3. Running' \subseteq Running \ {r}
      BY <2>2 DEF Running
    <2> QED
      BY <2>1, <2>2, <2>3, UndisturbedIInv
  <1>3. ASSUME NEW r \in Managers, Open(r) PROVE IInv'
    <2>1. /\ clock' = clock + 1 /\ clock < MaxClock
          /\ Manage(r, [kind |-> "open"], [status |-> "OPEN", openedAt |-> clock + 1])
      BY <1>3 DEF Open
    <2>2. /\ clock' \in clock .. MaxClock /\ clock + 1 \in 0 .. clock'
          /\ clock + 1 \in 1 .. clock'
      BY <1>0, <2>1
    <2> QED
      BY <2>1, <2>2, ManageIInv
  <1>4. ASSUME NEW r \in Managers, Close(r) PROVE IInv'
    <2>1. /\ clock' = clock /\ Unfinished = {}
          /\ Manage(r, [kind |-> "close", seen |-> Known], [store EXCEPT !.status = "CLOSE"])
      BY <1>4 DEF Close
    <2>2. [store EXCEPT !.status = "CLOSE"]
            \in [status : {"OPEN", "CLOSE"}, openedAt : 0 .. clock']
      BY <1>0, <2>1
    <2> QED
      BY <1>0, <2>1, <2>2, ManageIInv
  <1>5. ASSUME NEW r \in Managers, Update(r) PROVE IInv'
    <2>1. clock' = clock /\ Manage(r, [kind |-> "update"], store)
      BY <1>5 DEF Update
    <2> QED
      BY <1>0, <2>1, ManageIInv
  <1>6. CASE UNCHANGED vars
    <2>1. /\ store' = store /\ tables' = tables /\ activities' = activities
          /\ waitings' = waitings /\ clock' = clock /\ txn' = txn
          /\ overtaken' = overtaken /\ overwritten' = overwritten
      BY <1>6 DEF vars, rows, history
    <2>2. TypeOK' /\ Running' = Running
      BY <2>1 DEF IInv, TypeOK, Tables, Running
    <2>3. \A r \in Guests : GuestRow(r) => GuestRow(r)'
      BY <2>1 DEF IsLine, Keeps, GuestRow, LockKey, Known, Unfinished, ActiveActivities, InLine
    <2>4. \A r \in Managers : /\ ManagerRow(r) => ManagerRow(r)'
                              /\ ClosingSees(r) => ClosingSees(r)'
      BY <2>1, <2>2 DEF ManagerRow, ClosingSees, IsLine, Keeps, LockKey,
                        Unfinished, ActiveActivities, InLine
    <2> QED
      BY <2>1, <2>2, <2>3, <2>4 DEF IInv
  <1>7. CASE Next
    BY <1>1, <1>2, <1>3, <1>4, <1>5, <1>7, SeatIInv, PayOrSettleIInv, RegisterIInv,
       CallOrLeaveIInv, CommitGuestIInv, CommitManagerIInv DEF Next
  <1> QED
    BY <1>6, <1>7

\* The induction: what every transaction is about to write fits the rows.
THEOREM SpecIInv == Spec => []IInv
  BY InitIInv, NextIInv, PTL DEF Spec

\* Rows refer to tables that were made and were created in the past, whatever
\* is committed in between.
THEOREM TypeCorrect == Spec => []TypeOK
  <1>1. IInv => TypeOK
    BY DEF IInv
  <1> QED
    BY <1>1, SpecIInv, PTL

\* Nothing that existed when a closing looked is unfinished when it commits:
\* the keys of tables and lines keep stale rows from being written back
\* (StoreValidateService.checkPossibleClose, @DistributedLock).
THEOREM ClosingFinishes == Spec => CloseLeavesNothingSeen
  <1>1. ASSUME IInv, NEW r \in Managers, CommitManager(r), txn[r].request.kind = "close"
        PROVE  txn[r].request.seen \cap Unfinished' = {}
    <2>1. Unfinished' = Unfinished
      BY <1>1 DEF CommitManager, Unfinished, ActiveActivities, InLine
    <2> QED
      BY <1>1, <2>1 DEF IInv, CommitManager, ClosingSees
  <1>2. IInv => \A r \in Managers :
                  CommitManager(r) /\ txn[r].request.kind = "close" =>
                    txn[r].request.seen \cap Unfinished' = {}
    BY <1>1
  <1> QED
    BY <1>2, SpecIInv, PTL DEF CloseLeavesNothingSeen

-----------------------------------------------------------------------------
(* Managers beside each other.                                              *)

\* A manager's transaction is still about the store as it is.
StillStands(r) ==
    /\ txn[r].request.kind = "open" =>
         store.status = "CLOSE" /\ txn[r].write.status = "OPEN"
    /\ txn[r].request.kind = "close" =>
         store.status = "OPEN" /\ txn[r].write.status = "CLOSE"
    /\ txn[r].request.kind = "update" => txn[r].write = store

DayInv ==
    /\ TablesOfTheDay
    /\ \A r \in (Running \cap Managers) \ overtaken : StillStands(r)

\* A manager starts from the store as it is.
LEMMA ManageDayInv ==
  ASSUME IInv, DayInv, NEW r \in Managers, NEW q, NEW row, Manage(r, q, row),
         q.kind = "open" => store.status = "CLOSE" /\ row.status = "OPEN",
         q.kind = "close" => store.status = "OPEN" /\ row.status = "CLOSE",
         q.kind = "update" => row = store
  PROVE  DayInv'
  <1>1. /\ txn' = [txn EXCEPT ![r] = [request |-> q, write |-> row]]
        /\ store' = store /\ tables' = tables
        /\ overtaken' = overtaken /\ overwritten' = overwritten
    BY DEF Manage, rows, history
  <1>2. /\ txn'[r].request = q /\ txn'[r].write = row
        /\ \A p \in Managers : p # r => txn'[p] = txn[p]
    BY <1>1 DEF IInv, Threads
  <1>3. TablesOfTheDay'
    BY <1>1 DEF DayInv, TablesOfTheDay, ActiveTables
  <1>4. ASSUME NEW p \in ((Running \cap Managers) \ overtaken)' PROVE StillStands(p)'
    <2>1. CASE p = r
      BY <1>1, <1>2, <2>1 DEF StillStands
    <2>2. CASE p # r
      <3>1. p \in (Running \cap Managers) \ overtaken /\ txn'[p] = txn[p]
        BY <1>1, <1>2, <2>2 DEF Running
      <3> QED
        BY <1>1, <3>1 DEF DayInv, StillStands
    <2> QED
      BY <2>1, <2>2
  <1> QED
    BY <1>3, <1>4 DEF DayInv

\* Steps that leave the store and its tables, and end no manager's transaction
\* but by forgetting it.
LEMMA ElsewhereDayInv ==
  ASSUME DayInv, store' = store, tables' = tables, overwritten' = overwritten,
         \A p \in (Running \cap Managers)' :
           /\ p \in Running /\ txn'[p] = txn[p]
           /\ p \in overtaken => p \in overtaken'
  PROVE  DayInv'
  <1>1. TablesOfTheDay'
    BY DEF DayInv, TablesOfTheDay, ActiveTables
  <1>2. \A p \in ((Running \cap Managers) \ overtaken)' : StillStands(p)'
    BY DEF DayInv, StillStands
  <1> QED
    BY <1>1, <1>2 DEF DayInv

\* The step of a guest, or of a thread that aborts.
LEMMA OneDayInv ==
  ASSUME IInv, DayInv, NEW r \in Threads, r \in Guests \/ txn'[r] = Idle, NEW new,
         txn' = [txn EXCEPT ![r] = new], store' = store, tables' = tables,
         overwritten' = overwritten, overtaken \ {r} \subseteq overtaken'
  PROVE  DayInv'
  <1>1. \A p \in (Running \cap Managers)' : p # r
    BY StoreDayAssumption DEF Running
  <1>2. \A p \in (Running \cap Managers)' : txn'[p] = txn[p] /\ p \in Running
    BY <1>1 DEF IInv, Running, Threads
  <1> QED
    BY <1>1, <1>2, ElsewhereDayInv

\* The commit of a manager overtakes every other if it changes the store, and
\* leaves the tables right if it was not overtaken itself.
LEMMA CommitDayInv ==
  ASSUME IInv, DayInv, NEW r \in Managers, CommitManager(r)
  PROVE  DayInv'
  <1> DEFINE row == txn[r].write
             kind == txn[r].request.kind
  <1>1. /\ r \in Running /\ r \in Threads
        /\ store' = row /\ tables' = TablesAfter(txn[r].request, row)
        /\ txn' = [txn EXCEPT ![r] = Idle]
        /\ overtaken' = (overtaken \cup Overtaken(r)) \ {r}
        /\ overwritten' = ((r \in overtaken \/ overwritten) /\ kind # "close")
        /\ ManagerRow(r)
    BY DEF CommitManager, IInv, Threads
  <1>2. txn'[r] = Idle /\ \A p \in Managers \ {r} : txn'[p] = txn[p]
    BY <1>1 DEF IInv, Threads
  <1>3. ASSUME NEW p \in ((Running \cap Managers) \ overtaken)' PROVE StillStands(p)'
    <2>1. p # r /\ p \in Running \cap Managers /\ p \notin overtaken /\ txn'[p] = txn[p]
      BY <1>1, <1>2 DEF Running
    <2>2. store' = store
      BY <1>1, <2>1 DEF Overtaken
    <2> QED
      BY <2>1, <2>2 DEF DayInv, StillStands
  <1>4. ASSUME ~overwritten', kind # "close" PROVE StillStands(r) /\ ~overwritten
    BY <1>1, <1>4 DEF DayInv
  <1>5. CASE overwritten'
    BY <1>3, <1>5 DEF DayInv, TablesOfTheDay
  <1>6. CASE ~overwritten' /\ kind = "open"
    <2>1. tables' = [t \in DOMAIN tables \cup ({row.openedAt} \X Numbers) |->
                       t[1] = row.openedAt \/ tables[t]]
      BY <1>1, <1>6 DEF TablesAfter
    <2>2. store.status = "CLOSE" /\ row.status = "OPEN" /\ ~overwritten
      BY <1>4, <1>6 DEF StillStands
    <2>3. \A t \in DOMAIN tables : ~tables[t]
      BY <2>2 DEF DayInv, TablesOfTheDay, ActiveTables
    <2>4. \A t \in DOMAIN tables : t \in Tables
      BY DEF IInv, TypeOK
    <2>5. \A t \in DOMAIN tables : t[1] = row.openedAt => t \in {row.openedAt} \X Numbers
      BY <2>4 DEF Tables
    <2>6. ActiveTables' = {row.openedAt} \X Numbers
      BY <2>1, <2>3, <2>5 DEF ActiveTables
    <2>7. TablesOfTheDay'
      BY <1>1, <2>2, <2>6 DEF TablesOfTheDay
    <2> QED
      BY <1>3, <2>7 DEF DayInv
  <1>7. CASE kind = "close"
    <2>1. tables' = [t \in DOMAIN tables |-> FALSE] /\ store'.status = "CLOSE"
      BY <1>1, <1>7 DEF TablesAfter, ManagerRow
    <2>2. ActiveTables' = {}
      BY <2>1 DEF ActiveTables
    <2> QED
      BY <1>3, <2>1, <2>2 DEF DayInv, TablesOfTheDay
  <1>8. CASE ~overwritten' /\ kind = "update"
    <2>1. tables' = tables /\ store' = store /\ ~overwritten
      BY <1>1, <1>4, <1>8 DEF TablesAfter, StillStands
    <2>2. TablesOfTheDay'
      BY <2>1 DEF DayInv, TablesOfTheDay, ActiveTables
    <2> QED
      BY <1>3, <2>2 DEF DayInv
  <1> QED
    BY <1>1, <1>5, <1>6, <1>7, <1>8 DEF ManagerRow

\* The tables of the day are kept by every step.
LEMMA NextDayInv ==
  ASSUME IInv, DayInv, [Next]_vars
  PROVE  DayInv'
  <1>1. ASSUME NEW r \in Guests, NEW q \in Requests, Enter(r, q) PROVE DayInv'
    BY <1>1, OneDayInv DEF Enter, rows, history, Threads
  <1>2. ASSUME NEW r \in Guests, NEW q, NEW row, Begin(r, q, row) PROVE DayInv'
    BY <1>2, OneDayInv DEF Begin, rows, history, Threads
  <1>3. ASSUME NEW r \in Guests, Seat(r) PROVE DayInv'
    BY <1>2, <1>3 DEF Seat
  <1>4. ASSUME NEW r \in Guests, PayOff(r) \/ Discount(r) \/ Settle(r) PROVE DayInv'
    BY <1>2, <1>4 DEF PayOff, Discount, Settle
  <1>5. ASSUME NEW r \in Guests, Register(r) PROVE DayInv'
    BY <1>2, <1>5 DEF Register
  <1>6. ASSUME NEW r \in Guests, NEW w \in InLine, CallOrLeave(r, w) PROVE DayInv'
    BY <1>2, <1>6 DEF CallOrLeave
  <1>7. ASSUME NEW r \in Guests, CommitGuest(r) PROVE DayInv'
    BY <1>7, OneDayInv DEF CommitGuest, history, Threads
  <1>8. ASSUME NEW r \in Managers, Open(r) PROVE DayInv'
    BY <1>8, ManageDayInv DEF Open
  <1>9. ASSUME NEW r \in Managers, Close(r) PROVE DayInv'
    <2>1. [store EXCEPT !.status = "CLOSE"].status = "CLOSE"
      BY DEF IInv, TypeOK
    <2> QED
      BY <1>9, <2>1, ManageDayInv DEF Close
  <1>10. ASSUME NEW r \in Managers, Update(r) PROVE DayInv'
    BY <1>10, ManageDayInv DEF Update
  <1>11. ASSUME NEW r \in Threads, Abort(r) PROVE DayInv'
    <2>1. /\ txn' = [txn EXCEPT ![r] = Idle] /\ store' = store /\ tables' = tables
          /\ overwritten' = overwritten /\ overtaken' = overtaken \ {r}
      BY <1>11 DEF Abort, rows
    <2>2. txn'[r] = Idle
      BY <2>1 DEF IInv
    <2> QED
      BY <2>1, <2>2, OneDayInv
  <1>12. CASE UNCHANGED vars
    <2>1. /\ store' = store /\ tables' = tables /\ txn' = txn
          /\ overwritten' = overwritten /\ overtaken' = overtaken
      BY <1>12 DEF vars, rows, history
    <2> QED
      BY <2>1, ElsewhereDayInv DEF Running
  <1>13. CASE Next
    BY <1>1, <1>3, <1>4, <1>5, <1>6, <1>7, <1>8, <1>9, <1>10, <1>11, <1>13,
       CommitDayInv DEF Next
  <1> QED
    BY <1>12, <1>13

\* However many managers open, close and edit the store at once, an open store
\* has exactly the tables of its last opening, one of each number, and a closed
\* store has none, until one of them commits the row it read before another
\* changed the store; and the next closing puts it right again
\* (StoreOpenEventHandler, StoreCloseEventHandler).
THEOREM OnlyTablesOfTheDay == Spec => []TablesOfTheDay
  <1>1. Init => DayInv
    BY DEF Init, DayInv, TablesOfTheDay, ActiveTables, Running
  <1>2. IInv /\ DayInv /\ [Next]_vars => DayInv'
    BY NextDayInv
  <1>3. DayInv => TablesOfTheDay
    BY DEF DayInv
  <1> QED
    BY <1>1, <1>2, <1>3, SpecIInv, PTL DEF Spec

=============================================================================
