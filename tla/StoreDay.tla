------------------------------ MODULE StoreDay ------------------------------
(***************************************************************************)
(* The days of one store.  Managers (the POS, and the owner) open it, which *)
(* makes the tables of the day, close it, which ends them, and edit it; its *)
(* guests and staff sit down at the tables, settle, and stand in line.      *)
(* Managers take no lock.  Guests are let in by a check of the store that   *)
(* comes before their own transaction.  Every transaction reads a snapshot  *)
(* and writes whole rows when it commits.                                   *)
(*                                                                          *)
(* A table is identified by its number and the opening that made it; an     *)
(* activity and a waiting by the instant they were created at.  What is     *)
(* ordered and paid is left to PosTables, moves of activities and the        *)
(* refund, which locks no table, to TableTransactions.                       *)
(***************************************************************************)
EXTENDS Naturals, FiniteSets

CONSTANTS
    Managers,   \* request threads that open, close or edit the store
    Guests,     \* request threads of its tables and its waiting line
    Numbers,    \* table numbers: of the table devices and the extra tables
    Unkeyed,    \* the lock key of a method without a table number
    Line,       \* the lock key of the waiting line
    Idle,       \* the state of a thread with no request
    Entered,    \* the write of a request that did not begin its transaction
    MaxClock    \* bound on the openings, activities and waitings ever

ASSUME StoreDayAssumption ==
    /\ Unkeyed \notin Numbers /\ Line \notin Numbers /\ Unkeyed # Line
    /\ Managers \cap Guests = {}
    /\ MaxClock \in Nat

VARIABLES
    store,       \* the committed row of the store
    tables,      \* whether each table made so far is active
    activities,  \* the committed rows of the activities
    waitings,    \* the committed rows: whether each is still in line
    clock,       \* the last instant
    txn,         \* per thread: the request and what its commit writes
    overtaken,   \* history: the managers at work since before the store changed
    overwritten  \* history: one of them wrote its row over the change, and no
                 \* closing put the tables right since

rows == <<store, tables, activities, waitings>>
history == <<overtaken, overwritten>>
vars == <<store, tables, activities, waitings, clock, txn, history>>

Threads == Managers \cup Guests
Tables == (1 .. MaxClock) \X Numbers

Init ==
    /\ store = [status |-> "CLOSE", openedAt |-> 0]
    /\ tables = [t \in {} |-> TRUE]
    /\ activities = [a \in {} |-> a]
    /\ waitings = [w \in {} |-> w]
    /\ clock = 0
    /\ txn = [r \in Threads |-> Idle]
    /\ overtaken = {} /\ overwritten = FALSE

-----------------------------------------------------------------------------
(* What the queries find.                                                   *)

ActiveTables == {t \in DOMAIN tables : tables[t]}

TablesNumbered(no) == {t \in ActiveTables : t[2] = no}

ActiveActivities == {a \in DOMAIN activities : activities[a].active}

\* Those a device finds, by the table number written on them.
ActivitiesNumbered(no) == {a \in ActiveActivities : activities[a].table[2] = no}

\* Those the POS finds, by the one active table with that number.
ActivitiesAt(no) ==
    {a \in ActiveActivities :
       Cardinality(TablesNumbered(no)) = 1 /\ activities[a].table \in TablesNumbered(no)}

InLine == {w \in DOMAIN waitings : waitings[w].inLine}

\* Every row made so far, and what a store has to finish before it closes.
Known == DOMAIN activities \cup DOMAIN waitings

Unfinished == ActiveActivities \cup InLine

-----------------------------------------------------------------------------
(* Requests and their transactions.                                         *)

Requests ==
    [kind : {"order", "pay", "settle"}, no : Numbers] \cup [kind : {"register"}]

\* Mutant: the key of the POS names no parameter of its methods.
LockKeyUnnamed(q) ==
    CASE q.kind \in {"order", "settle"} -> Unkeyed
      [] q.kind = "pay" -> q.no
      [] q.kind \in {"register", "line"} -> Line

LockKey(q) ==
    CASE q.kind = "order" -> Unkeyed
      [] q.kind \in {"pay", "settle"} -> q.no
      [] q.kind \in {"register", "line"} -> Line

Running == {r \in Threads : txn[r] # Idle /\ txn[r].write # Entered}

IsFree(key) == \A r \in Running \cap Guests : LockKey(txn[r].request) # key

\* The aspect lets a request of a device in while the store is open.
Enter(r, q) ==
    /\ txn[r] = Idle
    /\ store.status # "CLOSE"
    /\ txn' = [txn EXCEPT ![r] = [request |-> q, write |-> Entered]]
    /\ UNCHANGED <<rows, clock, history>>

\* The request q of thread r, its locks taken, has found out what to write.
Begin(r, q, row) ==
    /\ IsFree(LockKey(q))
    /\ txn' = [txn EXCEPT ![r] = [request |-> q, write |-> row]]
    /\ UNCHANGED <<rows, history>>

\* Thread r waits to begin a request of this kind.
Waits(r, kind) ==
    txn[r] # Idle /\ txn[r].write = Entered /\ txn[r].request.kind = kind

\* An order or a payment on a table without an activity opens one.
Seat(r) ==
    /\ Waits(r, "order") \/ Waits(r, "pay")
    /\ LET q == txn[r].request
       IN  /\ ActivitiesNumbered(q.no) = {}
           /\ \E t \in TablesNumbered(q.no) :
                /\ Cardinality(TablesNumbered(q.no)) = 1
                /\ clock < MaxClock
                /\ Begin(r, q, [id |-> clock + 1, row |-> [table |-> t, active |-> TRUE]])
    /\ clock' = clock + 1

\* The payment that pays off an activity closes it.
PayOff(r) ==
    /\ Waits(r, "pay")
    /\ LET q == txn[r].request
       IN  \E a \in ActivitiesNumbered(q.no) :
             Begin(r, q, [id |-> a, row |-> [activities[a] EXCEPT !.active = FALSE]])
    /\ UNCHANGED clock

\* The POS gives a discount: the row goes back as it was read, still active.
Discount(r) ==
    /\ Waits(r, "settle")
    /\ LET q == txn[r].request
       IN  \E a \in ActivitiesAt(q.no) : Begin(r, q, [id |-> a, row |-> activities[a]])
    /\ UNCHANGED clock

\* The POS completes an activity, or cancels its last order.
Settle(r) ==
    /\ Waits(r, "settle")
    /\ LET q == txn[r].request
       IN  \E a \in ActivitiesAt(q.no) :
             Begin(r, q, [id |-> a, row |-> [activities[a] EXCEPT !.active = FALSE]])
    /\ UNCHANGED clock

Register(r) ==
    /\ Waits(r, "register")
    /\ clock < MaxClock
    /\ Begin(r, txn[r].request, [id |-> clock + 1, row |-> [inLine |-> TRUE]])
    /\ clock' = clock + 1

\* A guest is called (and stays in line), is seated, or cancels: no check of
\* the store comes first.
CallOrLeave(r, w) ==
    /\ txn[r] = Idle
    /\ w \in InLine
    /\ \E stays \in BOOLEAN :
         Begin(r, [kind |-> "line"], [id |-> w, row |-> [inLine |-> stays]])
    /\ UNCHANGED clock

-----------------------------------------------------------------------------
(* The managers.  A closing keeps, for its property, what existed when it    *)
(* read.                                                                    *)

Manage(r, q, row) ==
    /\ txn[r] = Idle
    /\ txn' = [txn EXCEPT ![r] = [request |-> q, write |-> row]]
    /\ UNCHANGED <<rows, history>>

Open(r) ==
    /\ store.status = "CLOSE"
    /\ clock < MaxClock
    /\ Manage(r, [kind |-> "open"], [status |-> "OPEN", openedAt |-> clock + 1])
    /\ clock' = clock + 1

Close(r) ==
    /\ Unfinished = {}
    /\ store.status = "OPEN"
    /\ Manage(r, [kind |-> "close", seen |-> Known], [store EXCEPT !.status = "CLOSE"])
    /\ UNCHANGED clock

\* Editing a store writes its whole row as it was read.
Update(r) == Manage(r, [kind |-> "update"], store) /\ UNCHANGED clock

-----------------------------------------------------------------------------
(* The ends of transactions.                                                *)

Put(f, x, y) == [z \in DOMAIN f \cup {x} |-> IF z = x THEN y ELSE f[z]]

\* Mutant: only the tables of the numbers in use are ended.
TablesAfterPartly(q, row) ==
    CASE q.kind = "open" ->
           [t \in DOMAIN tables \cup ({row.openedAt} \X Numbers) |->
              t[1] = row.openedAt \/ tables[t]]
      [] q.kind = "close" ->
           [t \in DOMAIN tables |->
              tables[t] /\ \A a \in DOMAIN activities : activities[a].table # t]
      [] q.kind = "update" -> tables

\* Before it commits, an opening inserts a table for each number and a
\* closing ends, in one statement, every table that is active by then.
TablesAfter(q, row) ==
    CASE q.kind = "open" ->
           [t \in DOMAIN tables \cup ({row.openedAt} \X Numbers) |->
              t[1] = row.openedAt \/ tables[t]]
      [] q.kind = "close" -> [t \in DOMAIN tables |-> FALSE]
      [] q.kind = "update" -> tables

\* The managers at work who did not see the change that r makes to the store.
Overtaken(r) == IF txn[r].write = store THEN {} ELSE Running \cap Managers

CommitManager(r) ==
    /\ r \in Running \cap Managers
    /\ store' = txn[r].write
    /\ tables' = TablesAfter(txn[r].request, txn[r].write)
    /\ txn' = [txn EXCEPT ![r] = Idle]
    /\ overtaken' = (overtaken \cup Overtaken(r)) \ {r}
    /\ overwritten' = ((r \in overtaken \/ overwritten) /\ txn[r].request.kind # "close")
    /\ UNCHANGED <<activities, waitings, clock>>

CommitGuest(r) ==
    /\ r \in Running \cap Guests
    /\ LET write == txn[r].write
       IN  IF LockKey(txn[r].request) = Line
             THEN /\ waitings' = Put(waitings, write.id, write.row)
                  /\ UNCHANGED activities
             ELSE /\ activities' = Put(activities, write.id, write.row)
                  /\ UNCHANGED waitings
    /\ txn' = [txn EXCEPT ![r] = Idle]
    /\ UNCHANGED <<store, tables, clock, history>>

\* The request is refused, fails, or has nothing to change here.
Abort(r) ==
    /\ txn[r] # Idle
    /\ txn' = [txn EXCEPT ![r] = Idle]
    /\ overtaken' = overtaken \ {r}
    /\ UNCHANGED <<rows, clock, overwritten>>

Next ==
    \/ \E r \in Guests :
         \/ \E q \in Requests : Enter(r, q)
         \/ Seat(r) \/ PayOff(r) \/ Discount(r) \/ Settle(r) \/ Register(r)
         \/ \E w \in InLine : CallOrLeave(r, w)
         \/ CommitGuest(r)
    \/ \E r \in Managers : Open(r) \/ Close(r) \/ Update(r) \/ CommitManager(r)
    \/ \E r \in Threads : Abort(r)

Spec == Init /\ [][Next]_vars

-----------------------------------------------------------------------------
(* Correctness.                                                             *)

\* Rows refer to tables that were made, and were created in the past.
TypeOK ==
    /\ store \in [status : {"OPEN", "CLOSE"}, openedAt : 0 .. clock]
    /\ clock \in 0 .. MaxClock
    /\ tables \in [DOMAIN tables -> BOOLEAN] /\ DOMAIN tables \subseteq Tables
    /\ activities \in [DOMAIN activities -> [table : DOMAIN tables, active : BOOLEAN]]
    /\ waitings \in [DOMAIN waitings -> [inLine : BOOLEAN]]
    /\ DOMAIN activities \cup DOMAIN waitings \subseteq 1 .. clock
    /\ DOMAIN activities \cap DOMAIN waitings = {}
    /\ overtaken \subseteq Managers /\ overwritten \in BOOLEAN

\* An open store has exactly the tables of its last opening, one of each
\* number, and a closed store has none: looking a number up neither fails nor
\* finds a table of another day.  Managers who open, close and edit the store
\* at once take this away only when one commits the row it read before another
\* changed the store, and a closing gives it back.
TablesOfTheDay ==
    overwritten \/
      ActiveTables = IF store.status = "OPEN" THEN {store.openedAt} \X Numbers ELSE {}

\* Without the exception, which TLC refutes with two openings at once: a table
\* number belongs to one active table.
EachNumberOnce == \A no \in Numbers : Cardinality(TablesNumbered(no)) <= 1

\* Nothing that existed when a closing looked is unfinished when it commits: it
\* found all of it finished (StoreValidateService.checkPossibleClose), and no
\* request that had read a row before brings it back.
CloseLeavesNothingSeen ==
    [][\A r \in Managers :
         CommitManager(r) /\ txn[r].request.kind = "close" =>
           txn[r].request.seen \cap Unfinished' = {}]_vars

\* While the store is open, whatever keeps it from closing is where its staff
\* can see and finish it: an activity on an active table, a guest of today.
BlockersInSight ==
    store.status = "OPEN" =>
      /\ \A a \in ActiveActivities : activities[a].table \in ActiveTables
      /\ \A w \in InLine : w > store.openedAt

=============================================================================
