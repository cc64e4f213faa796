------------------------------ MODULE MenuBoard ------------------------------
(***************************************************************************)
(* The menu board of one store: its categories and their menus, in the      *)
(* order of their positions.  CategoryModifyService and MenuModifyService   *)
(* run every request under the lock storeId-menu, in a transaction that     *)
(* reads a snapshot, writes whole rows and, for a move, shifts all rows of   *)
(* the table from the new position on in one bulk update.                   *)
(*                                                                          *)
(* Categories and menus are treated alike: the parent of a category is the  *)
(* store.  Names, prices, options and images are left out: a write-back     *)
(* with other contents leaves parent and position as they were read.        *)
(*                                                                          *)
(* The lock has a lease of a second, which a request may outlive, above all *)
(* one that converts and uploads an image.                                  *)
(***************************************************************************)
EXTENDS Naturals, FiniteSets

CONSTANTS
    Threads,       \* request threads
    Store,         \* the store, parent of its categories
    Categories,    \* ids of categories
    Menus,         \* ids of menus
    Idle,          \* the state of a thread that runs no transaction
    MaxCategories, \* of the store (30 in the code)
    MaxMenus,      \* of a category (50 in the code)
    MaxPosition    \* bound on the positions in the model

ASSUME BoardAssumption ==
    /\ Store \notin Categories \cup Menus /\ Categories \cap Menus = {}
    /\ MaxCategories \in Nat /\ MaxMenus \in Nat /\ MaxPosition \in Nat

VARIABLES
    rows,          \* the committed categories and menus
    txn,           \* per thread: what its transaction writes when it commits
    late,          \* threads whose lock lapsed under their transaction
    lateCommit     \* history: whether a late transaction ever committed

vars == <<rows, txn, late, lateCommit>>

Items == Categories \cup Menus

Table(i) == IF i \in Categories THEN Categories ELSE Menus

Places == {"PREV", "NEXT"}

Row == [parent : Categories \cup {Store}, position : Nat]

Init ==
    /\ rows = [i \in {} |-> i]
    /\ txn = [t \in Threads |-> Idle]
    /\ late = {}
    /\ lateCommit = FALSE

-----------------------------------------------------------------------------
(* What the queries find.                                                   *)

Children(p) == {i \in DOMAIN rows : rows[i].parent = p}

Siblings(i, j) == Table(i) = Table(j) /\ rows[i].parent = rows[j].parent

\* Mutant: counts the children.
IsNumberOfChildren(p, last) == last = Cardinality(Children(p))

\* The position of the last child of parent p is last, or p has none.
IsLastPosition(p, last) ==
    /\ last \in {0} \cup {rows[i].position : i \in Children(p)}
    /\ \A i \in Children(p) : rows[i].position <= last

MaxChildren(p) == IF p = Store THEN MaxCategories ELSE MaxMenus

-----------------------------------------------------------------------------
(* Transactions.                                                            *)

Running == {t \in Threads : txn[t] # Idle}

\* Mutant: no lock.
NoLock == TRUE

\* Nobody holds the lock storeId-menu.
LockIsFree == Running \subseteq late

\* A job: what is done, the item whose row is saved (or none) and that row,
\* whether the rows from its position on are shifted, the items deleted, and
\* the item a move aims at (the store, when there is none).
Job == [do : {"create", "update", "delete", "deleteAll"} \cup Places,
        saved : SUBSET Items, row : Row, shifts : BOOLEAN,
        gone : SUBSET Items, target : Items \cup {Store}]

Saving(do, i, row) ==
    [do |-> do, saved |-> {i}, row |-> row, shifts |-> FALSE, gone |-> {}, target |-> i]

Removing(do, S) ==
    [do |-> do, saved |-> {}, row |-> [parent |-> Store, position |-> 0],
     shifts |-> FALSE, gone |-> S, target |-> Store]

Begin(t, job) ==
    /\ txn[t] = Idle
    /\ LockIsFree
    /\ txn' = [txn EXCEPT ![t] = job]
    /\ UNCHANGED <<rows, late, lateCommit>>

Create(t, i, p) ==
    /\ i \notin DOMAIN rows
    /\ i \in Categories <=> p = Store
    /\ p # Store => p \in DOMAIN rows
    /\ Cardinality(Children(p)) < MaxChildren(p)
    /\ \E last \in 0 .. MaxPosition - 1 :
         /\ IsLastPosition(p, last)
         /\ Begin(t, Saving("create", i, [parent |-> p, position |-> last + 1]))

\* New contents for a category or a menu.
Update(t, i) == Begin(t, Saving("update", i, rows[i]))

\* Mutant: always in front.
MovedInFront(j, where) == rows[j].position

\* Where an item goes: to the position of item j, or to the one after it.
Moved(j, where) ==
    IF where = "PREV" THEN rows[j].position ELSE rows[j].position + 1

MovePosition(t, i, j, where) ==
    /\ Table(i) = Table(j)
    /\ Moved(j, where) <= MaxPosition
    /\ \A k \in (Table(i) \cap DOMAIN rows) \ {i} :
         rows[k].position < MaxPosition \/ rows[k].position < Moved(j, where)
    /\ Begin(t, [Saving(where, i, [rows[i] EXCEPT !.position = Moved(j, where)]) EXCEPT
                   !.shifts = rows[i].position # Moved(j, where),
                   !.target = j])

Delete(t, i) == Begin(t, Removing("delete", {i}))

DeleteAll(t, S) == Begin(t, Removing("deleteAll", S))

\* A row that a transaction updates, or deletes one by one, must still be
\* there, and so must the parent of a row it writes.
Feasible(job) ==
    /\ \A i \in job.saved :
         /\ i \in DOMAIN rows <=> job.do # "create"
         /\ job.row.parent \in DOMAIN rows \cup {Store}
    /\ job.do = "delete" => job.gone \subseteq DOMAIN rows

\* Mutant: the row at the new position stays.
ShiftPositionBehind(job, i) ==
    IF /\ job.shifts
       /\ \E s \in job.saved : Table(i) = Table(s)
       /\ rows[i].position > job.row.position
    THEN [rows[i] EXCEPT !.position = @ + 1]
    ELSE rows[i]

\* The bulk update of a move, as it leaves row i.
ShiftPosition(job, i) ==
    IF /\ job.shifts
       /\ \E s \in job.saved : Table(i) = Table(s)
       /\ rows[i].position >= job.row.position
    THEN [rows[i] EXCEPT !.position = @ + 1]
    ELSE rows[i]

\* The rows left by the deletions; the menus of a category go with it.
Kept(job) == {i \in DOMAIN rows : i \notin job.gone /\ rows[i].parent \notin job.gone}

RowsAfter(job) ==
    [i \in Kept(job) \cup job.saved |->
       IF i \in job.saved THEN job.row ELSE ShiftPosition(job, i)]

Commit(t) ==
    /\ t \in Running
    /\ Feasible(txn[t])
    /\ rows' = RowsAfter(txn[t])
    /\ txn' = [txn EXCEPT ![t] = Idle]
    /\ lateCommit' = (lateCommit \/ t \in late)
    /\ late' = late \ {t}

\* Refused by the database, or the server fails before the commit.
Rollback(t) ==
    /\ t \in Running
    /\ txn' = [txn EXCEPT ![t] = Idle]
    /\ late' = late \ {t}
    /\ UNCHANGED <<rows, lateCommit>>

\* The lease of the lock lapses before the transaction is done.
Lapse(t) ==
    /\ t \in Running
    /\ late' = late \cup {t}
    /\ UNCHANGED <<rows, txn, lateCommit>>

Request(t) ==
    \/ \E i \in Items, p \in Categories \cup {Store} : Create(t, i, p)
    \/ \E i \in DOMAIN rows : Update(t, i) \/ Delete(t, i)
    \/ \E i, j \in DOMAIN rows, where \in Places : MovePosition(t, i, j, where)
    \/ \E S \in (SUBSET (Menus \cap DOMAIN rows)) \ {{}} : DeleteAll(t, S)

Next == \E t \in Threads : Request(t) \/ Commit(t) \/ Rollback(t) \/ Lapse(t)

Spec == Init /\ [][Next]_vars

-----------------------------------------------------------------------------
(* Correctness.                                                             *)

\* Rows are well typed and every menu has its category.
TypeOK ==
    /\ DOMAIN rows \subseteq Items
    /\ rows \in [DOMAIN rows -> Row]
    /\ \A i \in DOMAIN rows :
         IF i \in Categories THEN rows[i].parent = Store ELSE rows[i].parent \in DOMAIN rows
    /\ DOMAIN txn = Threads
    /\ \A t \in Running : txn[t] \in Job
    /\ late \subseteq Running
    /\ lateCommit \in BOOLEAN

\* No two categories of the store, and no two menus of a category, have the
\* same position: their order is never left to their ids, unless a
\* transaction committed after its lock lapsed.
PositionsDistinct ==
    lateCommit \/
    \A i, j \in DOMAIN rows :
        Siblings(i, j) /\ rows[i].position = rows[j].position => i = j

\* Store and categories keep their limits, unless a transaction committed
\* after its lock lapsed.
LimitsKept ==
    lateCommit \/
    \A p \in Categories \cup {Store} : Cardinality(Children(p)) <= MaxChildren(p)

Before(i, j) == Siblings(i, j) /\ rows[i].position < rows[j].position

\* A step moves one item at most past the others: all others that are there
\* before and after keep their order, and one that is new comes last.
OneItemMoves ==
    [][~lateCommit' =>
         /\ \E m \in Items \cup {Store} : \A i, j \in (DOMAIN rows \cap DOMAIN rows') \ {m} :
              Before(i, j) <=> Before(i, j)'
         /\ \A i \in DOMAIN rows' \ DOMAIN rows : \A j \in DOMAIN rows' : ~Before(i, j)']_vars

\* A move puts its item directly before or after its target, in front of and
\* behind no other item of their parent.
MovedBeside ==
    [][\A t \in Running : \A i \in txn[t].saved, j \in {txn[t].target} :
         /\ Commit(t) /\ ~lateCommit' /\ txn[t].do \in Places
         /\ i # j /\ Siblings(i, j)
         => /\ IF txn[t].do = "PREV" THEN Before(i, j)' ELSE Before(j, i)'
            /\ \A k \in DOMAIN rows' \ {i, j} : Before(k, i)' <=> Before(k, j)']_vars

=============================================================================
