-------------------------- MODULE MenuBoardProofs --------------------------
(***************************************************************************)
(* Proofs about MenuBoard, for any threads, categories, menus and limits:   *)
(* positions stay distinct, limits are kept, one item moves at a time and   *)
(* it ends beside its target, as long as no transaction outlives its lock.  *)
(***************************************************************************)
EXTENDS MenuBoard, FiniteSetTheorems, TLAPS

Removals == {"delete", "deleteAll"}

\* What a job is whatever became of the board since it began.
Shaped(job) ==
    /\ job \in Job
    /\ \A i, j \in job.saved : i = j
    /\ job.shifts => job.do \in Places
    /\ job.do \in Removals => job.saved = {}
    /\ job.do \notin Removals => job.gone = {}
    /\ \A i \in job.saved : i \in Categories <=> job.row.parent = Store

\* What a job is as long as the board is as it was when it began.
Fresh(job) ==
    \A i \in job.saved :
       /\ job.do = "create" =>
            /\ \A j \in Children(job.row.parent) : rows[j].position < job.row.position
            /\ Cardinality(Children(job.row.parent)) < MaxChildren(job.row.parent)
       /\ job.do = "update" => i \in DOMAIN rows /\ job.row = rows[i]
       /\ job.do \in Places =>
            /\ i \in DOMAIN rows /\ job.row.parent = rows[i].parent
            /\ job.target \in DOMAIN rows /\ Table(i) = Table(job.target)
            /\ job.row.position = Moved(job.target, job.do)
            /\ job.shifts <=> rows[i].position # job.row.position

\* One transaction at most holds the lock.
OneHolder == \A t, u \in Running \ late : t = u

\* The inductive invariant.
IInv ==
    /\ TypeOK /\ IsFiniteSet(DOMAIN rows)
    /\ \A t \in Running : Shaped(txn[t])
    /\ OneHolder
    /\ PositionsDistinct /\ LimitsKept
    /\ ~lateCommit => \A t \in Running \ late : Fresh(txn[t])

-----------------------------------------------------------------------------
(* What the requests set out to do.                                         *)

\* The job of a request has its shape and fits the board it was read from.
LEMMA RequestJob ==
  ASSUME TypeOK, NEW t \in Threads, Request(t)
  PROVE  \E job : Begin(t, job) /\ Shaped(job) /\ Fresh(job)
  <1>1. ASSUME NEW i \in Items, NEW p \in Categories \cup {Store}, Create(t, i, p)
        PROVE  \E job : Begin(t, job) /\ Shaped(job) /\ Fresh(job)
    <2>1. PICK last \in 0 .. MaxPosition - 1 :
            /\ IsLastPosition(p, last)
            /\ Begin(t, Saving("create", i, [parent |-> p, position |-> last + 1]))
      BY <1>1 DEF Create
    <2>2. PICK job : /\ job = Saving("create", i, [parent |-> p, position |-> last + 1])
                     /\ Begin(t, job)
      BY <2>1
    <2>3. last \in Nat /\ last + 1 \in Nat
      BY BoardAssumption
    <2>4. /\ job.do = "create" /\ job.saved = {i} /\ ~job.shifts /\ job.gone = {}
          /\ job.row.parent = p /\ job.row.position = last + 1
      BY <2>2 DEF Saving
    <2>5. Shaped(job)
      <3>1. job \in Job
        BY <2>2, <2>3 DEF Saving, Job, Row
      <3>2. i \in Categories <=> p = Store
        BY <1>1 DEF Create
      <3>3. QED
        BY <2>4, <3>1, <3>2 DEF Shaped, Removals
    <2>6. \A j \in Children(p) : rows[j].position < last + 1
      <3>1. \A j \in Children(p) : rows[j].position \in Nat
        BY DEF TypeOK, Children, Row
      <3>2. QED
        BY <2>1, <2>3, <3>1 DEF IsLastPosition
    <2>7. Cardinality(Children(p)) < MaxChildren(p)
      BY <1>1 DEF Create
    <2>8. Fresh(job)
      BY <2>4, <2>6, <2>7 DEF Fresh, Places
    <2>9. QED
      BY <2>2, <2>5, <2>8
  <1>2. ASSUME NEW i \in DOMAIN rows, Update(t, i)
        PROVE  \E job : Begin(t, job) /\ Shaped(job) /\ Fresh(job)
    <2>1. PICK job : job = Saving("update", i, rows[i]) /\ Begin(t, job)
      BY <1>2 DEF Update
    <2>2. /\ job.do = "update" /\ job.saved = {i} /\ ~job.shifts /\ job.gone = {}
          /\ job.row = rows[i]
      BY <2>1 DEF Saving
    <2>3. i \in Items /\ rows[i] \in Row /\ (i \in Categories <=> rows[i].parent = Store)
      BY BoardAssumption DEF TypeOK, Row, Items
    <2>4. job \in Job
      BY <2>1, <2>3 DEF Saving, Job
    <2>5. QED
      BY <2>1, <2>2, <2>3, <2>4 DEF Shaped, Fresh, Removals, Places
  <1>3. ASSUME NEW i \in DOMAIN rows, NEW j \in DOMAIN rows, NEW where \in Places,
               MovePosition(t, i, j, where)
        PROVE  \E job : Begin(t, job) /\ Shaped(job) /\ Fresh(job)
    <2>1. PICK job :
            /\ job = [Saving(where, i, [rows[i] EXCEPT !.position = Moved(j, where)]) EXCEPT
                        !.shifts = rows[i].position # Moved(j, where), !.target = j]
            /\ Begin(t, job)
      BY <1>3 DEF MovePosition
    <2>2. /\ i \in Items /\ j \in Items /\ rows[i] \in Row /\ rows[j] \in Row
          /\ (i \in Categories <=> rows[i].parent = Store)
      BY BoardAssumption DEF TypeOK, Row, Items
    <2>3. Moved(j, where) \in Nat
      BY <2>2 DEF Moved, Row
    <2>4. PICK row : row = [rows[i] EXCEPT !.position = Moved(j, where)]
      OBVIOUS
    <2>5. row \in Row /\ row.parent = rows[i].parent /\ row.position = Moved(j, where)
      BY <2>2, <2>3, <2>4 DEF Row
    <2>6. job = [do |-> where, saved |-> {i}, row |-> row,
                 shifts |-> rows[i].position # Moved(j, where), gone |-> {}, target |-> j]
      BY <2>1, <2>4 DEF Saving
    <2>7. /\ job.do = where /\ job.saved = {i} /\ job.gone = {} /\ job.target = j
          /\ job.row = row /\ (job.shifts <=> rows[i].position # Moved(j, where))
      BY <2>6
    <2>8. job \in Job
      BY <2>2, <2>5, <2>6 DEF Job
    <2>9. Shaped(job)
      BY <2>2, <2>5, <2>7, <2>8 DEF Shaped, Removals, Places
    <2>10. Table(i) = Table(j)
      BY <1>3 DEF MovePosition
    <2>11. Fresh(job)
      BY <2>5, <2>7, <2>10 DEF Fresh, Places
    <2>12. QED
      BY <2>1, <2>9, <2>11
  <1>4. ASSUME NEW S \in SUBSET Items, S # {}, NEW do \in Removals,
               Begin(t, Removing(do, S))
        PROVE  \E job : Begin(t, job) /\ Shaped(job) /\ Fresh(job)
    <2>1. PICK job : job = Removing(do, S) /\ Begin(t, job)
      BY <1>4
    <2>2. /\ job.do = do /\ job.saved = {} /\ ~job.shifts /\ job.gone = S
      BY <2>1 DEF Removing
    <2>3. job \in Job
      <3>1. [parent |-> Store, position |-> 0] \in Row
        BY DEF Row
      <3>2. QED
        BY <1>4, <2>1, <3>1 DEF Removing, Job, Removals
    <2>4. QED
      BY <1>4, <2>1, <2>2, <2>3 DEF Shaped, Fresh, Removals, Places
  <1>5. ASSUME NEW i \in DOMAIN rows, Delete(t, i)
        PROVE  \E job : Begin(t, job) /\ Shaped(job) /\ Fresh(job)
    <2>1. {i} \in SUBSET Items /\ {i} # {}
      BY DEF TypeOK
    <2>2. QED
      BY <1>4, <1>5, <2>1 DEF Delete, Removals
  <1>6. ASSUME NEW S \in (SUBSET (Menus \cap DOMAIN rows)) \ {{}}, DeleteAll(t, S)
        PROVE  \E job : Begin(t, job) /\ Shaped(job) /\ Fresh(job)
    <2>1. S \in SUBSET Items /\ S # {}
      <3>1. S \subseteq Menus /\ S # {}
        BY <1>6
      <3>2. QED
        BY <3>1 DEF Items
    <2>2. QED
      BY <1>4, <1>6, <2>1 DEF DeleteAll, Removals
  <1>7. QED
    BY <1>1, <1>2, <1>3, <1>5, <1>6 DEF Request

-----------------------------------------------------------------------------
(* What a commit does to the board.                                         *)

\* Whether the bulk update of a job shifts row i.
IsShifted(job, i) ==
    /\ job.shifts
    /\ \E s \in job.saved : Table(i) = Table(s)
    /\ rows[i].position >= job.row.position

\* The rows after a commit: the saved one, and the others, shifted or not.
LEMMA RowsAfterCommit ==
  ASSUME TypeOK, NEW job, Shaped(job), rows' = RowsAfter(job)
  PROVE  /\ DOMAIN rows' = Kept(job) \cup job.saved
         /\ Kept(job) \subseteq DOMAIN rows
         /\ \A i \in job.saved : rows'[i] = job.row
         /\ \A i \in Kept(job) \ job.saved :
              /\ rows[i] \in Row /\ rows'[i] \in Row
              /\ rows'[i].parent = rows[i].parent
              /\ rows'[i].position = IF IsShifted(job, i) THEN rows[i].position + 1
                                                          ELSE rows[i].position
  <1>1. /\ DOMAIN rows' = Kept(job) \cup job.saved
        /\ Kept(job) \subseteq DOMAIN rows
        /\ \A i \in job.saved : rows'[i] = job.row
        /\ \A i \in Kept(job) \ job.saved : rows'[i] = ShiftPosition(job, i)
    BY DEF RowsAfter, Kept
  <1>2. ASSUME NEW i \in DOMAIN rows
        PROVE  /\ rows[i] \in Row /\ ShiftPosition(job, i) \in Row
               /\ ShiftPosition(job, i).parent = rows[i].parent
               /\ ShiftPosition(job, i).position =
                    IF IsShifted(job, i) THEN rows[i].position + 1 ELSE rows[i].position
    <2>1. rows[i] \in Row
      BY DEF TypeOK
    <2>2. CASE IsShifted(job, i)
      <3>1. ShiftPosition(job, i) = [rows[i] EXCEPT !.position = rows[i].position + 1]
        BY <2>2 DEF ShiftPosition, IsShifted
      <3>2. QED
        BY <2>1, <2>2, <3>1 DEF Row
    <2>3. CASE ~IsShifted(job, i)
      <3>1. ShiftPosition(job, i) = rows[i]
        BY <2>3 DEF ShiftPosition, IsShifted
      <3>2. QED
        BY <2>1, <2>3, <3>1
    <2>4. QED
      BY <2>2, <2>3
  <1>3. QED
    BY <1>1, <1>2

\* The bulk update keeps the order of the rows that are not saved.
LEMMA ShiftKeepsOrder ==
  ASSUME TypeOK, NEW job, Shaped(job), rows' = RowsAfter(job),
         NEW i \in Kept(job) \ job.saved, NEW j \in Kept(job) \ job.saved,
         Table(i) = Table(j)
  PROVE  /\ rows'[i].position = rows'[j].position => rows[i].position = rows[j].position
         /\ rows'[i].position < rows'[j].position <=> rows[i].position < rows[j].position
  <1>1. /\ rows'[i].position = IF IsShifted(job, i) THEN rows[i].position + 1
                                                   ELSE rows[i].position
        /\ rows'[j].position = IF IsShifted(job, j) THEN rows[j].position + 1
                                                   ELSE rows[j].position
    BY RowsAfterCommit
  <1>2. rows[i].position \in Nat /\ rows[j].position \in Nat /\ job.row.position \in Nat
    BY RowsAfterCommit DEF Shaped, Job, Row
  <1>3. CASE IsShifted(job, i) /\ ~IsShifted(job, j)
    <2>1. rows[j].position < job.row.position /\ job.row.position <= rows[i].position
      BY <1>2, <1>3 DEF IsShifted
    <2>2. QED
      BY <1>1, <1>2, <1>3, <2>1
  <1>4. CASE ~IsShifted(job, i) /\ IsShifted(job, j)
    <2>1. rows[i].position < job.row.position /\ job.row.position <= rows[j].position
      BY <1>2, <1>4 DEF IsShifted
    <2>2. QED
      BY <1>1, <1>2, <1>4, <2>1
  <1>5. CASE IsShifted(job, i) <=> IsShifted(job, j)
    BY <1>1, <1>2, <1>5
  <1>6. QED
    BY <1>3, <1>4, <1>5

\* A committed job leaves finitely many, well typed rows.
LEMMA CommitTyped ==
  ASSUME TypeOK, IsFiniteSet(DOMAIN rows), NEW job, Shaped(job), Feasible(job),
         rows' = RowsAfter(job)
  PROVE  /\ DOMAIN rows' \subseteq Items /\ rows' \in [DOMAIN rows' -> Row]
         /\ \A i \in DOMAIN rows' :
              IF i \in Categories THEN rows'[i].parent = Store
                                  ELSE rows'[i].parent \in DOMAIN rows'
         /\ IsFiniteSet(DOMAIN rows')
  <1>1. job \in Job /\ job.saved \subseteq Items /\ job.row \in Row
    BY DEF Shaped, Job
  <1>2. DOMAIN rows' \subseteq Items
    BY <1>1, RowsAfterCommit DEF TypeOK
  <1>3. \A i \in DOMAIN rows' : rows'[i] \in Row
    BY <1>1, RowsAfterCommit
  <1>4. rows' \in [DOMAIN rows' -> Row]
    <2>1. rows' = [i \in DOMAIN rows' |-> rows'[i]]
      BY DEF RowsAfter
    <2>2. QED
      BY <1>3, <2>1
  <1>5. IsFiniteSet(DOMAIN rows')
    <2>1. IsFiniteSet(Kept(job))
      BY RowsAfterCommit, FS_Subset
    <2>2. CASE job.saved = {}
      BY <2>1, <2>2, RowsAfterCommit
    <2>3. CASE job.saved # {}
      <3>1. PICK i : job.saved = {i}
        BY <2>3 DEF Shaped
      <3>2. IsFiniteSet(Kept(job) \cup {i})
        BY <2>1, FS_AddElement
      <3>3. QED
        BY <3>1, <3>2, RowsAfterCommit
    <2>4. QED
      BY <2>2, <2>3
  <1>6. ASSUME NEW i \in DOMAIN rows'
        PROVE  IF i \in Categories THEN rows'[i].parent = Store
                                   ELSE rows'[i].parent \in DOMAIN rows'
    <2>1. CASE i \in job.saved
      <3>1. rows'[i] = job.row /\ (i \in Categories <=> job.row.parent = Store)
        BY <2>1, RowsAfterCommit DEF Shaped
      <3>2. job.row.parent \in DOMAIN rows \cup {Store}
        BY <2>1 DEF Feasible
      <3>3. job.gone = {}
        BY <2>1 DEF Shaped
      <3>4. DOMAIN rows \subseteq DOMAIN rows'
        BY <3>3, RowsAfterCommit DEF Kept
      <3>5. QED
        BY <3>1, <3>2, <3>4
    <2>2. CASE i \in Kept(job) \ job.saved
      <3>1. rows'[i].parent = rows[i].parent /\ i \in DOMAIN rows
        BY <2>2, RowsAfterCommit
      <3>2. CASE i \in Categories
        BY <3>1, <3>2 DEF TypeOK
      <3>3. CASE i \notin Categories
        <4>1. rows[i].parent \in DOMAIN rows /\ rows[i].parent \notin job.gone
          BY <2>2, <3>1, <3>3 DEF TypeOK, Kept
        <4>2. rows[i].parent \in Categories
          BY <3>1, <4>1, BoardAssumption DEF TypeOK, Row, Items
        <4>3. rows[rows[i].parent].parent = Store
          BY <4>1, <4>2 DEF TypeOK
        <4>4. Store \notin job.gone
          BY <1>1, BoardAssumption DEF Job, Items
        <4>5. rows[i].parent \in Kept(job)
          BY <4>1, <4>3, <4>4 DEF Kept
        <4>6. QED
          BY <3>1, <3>3, <4>5, RowsAfterCommit
      <3>4. QED
        BY <3>2, <3>3
    <2>3. QED
      BY <2>1, <2>2, RowsAfterCommit
  <1>7. QED
    BY <1>2, <1>4, <1>5, <1>6

\* A committed job that is fresh keeps positions distinct.
LEMMA CommitDistinct ==
  ASSUME TypeOK, NEW job, Shaped(job), Fresh(job), Feasible(job), rows' = RowsAfter(job),
         \A i, j \in DOMAIN rows :
            Siblings(i, j) /\ rows[i].position = rows[j].position => i = j
  PROVE  \A i, j \in DOMAIN rows' :
            Siblings(i, j)' /\ rows'[i].position = rows'[j].position => i = j
  <1>1. ASSUME NEW i \in Kept(job) \ job.saved, NEW j \in Kept(job) \ job.saved,
               Siblings(i, j)', rows'[i].position = rows'[j].position
        PROVE  i = j
    <2>1. Siblings(i, j)
      BY <1>1, RowsAfterCommit DEF Siblings
    <2>2. rows[i].position = rows[j].position
      BY <1>1, <2>1, ShiftKeepsOrder DEF Siblings
    <2>3. QED
      BY <2>1, <2>2, RowsAfterCommit
  <1>2. ASSUME NEW i \in job.saved, NEW j \in Kept(job) \ job.saved, Siblings(i, j)'
        PROVE  rows'[i].position # rows'[j].position
    <2>1. /\ rows'[i] = job.row /\ rows'[j].parent = rows[j].parent
          /\ rows[j].parent = job.row.parent /\ Table(i) = Table(j)
          /\ j \in DOMAIN rows /\ j # i
      BY <1>2, RowsAfterCommit DEF Siblings
    <2>2. rows[j].position \in Nat /\ job.row.position \in Nat
      BY <1>2, RowsAfterCommit DEF Shaped, Job, Row
    <2>3. rows'[j].position = IF IsShifted(job, j) THEN rows[j].position + 1
                                                  ELSE rows[j].position
      BY <1>2, RowsAfterCommit
    <2>4. CASE job.shifts
      <3>1. IsShifted(job, j) <=> rows[j].position >= job.row.position
        BY <1>2, <2>1, <2>4 DEF IsShifted
      <3>2. QED
        BY <2>1, <2>2, <2>3, <3>1
    <2>5. CASE ~job.shifts
      <3>1. rows'[j].position = rows[j].position
        BY <2>3, <2>5 DEF IsShifted
      <3>2. CASE job.do = "create"
        <4>1. j \in Children(job.row.parent)
          BY <2>1 DEF Children
        <4>2. rows[j].position < job.row.position
          BY <1>2, <3>2, <4>1 DEF Fresh
        <4>3. QED
          BY <2>1, <2>2, <3>1, <4>2
      <3>3. CASE job.do # "create"
        <4>1. job.do \in {"update"} \cup Places
          BY <1>2, <3>3 DEF Shaped, Job, Removals
        <4>2. /\ i \in DOMAIN rows /\ job.row.parent = rows[i].parent
              /\ job.row.position = rows[i].position
          BY <1>2, <2>5, <4>1 DEF Fresh
        <4>3. Siblings(i, j)
          BY <2>1, <4>2 DEF Siblings
        <4>4. rows[i].position # rows[j].position
          BY <2>1, <4>2, <4>3
        <4>5. QED
          BY <2>1, <3>1, <4>2, <4>4
      <3>4. QED
        BY <3>2, <3>3
    <2>6. QED
      BY <2>4, <2>5
  <1>3. SUFFICES ASSUME NEW i \in DOMAIN rows', NEW j \in DOMAIN rows',
                        Siblings(i, j)', rows'[i].position = rows'[j].position
                 PROVE  i = j
    OBVIOUS
  <1>4. Siblings(j, i)'
    BY <1>3 DEF Siblings
  <1>5. CASE i \in job.saved /\ j \in job.saved
    BY <1>5 DEF Shaped
  <1>6. i \in Kept(job) \cup job.saved /\ j \in Kept(job) \cup job.saved
    BY <1>3, RowsAfterCommit
  <1>7. CASE i \in job.saved /\ j \notin job.saved
    BY <1>2, <1>3, <1>6, <1>7
  <1>8. CASE i \notin job.saved /\ j \in job.saved
    BY <1>2, <1>3, <1>4, <1>6, <1>8
  <1>9. CASE i \notin job.saved /\ j \notin job.saved
    BY <1>1, <1>3, <1>6, <1>9
  <1>10. QED
    BY <1>5, <1>7, <1>8, <1>9

\* A committed job that is fresh keeps the limits.
LEMMA CommitLimits ==
  ASSUME TypeOK, IsFiniteSet(DOMAIN rows), NEW job, Shaped(job), Fresh(job),
         rows' = RowsAfter(job), NEW p \in Categories \cup {Store},
         Cardinality(Children(p)) <= MaxChildren(p)
  PROVE  Cardinality(Children(p)') <= MaxChildren(p)
  <1>1. MaxChildren(p) \in Nat
    BY BoardAssumption DEF MaxChildren
  <1>2. /\ IsFiniteSet(Children(p)) /\ Cardinality(Children(p)) \in Nat
    <2>1. Children(p) \subseteq DOMAIN rows
      BY DEF Children
    <2>2. QED
      BY <2>1, FS_Subset, FS_CardinalityType
  <1>3. \A i \in Children(p)' \ job.saved : i \in Children(p)
    BY RowsAfterCommit DEF Children
  <1>4. CASE Children(p)' \subseteq Children(p)
    <2>1. Cardinality(Children(p)') <= Cardinality(Children(p)) /\ IsFiniteSet(Children(p)')
      BY <1>2, <1>4, FS_Subset
    <2>2. Cardinality(Children(p)') \in Nat
      BY <2>1, FS_CardinalityType
    <2>3. QED
      BY <1>1, <1>2, <2>1, <2>2
  <1>5. CASE ~(Children(p)' \subseteq Children(p))
    <2>1. PICK i \in job.saved : i \in Children(p)' /\ i \notin Children(p)
      BY <1>3, <1>5
    <2>2. job.saved = {i} /\ job.row.parent = p
      BY <2>1, RowsAfterCommit DEF Children, Shaped
    <2>3. job.do = "create"
      <3>1. job.do \in {"create", "update"} \cup Places
        BY <2>1 DEF Shaped, Job, Removals
      <3>2. job.do # "create" => i \in DOMAIN rows /\ rows[i].parent = p
        BY <2>1, <2>2, <3>1 DEF Fresh
      <3>3. QED
        BY <2>1, <3>2 DEF Children
    <2>4. Cardinality(Children(p)) < MaxChildren(p)
      BY <2>1, <2>2, <2>3 DEF Fresh
    <2>5. Children(p)' \subseteq Children(p) \cup {i}
      BY <1>3, <2>2
    <2>6. /\ IsFiniteSet(Children(p) \cup {i})
          /\ Cardinality(Children(p) \cup {i}) = Cardinality(Children(p)) + 1
      BY <1>2, <2>1, FS_AddElement
    <2>7. Cardinality(Children(p)') <= Cardinality(Children(p) \cup {i})
          /\ IsFiniteSet(Children(p)')
      BY <2>5, <2>6, FS_Subset
    <2>8. Cardinality(Children(p)') \in Nat
      BY <2>7, FS_CardinalityType
    <2>9. QED
      BY <1>1, <1>2, <2>4, <2>6, <2>7, <2>8
  <1>6. QED
    BY <1>4, <1>5

-----------------------------------------------------------------------------
(* The invariant is inductive.                                              *)

LEMMA InitIInv == Init => IInv
  <1>1. SUFFICES ASSUME Init PROVE IInv
    OBVIOUS
  <1>2. /\ DOMAIN rows = {} /\ Running = {} /\ late = {} /\ lateCommit = FALSE
    BY <1>1 DEF Init, Running
  <1>3. IsFiniteSet(DOMAIN rows)
    BY <1>2, FS_EmptySet
  <1>4. TypeOK
    BY <1>1, <1>2 DEF Init, TypeOK
  <1>5. LimitsKept
    <2>1. \A p : Children(p) = {}
      BY <1>2 DEF Children
    <2>2. Cardinality({}) = 0
      BY FS_EmptySet
    <2>3. \A p : MaxChildren(p) \in Nat
      BY BoardAssumption DEF MaxChildren
    <2>4. QED
      BY <2>1, <2>2, <2>3 DEF LimitsKept
  <1>6. PositionsDistinct
    BY <1>2 DEF PositionsDistinct
  <1>7. QED
    BY <1>2, <1>3, <1>4, <1>5, <1>6 DEF IInv, OneHolder

\* While the rows stay, so does everything said of them alone.
LEMMA SameRows ==
  ASSUME IInv, UNCHANGED <<rows, lateCommit>>
  PROVE  /\ IsFiniteSet(DOMAIN rows') /\ PositionsDistinct' /\ LimitsKept'
         /\ DOMAIN rows' \subseteq Items /\ rows' \in [DOMAIN rows' -> Row]
         /\ \A i \in DOMAIN rows' :
              IF i \in Categories THEN rows'[i].parent = Store
                                  ELSE rows'[i].parent \in DOMAIN rows'
         /\ \A job : Fresh(job) => Fresh(job)'
  <1>1. IsFiniteSet(DOMAIN rows')
    BY DEF IInv
  <1>2. PositionsDistinct'
    BY DEF IInv, PositionsDistinct, Siblings
  <1>3. LimitsKept'
    BY DEF IInv, LimitsKept, Children
  <1>4. /\ DOMAIN rows' \subseteq Items /\ rows' \in [DOMAIN rows' -> Row]
        /\ \A i \in DOMAIN rows' :
             IF i \in Categories THEN rows'[i].parent = Store
                                 ELSE rows'[i].parent \in DOMAIN rows'
    BY DEF IInv, TypeOK
  <1>5. ASSUME NEW job, Fresh(job) PROVE Fresh(job)'
    BY <1>5 DEF Fresh, Children, Moved
  <1>6. QED
    BY <1>1, <1>2, <1>3, <1>4, <1>5

LEMMA RequestIInv ==
  ASSUME IInv, NEW t \in Threads, Request(t)
  PROVE  IInv'
  <1>1. PICK job : Begin(t, job) /\ Shaped(job) /\ Fresh(job)
    BY RequestJob DEF IInv
  <1>2. /\ UNCHANGED <<rows, late, lateCommit>> /\ Running \subseteq late
        /\ txn[t] = Idle /\ txn' = [txn EXCEPT ![t] = job]
    BY <1>1 DEF Begin, LockIsFree
  <1>3. late \subseteq Running /\ t \notin late
    BY <1>2 DEF IInv, TypeOK, Running
  <1>4. Running' \subseteq Running \cup {t}
    BY <1>2 DEF Running
  <1>5. Running \subseteq Running' /\ \A u \in Running : txn'[u] = txn[u]
    BY <1>2 DEF Running
  <1>6. ASSUME NEW u \in Running', u = t PROVE txn'[u] = job
    BY <1>2, <1>6 DEF Running
  <1>7. \A u \in Running' : Shaped(txn'[u])
    BY <1>1, <1>4, <1>5, <1>6 DEF IInv
  <1>8. TypeOK'
    <2>1. \A u \in Running' : txn'[u] \in Job
      BY <1>7 DEF Shaped
    <2>2. late' \subseteq Running' /\ lateCommit' \in BOOLEAN /\ DOMAIN txn' = Threads
      BY <1>2, <1>3, <1>5 DEF IInv, TypeOK
    <2>3. QED
      BY <1>2, <2>1, <2>2, SameRows DEF TypeOK
  <1>9. Running' \ late' \subseteq {t}
    BY <1>2, <1>4
  <1>10. \A u \in Running' \ late' : txn'[u] = job
    BY <1>6, <1>9
  <1>11. \A u \in (Running \ late)' : Fresh(txn[u])'
    <2>1. Fresh(job)'
      BY <1>1, <1>2, SameRows
    <2>2. QED
      BY <1>10, <2>1 DEF Fresh
  <1>12. (\A u \in Running : Shaped(txn[u]))'
    BY <1>7 DEF Shaped
  <1>13. OneHolder'
    BY <1>9 DEF OneHolder
  <1>14. QED
    BY <1>2, <1>8, <1>11, <1>12, <1>13, SameRows DEF IInv

\* A step of thread t that ends its transaction, or only lets its lock lapse.
LEMMA OthersIInv ==
  ASSUME IInv, NEW t \in Running,
         \/ txn' = [txn EXCEPT ![t] = Idle] /\ late' = late \ {t}
         \/ txn' = txn /\ late' = late \cup {t}
  PROVE  /\ Running' \subseteq Running /\ late' \subseteq Running' /\ DOMAIN txn' = Threads
         /\ \A u \in Running' : txn'[u] = txn[u]
         /\ Running' \ late' \subseteq (Running \ late) \ {t}
         /\ (\A u \in Running : Shaped(txn[u]))' /\ OneHolder'
  <1>1. CASE txn' = [txn EXCEPT ![t] = Idle] /\ late' = late \ {t}
    <2>1. /\ \A u \in Running' : u \in Running /\ txn'[u] = txn[u] /\ u # t
          /\ \A u \in Running \ {t} : u \in Running'
      BY <1>1 DEF Running, IInv, TypeOK
    <2>2. late' \subseteq Running'
      BY <1>1, <2>1 DEF IInv, TypeOK
    <2>3. Running' \ late' \subseteq (Running \ late) \ {t}
      BY <1>1, <2>1
    <2>4. (\A u \in Running : Shaped(txn[u]))'
      BY <2>1 DEF IInv, Shaped
    <2>5. DOMAIN txn' = Threads
      BY <1>1 DEF IInv, TypeOK
    <2>6. QED
      BY <2>1, <2>2, <2>3, <2>4, <2>5 DEF IInv, OneHolder
  <1>2. CASE txn' = txn /\ late' = late \cup {t}
    <2>1. Running' = Running
      BY <1>2 DEF Running
    <2>2. (\A u \in Running : Shaped(txn[u]))'
      BY <1>2, <2>1 DEF IInv, Shaped
    <2>3. QED
      BY <1>2, <2>1, <2>2 DEF IInv, TypeOK, OneHolder
  <1>3. QED
    BY <1>1, <1>2

LEMMA CommitIInv ==
  ASSUME IInv, NEW t \in Threads, Commit(t)
  PROVE  IInv'
  <1> DEFINE job == txn[t]
  <1>1. /\ t \in Running /\ Feasible(job) /\ rows' = RowsAfter(job)
        /\ txn' = [txn EXCEPT ![t] = Idle] /\ late' = late \ {t}
        /\ lateCommit' = (lateCommit \/ t \in late)
    BY DEF Commit
  <1>2. Shaped(job) /\ TypeOK /\ IsFiniteSet(DOMAIN rows)
    BY <1>1 DEF IInv
  <1>3. TypeOK' /\ IsFiniteSet(DOMAIN rows')
    <2>1. \A u \in Running' : txn'[u] \in Job
      BY <1>1, OthersIInv DEF Shaped
    <2>2. late' \subseteq Running' /\ lateCommit' \in BOOLEAN /\ DOMAIN txn' = Threads
      BY <1>1, <1>2, OthersIInv DEF TypeOK
    <2>3. QED
      BY <1>1, <1>2, <2>1, <2>2, CommitTyped DEF TypeOK
  <1>4. CASE lateCommit'
    BY <1>1, <1>3, <1>4, OthersIInv DEF IInv, PositionsDistinct, LimitsKept
  <1>5. CASE ~lateCommit'
    <2>1. ~lateCommit /\ t \in Running \ late /\ Fresh(job)
      BY <1>1, <1>5 DEF IInv
    <2>2. Running' \ late' = {}
      BY <1>1, <2>1, OthersIInv DEF IInv, OneHolder
    <2>3. PositionsDistinct'
      <3>1. \A i, j \in DOMAIN rows :
               Siblings(i, j) /\ rows[i].position = rows[j].position => i = j
        BY <2>1 DEF IInv, PositionsDistinct
      <3>2. QED
        BY <1>1, <1>2, <2>1, <3>1, CommitDistinct DEF PositionsDistinct
    <2>4. LimitsKept'
      <3>1. \A p \in Categories \cup {Store} : Cardinality(Children(p)) <= MaxChildren(p)
        BY <2>1 DEF IInv, LimitsKept
      <3>2. \A p \in Categories \cup {Store} : Cardinality(Children(p)') <= MaxChildren(p)
        BY <1>1, <1>2, <2>1, <3>1, CommitLimits
      <3>3. QED
        BY <3>2 DEF LimitsKept, Children, MaxChildren
    <2>5. QED
      BY <1>1, <1>3, <2>2, <2>3, <2>4, OthersIInv DEF IInv
  <1>6. QED
    BY <1>4, <1>5

\* Without a commit.
LEMMA AbandonIInv ==
  ASSUME IInv, NEW t \in Threads, Rollback(t) \/ Lapse(t)
  PROVE  IInv'
  <1>1. /\ t \in Running /\ UNCHANGED <<rows, lateCommit>>
        /\ \/ txn' = [txn EXCEPT ![t] = Idle] /\ late' = late \ {t}
           \/ txn' = txn /\ late' = late \cup {t}
    BY DEF Rollback, Lapse
  <1>2. TypeOK'
    <2>1. \A u \in Running' : txn'[u] \in Job
      BY <1>1, OthersIInv DEF IInv, Shaped
    <2>2. late' \subseteq Running' /\ lateCommit' \in BOOLEAN /\ DOMAIN txn' = Threads
      BY <1>1, OthersIInv DEF IInv, TypeOK
    <2>3. QED
      BY <1>1, <2>1, <2>2, SameRows DEF TypeOK
  <1>3. ~lateCommit' => \A u \in (Running \ late)' : Fresh(txn[u])'
    <2>1. SUFFICES ASSUME ~lateCommit', NEW u \in (Running \ late)'
                   PROVE  Fresh(txn[u])'
      OBVIOUS
    <2>2. PICK job : job = txn[u]
      OBVIOUS
    <2>3. txn'[u] = job /\ Fresh(job)
      BY <1>1, <2>1, <2>2, OthersIInv DEF IInv
    <2>4. Fresh(job)'
      BY <1>1, <2>3, SameRows
    <2>5. QED
      BY <2>3, <2>4 DEF Fresh
  <1>4. QED
    BY <1>1, <1>2, <1>3, SameRows, OthersIInv DEF IInv

LEMMA NextIInv == IInv /\ [Next]_vars => IInv'
  <1>1. SUFFICES ASSUME IInv, [Next]_vars PROVE IInv'
    OBVIOUS
  <1>2. CASE Next
    BY <1>1, <1>2, RequestIInv, CommitIInv, AbandonIInv DEF Next
  <1>3. CASE UNCHANGED vars
    <2>1. UNCHANGED <<rows, lateCommit>> /\ late' = late /\ txn' = txn
      BY <1>3 DEF vars
    <2>2. Running' = Running
      BY <2>1 DEF Running
    <2>3. TypeOK' /\ OneHolder' /\ (\A t \in Running : Shaped(txn[t]))'
      BY <1>1, <2>1, <2>2 DEF IInv, TypeOK, OneHolder, Shaped
    <2>4. ~lateCommit' => \A t \in (Running \ late)' : Fresh(txn[t])'
      BY <1>1, <2>1, <2>2 DEF IInv, Fresh, Children, Moved
    <2>5. QED
      BY <1>1, <2>1, <2>3, <2>4, SameRows DEF IInv
  <1>4. QED
    BY <1>1, <1>2, <1>3

LEMMA SpecIInv == Spec => []IInv
  BY InitIInv, NextIInv, PTL DEF Spec

-----------------------------------------------------------------------------
(* The theorems.                                                            *)

\* Rows are well typed, and every menu has its category: no delete, update or
\* move of a request that read an older board leaves a menu without one.
THEOREM TypeCorrect == Spec => []TypeOK
  <1>1. IInv => TypeOK
    BY DEF IInv
  <1>2. QED
    BY SpecIInv, <1>1, PTL

\* The order of categories and menus is always given by their positions,
\* unless a transaction commits after its lock lapsed.
THEOREM DistinctPositions == Spec => []PositionsDistinct
  <1>1. IInv => PositionsDistinct
    BY DEF IInv
  <1>2. QED
    BY SpecIInv, <1>1, PTL

\* Counting before creating keeps the limits, unless a transaction commits
\* after its lock lapsed.
THEOREM Limits == Spec => []LimitsKept
  <1>1. IInv => LimitsKept
    BY DEF IInv
  <1>2. QED
    BY SpecIInv, <1>1, PTL

-----------------------------------------------------------------------------
(* What a step may do to the order.                                         *)

\* Rows that are not saved keep their order.
LEMMA CommitKeepsOrder ==
  ASSUME TypeOK, NEW job, Shaped(job), rows' = RowsAfter(job),
         NEW i \in Kept(job) \ job.saved, NEW j \in Kept(job) \ job.saved
  PROVE  Before(i, j) <=> Before(i, j)'
  <1>1. Siblings(i, j) <=> Siblings(i, j)'
    BY RowsAfterCommit DEF Siblings
  <1>2. Siblings(i, j) => (rows'[i].position < rows'[j].position
                             <=> rows[i].position < rows[j].position)
    BY ShiftKeepsOrder DEF Siblings
  <1>3. QED
    BY <1>1, <1>2 DEF Before

LEMMA CommitMovesOne ==
  ASSUME IInv, NEW t \in Threads, Commit(t), ~lateCommit'
  PROVE  /\ \E m \in Items \cup {Store} :
              \A i, j \in (DOMAIN rows \cap DOMAIN rows') \ {m} :
                 Before(i, j) <=> Before(i, j)'
         /\ \A i \in DOMAIN rows' \ DOMAIN rows : \A j \in DOMAIN rows' : ~Before(i, j)'
  <1>1. PICK job : job = txn[t]
    OBVIOUS
  <1>2. /\ TypeOK /\ Shaped(job) /\ Fresh(job) /\ Feasible(job) /\ rows' = RowsAfter(job)
    BY <1>1 DEF Commit, IInv
  <1>3. \E m \in Items \cup {Store} : job.saved \subseteq {m}
    BY <1>2 DEF Shaped, Job
  <1>4. PICK m \in Items \cup {Store} : job.saved \subseteq {m}
    BY <1>3
  <1>5. \A i, j \in (DOMAIN rows \cap DOMAIN rows') \ {m} :
           Before(i, j) <=> Before(i, j)'
    BY <1>2, <1>4, RowsAfterCommit, CommitKeepsOrder
  <1>6. ASSUME NEW i \in DOMAIN rows' \ DOMAIN rows, NEW j \in DOMAIN rows', Before(i, j)'
        PROVE  FALSE
    <2>1. i \in job.saved /\ rows'[i] = job.row /\ job.row.position \in Nat
      BY <1>2, <1>6, RowsAfterCommit DEF Shaped, Job, Row
    <2>2. job.do = "create" /\ ~job.shifts
      BY <1>2, <1>6, <2>1 DEF Feasible, Shaped, Places
    <2>3. rows'[i].position < rows'[j].position /\ rows'[j].parent = job.row.parent
      BY <1>6, <2>1 DEF Before, Siblings
    <2>4. j \in Kept(job) \ job.saved
      <3>1. j # i
        BY <2>1, <2>3
      <3>2. QED
        BY <1>2, <1>6, <2>1, <3>1, RowsAfterCommit DEF Shaped
    <2>5. rows'[j].position = rows[j].position /\ rows[j].position \in Nat
          /\ j \in Children(job.row.parent)
      BY <1>2, <2>2, <2>3, <2>4, RowsAfterCommit DEF IsShifted, Children, Row
    <2>6. rows[j].position < job.row.position
      BY <1>2, <2>1, <2>2, <2>5 DEF Fresh
    <2>7. QED
      BY <2>1, <2>3, <2>5, <2>6
  <1>7. QED
    BY <1>4, <1>5, <1>6

\* A committed move, of item i beside its sibling j.
LEMMA CommitMovesBeside ==
  ASSUME IInv, NEW t \in Running, NEW i \in txn[t].saved, NEW j,
         j = txn[t].target, Commit(t), ~lateCommit', txn[t].do \in Places,
         i # j, Siblings(i, j)
  PROVE  /\ IF txn[t].do = "PREV" THEN Before(i, j)' ELSE Before(j, i)'
         /\ \A k \in DOMAIN rows' \ {i, j} : Before(k, i)' <=> Before(k, j)'
  <1>1. PICK job : job = txn[t]
    OBVIOUS
  <1>2. /\ TypeOK /\ Shaped(job) /\ Fresh(job) /\ Feasible(job) /\ rows' = RowsAfter(job)
        /\ ~lateCommit
    BY <1>1 DEF Commit, IInv
  <1>3. /\ job.do \in Places /\ i \in job.saved /\ job.saved = {i} /\ job.gone = {}
        /\ job.row.position \in Nat
    BY <1>1, <1>2 DEF Shaped, Job, Row, Places, Removals
  <1>4. /\ i \in DOMAIN rows /\ j \in DOMAIN rows /\ Table(i) = Table(j)
        /\ job.row.parent = rows[i].parent /\ rows[j].parent = rows[i].parent
        /\ job.row.position = Moved(j, job.do)
        /\ (job.shifts <=> rows[i].position # job.row.position)
    BY <1>1, <1>2, <1>3 DEF Fresh, Siblings
  <1>5. PICK P \in Nat : P = rows[j].position
    BY <1>2, <1>4 DEF TypeOK, Row
  <1>6. job.row.position = IF job.do = "PREV" THEN P ELSE P + 1
    BY <1>4, <1>5 DEF Moved
  <1>7. \A k, l \in DOMAIN rows :
           Siblings(k, l) /\ rows[k].position = rows[l].position => k = l
    BY <1>2 DEF IInv, PositionsDistinct
  <1>8. rows[i].position # P
    BY <1>4, <1>5, <1>7
  <1>9. job.do = "PREV" => job.shifts
    BY <1>4, <1>6, <1>8
  <1>10. DOMAIN rows' = DOMAIN rows
    <2>1. \A k \in DOMAIN rows : rows[k].parent \notin job.gone /\ k \notin job.gone
      BY <1>3
    <2>2. Kept(job) = DOMAIN rows
      BY <2>1 DEF Kept
    <2>3. QED
      BY <1>2, <1>3, <1>4, <2>2, RowsAfterCommit
  <1>11. ASSUME NEW k \in DOMAIN rows \ {i}, Siblings(k, j)
         PROVE  /\ rows'[k].parent = rows[i].parent /\ rows[k].position \in Nat
                /\ rows'[k].position =
                     IF job.shifts /\ rows[k].position >= job.row.position
                     THEN rows[k].position + 1 ELSE rows[k].position
    <2>1. k \in Kept(job) \ job.saved
      BY <1>2, <1>3, <1>10, <1>11, RowsAfterCommit
    <2>2. Table(k) = Table(i) /\ rows[k].parent = rows[i].parent
      BY <1>4, <1>11 DEF Siblings
    <2>3. IsShifted(job, k) <=> job.shifts /\ rows[k].position >= job.row.position
      BY <1>3, <2>2 DEF IsShifted
    <2>4. QED
      BY <1>2, <2>1, <2>2, <2>3, RowsAfterCommit DEF Row
  <1>12. rows'[i] = job.row
    BY <1>2, <1>3, RowsAfterCommit
  <1>13. Siblings(j, j)
    BY DEF Siblings
  <1>14. /\ rows'[j].parent = rows[i].parent
         /\ rows'[j].position = IF job.do = "PREV" THEN P + 1 ELSE P
    BY <1>4, <1>5, <1>6, <1>9, <1>11, <1>13
  <1>15. rows'[i].position = (IF job.do = "PREV" THEN P ELSE P + 1)
         /\ rows'[i].parent = rows[i].parent
    BY <1>4, <1>6, <1>12
  <1>16. IF job.do = "PREV" THEN Before(i, j)' ELSE Before(j, i)'
    BY <1>4, <1>14, <1>15 DEF Before, Siblings
  <1>17. ASSUME NEW k \in DOMAIN rows' \ {i, j}
         PROVE  Before(k, i)' <=> Before(k, j)'
    <2>1. Siblings(k, i)' <=> Siblings(k, j)'
      BY <1>4, <1>14, <1>15 DEF Siblings
    <2>2. CASE ~Siblings(k, j)'
      BY <2>1, <2>2 DEF Before
    <2>3. CASE Siblings(k, j)'
      <3>1. k \in DOMAIN rows /\ k \in Kept(job) \ job.saved
        BY <1>2, <1>3, <1>10, <1>17, RowsAfterCommit
      <3>2. Siblings(k, j)
        <4>1. rows'[k].parent = rows[k].parent
          BY <1>2, <3>1, RowsAfterCommit
        <4>2. Table(k) = Table(j) /\ rows'[k].parent = rows'[j].parent
          BY <2>3 DEF Siblings
        <4>3. QED
          BY <1>4, <1>14, <4>1, <4>2 DEF Siblings
      <3>3. /\ rows[k].position \in Nat /\ rows[k].position # P
            /\ rows'[k].position =
                 IF job.shifts /\ rows[k].position >= job.row.position
                 THEN rows[k].position + 1 ELSE rows[k].position
        BY <1>4, <1>5, <1>7, <1>11, <1>17, <3>1, <3>2
      <3>4. ~job.shifts => rows[k].position # job.row.position
        <4>1. Siblings(k, i)
          BY <1>4, <3>2 DEF Siblings
        <4>2. QED
          BY <1>4, <1>7, <1>17, <3>1, <4>1
      <3>5. rows'[k].position < rows'[i].position <=> rows'[k].position < rows'[j].position
        <4>1. CASE job.do = "PREV"
          BY <1>6, <1>9, <1>14, <1>15, <3>3, <4>1
        <4>2. CASE job.do # "PREV" /\ job.shifts
          BY <1>6, <1>14, <1>15, <3>3, <4>2
        <4>3. CASE job.do # "PREV" /\ ~job.shifts
          BY <1>6, <1>14, <1>15, <3>3, <3>4, <4>3
        <4>4. QED
          BY <4>1, <4>2, <4>3
      <3>6. QED
        BY <2>1, <3>5 DEF Before
    <2>4. QED
      BY <2>2, <2>3
  <1>18. QED
    BY <1>1, <1>16, <1>17

\* A request moves one category or menu past the others, and what it creates
\* comes last, unless a transaction commits after its lock lapsed.
THEOREM OthersStay == Spec => OneItemMoves
  <1>1. ASSUME IInv, [Next]_vars, ~lateCommit', ~UNCHANGED vars
        PROVE  /\ \E m \in Items \cup {Store} :
                    \A i, j \in (DOMAIN rows \cap DOMAIN rows') \ {m} :
                       Before(i, j) <=> Before(i, j)'
               /\ \A i \in DOMAIN rows' \ DOMAIN rows : \A j \in DOMAIN rows' : ~Before(i, j)'
    <2>1. PICK t \in Threads : Request(t) \/ Commit(t) \/ Rollback(t) \/ Lapse(t)
      BY <1>1 DEF Next
    <2>2. CASE Commit(t)
      BY <1>1, <2>2, CommitMovesOne
    <2>3. CASE Request(t) \/ Rollback(t) \/ Lapse(t)
      <3>1. rows' = rows
        BY <1>1, <2>3, RequestJob DEF Begin, Rollback, Lapse, IInv
      <3>2. QED
        BY <3>1 DEF Before, Siblings
    <2>4. QED
      BY <2>1, <2>2, <2>3
  <1>2. QED
    BY <1>1, SpecIInv, PTL DEF Spec, OneItemMoves

\* A move ends where it was asked to: directly before or after its target.
THEOREM MovesEndBeside == Spec => MovedBeside
  <1>1. ASSUME IInv
        PROVE  \A t \in Running : \A i \in txn[t].saved, j \in {txn[t].target} :
                 /\ Commit(t) /\ ~lateCommit' /\ txn[t].do \in Places
                 /\ i # j /\ Siblings(i, j)
                 => /\ IF txn[t].do = "PREV" THEN Before(i, j)' ELSE Before(j, i)'
                    /\ \A k \in DOMAIN rows' \ {i, j} : Before(k, i)' <=> Before(k, j)'
    BY <1>1, CommitMovesBeside
  <1>2. QED
    BY <1>1, SpecIInv, PTL DEF MovedBeside

=============================================================================
