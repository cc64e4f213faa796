---------------------------- MODULE ServingProofs ----------------------------
(***************************************************************************)
(* Proofs about Serving, for any threads, tables, activities, orders, menus *)
(* and quantities: an order that was not crossed stays whole (served with   *)
(* its menus, of their price, canceled when it has none) and nothing that   *)
(* was done to it is undone.                                                *)
(*                                                                          *)
(* Two requests may write the rows of one order, and either writes back     *)
(* what it read.  What makes it right is that one is then a request of the  *)
(* hall about a table the order has left, or a refund, and the order        *)
(* crossed: any other request that writes rows of an order holds the table  *)
(* the order is at, and it stays there while the request runs.  Only a      *)
(* refund may take an activity away from a table that is locked: it ends    *)
(* the activity, so nobody else begins to work on it, and its orders are    *)
(* crossed.                                                                 *)
(***************************************************************************)
EXTENDS Serving, FiniteSetTheorems, TLAPS

\* A job writes rows of their types.
Typed(job) ==
    /\ job.keys \subseteq Tables
    /\ DOMAIN job.activities \subseteq Activities
    /\ \A a \in DOMAIN job.activities : job.activities[a] \in Activity
    /\ DOMAIN job.orders \subseteq Orders
    /\ \A o \in DOMAIN job.orders : job.orders[o] \in Order
    /\ DOMAIN job.menus \subseteq Orders \X Menus
    /\ \A x \in DOMAIN job.menus : job.menus[x] \in OrderMenu

\* The activities a job writes or takes orders to.
Acts(job) ==
    DOMAIN job.activities \cup
      {a \in Activities : job.do = "move" /\ \E o \in DOMAIN job.orders : job.orders[o].activity = a}

\* An activity that a refund took away from the table where it was.
Lost(a, acts, ords, excused) ==
    ~acts[a].active /\ \A o \in Orders : ords[o].activity = a => o \in excused

\* The activities of a job with locks are at tables it has locked, unless they
\* are lost, and it leaves them at such tables.
Seated(job, acts, ords, excused) ==
    job.do # "refund" =>
      /\ \A a \in DOMAIN job.activities : job.activities[a].table \in job.keys
      /\ \A a \in Acts(job) : acts[a].table \in job.keys \/ Lost(a, acts, ords, excused)

\* A job without locks knows it, and ends the activity it writes.
Stealthy(job) ==
    job.do = "refund" =>
      /\ Touched(job) \subseteq job.stray
      /\ \A a \in DOMAIN job.activities : ~job.activities[a].active

\* It has locked the tables of the orders it writes, or they are strays.
Guarded(job, acts, ords, excused) ==
    \A o \in Touched(job) \ (job.stray \cup excused) : acts[ords[o].activity].table \in job.keys

\* An order and its menus once a job commits.
OrderAfter(job, ords, o) == IF o \in DOMAIN job.orders THEN job.orders[o] ELSE ords[o]

MenusAfter(job, rows, o) ==
    [m \in Menus |-> IF <<o, m>> \in DOMAIN job.menus THEN job.menus[<<o, m>>] ELSE rows[o][m]]

\* An order and its menus agree.
Whole(order, rows) ==
    /\ order.state = "ORDER" => Left(rows) # {}
    /\ order.served => \A m \in Left(rows) : rows[m].served
    /\ order.price = TotalPrice(rows)

\* What a job makes of an order undoes nothing.
Kept(job, o, old, new) ==
    /\ old.served => new.served
    /\ old.state = "CANCEL" => new.state = "CANCEL"
    /\ old.activity # new.activity => job.do = "move" /\ o \in DOMAIN job.orders

\* A job leaves an order whole and undoes nothing of it.
Leaves(job, ords, rows, o) ==
    /\ Whole(OrderAfter(job, ords, o), MenusAfter(job, rows, o))
    /\ Kept(job, o, ords[o], OrderAfter(job, ords, o))

\* What is true of a job that runs.
Runs(job, acts, ords, rows, excused) ==
    /\ Typed(job) /\ Seated(job, acts, ords, excused) /\ Stealthy(job)
    /\ Guarded(job, acts, ords, excused)
    /\ \A o \in Touched(job) \ excused : Leaves(job, ords, rows, o)

\* Jobs that run beside each other have no key in common, no order, and, if
\* both have locks, no activity.
Apart(job, other, excused) ==
    /\ job.keys \cap other.keys = {}
    /\ Touched(job) \cap Touched(other) \subseteq excused
    /\ job.do # "refund" /\ other.do # "refund" => Acts(job) \cap Acts(other) = {}

\* A job that begins finds its activities active at tables it has locked.
Settled(job) ==
    job.do # "refund" =>
      \A a \in Acts(job) : activities[a].active /\ activities[a].table \in job.keys

\* The rows are well typed, and orders whole.
Rows ==
    /\ activities \in [Activities -> Activity] /\ orders \in [Orders -> Order]
    /\ menus \in [Orders -> [Menus -> OrderMenu]]
    /\ crossed \subseteq Orders
    /\ \A o \in Orders \ crossed : Whole(orders[o], menus[o])

\* The inductive invariant.
IInv ==
    /\ Rows /\ DOMAIN txn \subseteq Threads
    /\ \A t \in DOMAIN txn : Runs(txn[t], activities, orders, menus, crossed)
    /\ \A t, u \in DOMAIN txn : t # u => Apart(txn[t], txn[u], crossed)

-----------------------------------------------------------------------------
(* The operators of the model.                                              *)

LEMMA RowOf ==
  ASSUME NEW x, NEW row
  PROVE  DOMAIN One(x, row) = {x} /\ One(x, row)[x] = row /\ DOMAIN NoRows = {}
  BY DEF One, NoRows

\* A price is a natural number.
LEMMA PriceType == \A rows : TotalPrice(rows) \in Nat
  <1>1. IsFiniteSet(Menus \X (1 .. MaxQuantity))
    <2>1. IsFiniteSet(Menus) /\ 1 \in Int /\ MaxQuantity \in Int
      BY ServingAssumption
    <2>2. IsFiniteSet(1 .. MaxQuantity)
      BY <2>1, FS_Interval
    <2>3. QED
      BY <2>1, <2>2, FS_Product
  <1>2. \A rows : Units(rows) \subseteq Menus \X (1 .. MaxQuantity)
    BY DEF Units
  <1>3. QED
    BY <1>1, <1>2, FS_Subset, FS_CardinalityType DEF TotalPrice

\* The price depends on nothing but the quantities.
LEMMA SamePrice ==
  ASSUME NEW old, NEW new, \A m \in Menus : new[m].quantity = old[m].quantity
  PROVE  TotalPrice(new) = TotalPrice(old) /\ Left(new) = Left(old)
  <1>1. Units(new) = Units(old)
    BY DEF Units
  <1>2. Left(new) = Left(old)
    BY DEF Left
  <1>3. QED
    BY <1>1, <1>2 DEF TotalPrice

\* The rows of menus that changed, written over those there are.
LEMMA ChangedRows ==
  ASSUME Rows, NEW o \in Orders, NEW new \in [Menus -> OrderMenu]
  PROVE  /\ DOMAIN Changed(o, new) \subseteq Orders \X Menus
         /\ \A x \in DOMAIN Changed(o, new) : Changed(o, new)[x] \in OrderMenu /\ x[1] = o
         /\ new = [m \in Menus |->
              IF <<o, m>> \in DOMAIN Changed(o, new) THEN Changed(o, new)[<<o, m>>]
              ELSE menus[o][m]]
  <1> DEFINE c == Changed(o, new)
             D == {<<o, m>> : m \in {m \in Menus : new[m] # menus[o][m]}}
  <1>1. c = [x \in D |-> new[x[2]]]
    BY DEF Changed
  <1>2. DOMAIN c = D
    BY <1>1
  <1>3. \A x \in D : \E m \in Menus : x = <<o, m>> /\ c[x] = new[m]
    BY <1>1
  <1>4. \A m \in Menus : <<o, m>> \in D => c[<<o, m>>] = new[m]
    BY <1>1
  <1>5. \A m \in Menus : <<o, m>> \notin D => menus[o][m] = new[m]
    OBVIOUS
  <1>6. D \subseteq Orders \X Menus
    OBVIOUS
  <1> HIDE DEF c, D
  <1>7. \A x \in D : c[x] \in OrderMenu /\ x[1] = o
    BY <1>3
  <1>8. new = [m \in Menus |-> IF <<o, m>> \in D THEN c[<<o, m>>] ELSE menus[o][m]]
    BY <1>4, <1>5
  <1>9. QED
    BY <1>2, <1>6, <1>7, <1>8 DEF c

\* A job touches orders there are.
LEMMA TouchedOrders == \A job : Typed(job) => Touched(job) \subseteq Orders
  BY DEF Typed, Touched

-----------------------------------------------------------------------------
(* Requests.                                                                *)

\* A request that is right about the rows as they are may begin.
LEMMA BeginKeeps ==
  ASSUME IInv, NEW t \in Threads, NEW job, Begin(t, job),
         Runs(job, activities, orders, menus, crossed), Settled(job)
  PROVE  IInv'
  <1>1. /\ t \notin DOMAIN txn
        /\ \A u \in DOMAIN txn : job.keys \cap txn[u].keys = {}
        /\ txn' = [u \in DOMAIN txn \cup {t} |-> IF u = t THEN job ELSE txn[u]]
        /\ activities' = activities /\ orders' = orders /\ menus' = menus
    BY DEF Begin
  <1>2. crossed \subseteq crossed'
    BY DEF Begin
  <1>3. ASSUME NEW u \in DOMAIN txn
        PROVE  /\ job.stray \cap Touched(txn[u]) \subseteq crossed'
               /\ txn[u].stray \cap Touched(job) \subseteq crossed'
    BY DEF Begin
  <1>4. Rows'
    <2>1. crossed' \subseteq Orders
      <3>1. crossed \subseteq Orders /\ Touched(job) \subseteq Orders
        BY TouchedOrders DEF IInv, Rows, Runs
      <3>2. \A u \in DOMAIN txn : Touched(txn[u]) \subseteq Orders
        BY TouchedOrders DEF IInv, Runs
      <3>3. QED
        BY <3>1, <3>2 DEF Begin
    <2>2. QED
      BY <1>1, <1>2, <2>1 DEF IInv, Rows
  <1>5. \A j : Runs(j, activities, orders, menus, crossed) =>
                 Runs(j, activities', orders', menus', crossed')
    <2> SUFFICES ASSUME NEW j, Runs(j, activities, orders, menus, crossed)
                 PROVE  Runs(j, activities', orders', menus', crossed')
      OBVIOUS
    <2>1. Seated(j, activities', orders', crossed')
      BY <1>1, <1>2 DEF Runs, Seated, Lost
    <2>2. Guarded(j, activities', orders', crossed')
      BY <1>1, <1>2 DEF Runs, Guarded
    <2>3. QED
      BY <1>1, <1>2, <2>1, <2>2 DEF Runs
  <1>6. ASSUME NEW u \in DOMAIN txn
        PROVE  Apart(job, txn[u], crossed') /\ Apart(txn[u], job, crossed')
    <2>1. PICK other : other = txn[u]
      OBVIOUS
    <2>2. job.keys \cap other.keys = {}
      BY <1>1, <2>1
    <2>3. ASSUME NEW o, o \in Touched(job), o \in Touched(other), o \notin crossed'
          PROVE  FALSE
      <3>1. o \notin job.stray /\ o \notin other.stray /\ o \notin crossed
        BY <1>2, <1>3, <2>1, <2>3
      <3>2. /\ Guarded(job, activities, orders, crossed)
            /\ Guarded(other, activities, orders, crossed)
        BY <2>1 DEF IInv, Runs
      <3>3. /\ activities[orders[o].activity].table \in job.keys
            /\ activities[orders[o].activity].table \in other.keys
        BY <2>3, <3>1, <3>2 DEF Guarded
      <3>4. QED
        BY <2>2, <3>3
    <2>4. ASSUME job.do # "refund", other.do # "refund", NEW a \in Acts(job), a \in Acts(other)
          PROVE  FALSE
      <3>1. activities[a].active /\ activities[a].table \in job.keys
        BY <2>4 DEF Settled
      <3>2. Seated(other, activities, orders, crossed)
        BY <2>1 DEF IInv, Runs
      <3>3. activities[a].table \in other.keys \/ Lost(a, activities, orders, crossed)
        BY <2>4, <3>2 DEF Seated
      <3>4. QED
        BY <2>2, <3>1, <3>3 DEF Lost
    <2>5. QED
      BY <2>1, <2>2, <2>3, <2>4 DEF Apart
  <1>7. \A j, k : Apart(j, k, crossed) => Apart(j, k, crossed')
    BY <1>2 DEF Apart
  <1>8. /\ DOMAIN txn' = DOMAIN txn \cup {t} /\ txn'[t] = job
        /\ \A u \in DOMAIN txn : txn'[u] = txn[u] /\ u # t
    BY <1>1
  <1>9. DOMAIN txn' \subseteq Threads
    BY <1>8 DEF IInv
  <1>10. \A u \in DOMAIN txn' : Runs(txn'[u], activities', orders', menus', crossed')
    BY <1>5, <1>8 DEF IInv
  <1>11. \A u, v \in DOMAIN txn' : u # v => Apart(txn'[u], txn'[v], crossed')
    BY <1>6, <1>7, <1>8 DEF IInv
  <1>12. QED
    BY <1>4, <1>9, <1>10, <1>11 DEF IInv

\* As one does that makes a whole order of one it may write, and writes no other.
LEMMA OneOrderKeeps ==
  ASSUME IInv, NEW t \in Threads, NEW job, Begin(t, job), Typed(job), job.do # "refund",
         \A a \in Acts(job) : IsAt(a, activities[a].table) /\ activities[a].table \in job.keys,
         \A a \in DOMAIN job.activities : job.activities[a].table \in job.keys,
         NEW o \in Orders, Touched(job) \subseteq {o},
         o \in job.stray \/ TableOf(o) \in job.keys,
         o \in crossed \/ Leaves(job, orders, menus, o)
  PROVE  IInv'
  <1>1. Guarded(job, activities, orders, crossed)
    BY DEF Guarded, TableOf
  <1>2. \A x \in Touched(job) \ crossed : Leaves(job, orders, menus, x)
    OBVIOUS
  <1>3. Seated(job, activities, orders, crossed) /\ Stealthy(job) /\ Settled(job)
    <2>1. ASSUME NEW a \in Acts(job) PROVE activities[a].active
      <3>1. IsAt(a, activities[a].table)
        OBVIOUS
      <3>2. PICK n : n = activities[a].table
        OBVIOUS
      <3>3. activities[a] = [table |-> n, active |-> TRUE]
        BY <3>1, <3>2 DEF IsAt
      <3>4. QED
        BY <3>3
    <2>2. QED
      BY <2>1 DEF Seated, Stealthy, Settled
  <1>4. QED
    BY <1>1, <1>2, <1>3, BeginKeeps DEF Runs

\* OrderModifyService.serving of an order.
LEMMA ServeKeeps ==
  ASSUME IInv, NEW t \in Threads, NEW n \in Tables, NEW o \in Orders, Serve(t, n, o)
  PROVE  IInv'
  <1>1. PICK rows : rows = [m \in Menus |->
           IF m \in Left(menus[o]) THEN [menus[o][m] EXCEPT !.served = TRUE] ELSE menus[o][m]]
    OBVIOUS
  <1>2. PICK order : order = [orders[o] EXCEPT !.served = TRUE]
    OBVIOUS
  <1>3. PICK c : c = Changed(o, rows)
    OBVIOUS
  <1>4. PICK job : job = [do |-> "serve", keys |-> {n}, stray |-> Stray(o, n),
                          activities |-> NoRows, orders |-> One(o, order), menus |-> c]
    OBVIOUS
  <1>5. Begin(t, job) /\ ~orders[o].served
    BY <1>1, <1>2, <1>3, <1>4 DEF Serve
  <1>6. Rows /\ orders[o] \in Order /\ menus[o] \in [Menus -> OrderMenu]
    BY DEF IInv, Rows
  <1>7. order \in Order /\ rows \in [Menus -> OrderMenu]
    BY <1>1, <1>2, <1>6 DEF Order, OrderMenu
  <1>8. /\ DOMAIN c \subseteq Orders \X Menus
        /\ \A x \in DOMAIN c : c[x] \in OrderMenu /\ x[1] = o
        /\ rows = [m \in Menus |-> IF <<o, m>> \in DOMAIN c THEN c[<<o, m>>] ELSE menus[o][m]]
    BY <1>3, <1>6, <1>7, ChangedRows
  <1>9. Typed(job) /\ job.do # "refund" /\ Acts(job) = {} /\ DOMAIN job.activities = {}
    BY <1>4, <1>7, <1>8 DEF Typed, Acts, One, NoRows
  <1>10. Touched(job) \subseteq {o}
    BY <1>4, <1>8, RowOf DEF Touched
  <1>11. o \in job.stray \/ TableOf(o) \in job.keys
    BY <1>4 DEF Stray
  <1>12. OrderAfter(job, orders, o) = order /\ MenusAfter(job, menus, o) = rows
    BY <1>4, <1>8, RowOf DEF OrderAfter, MenusAfter
  <1>13. ASSUME o \notin crossed PROVE Leaves(job, orders, menus, o)
    <2>1. Whole(orders[o], menus[o])
      BY <1>6, <1>13 DEF Rows
    <2>2. TotalPrice(rows) = TotalPrice(menus[o]) /\ Left(rows) = Left(menus[o])
      <3>1. \A m \in Menus : rows[m].quantity = menus[o][m].quantity
        BY <1>1, <1>6 DEF OrderMenu
      <3>2. QED
        BY <3>1, SamePrice
    <2>3. \A m \in Left(rows) : rows[m].served
      BY <1>1, <1>6, <2>2 DEF OrderMenu, Left
    <2>4. order.state = orders[o].state /\ order.price = orders[o].price /\ order.activity = orders[o].activity
      BY <1>2, <1>6 DEF Order
    <2>5. Whole(order, rows)
      BY <2>1, <2>2, <2>3, <2>4 DEF Whole
    <2>6. Kept(job, o, orders[o], order)
      BY <1>5, <2>4 DEF Kept
    <2>7. QED
      BY <1>12, <2>5, <2>6 DEF Leaves
  <1>14. QED
    BY <1>5, <1>9, <1>10, <1>11, <1>13, OneOrderKeeps

\* OrderModifyService.serving of one menu.
LEMMA ToggleKeeps ==
  ASSUME IInv, NEW t \in Threads, NEW n \in Tables, NEW o \in Orders, NEW m \in Menus,
         Toggle(t, n, o, m)
  PROVE  IInv'
  <1>1. PICK row : row = [menus[o][m] EXCEPT !.served = ~@]
    OBVIOUS
  <1>2. PICK job : job = [do |-> "toggle", keys |-> {n}, stray |-> Stray(o, n),
                          activities |-> NoRows, orders |-> NoRows, menus |-> One(<<o, m>>, row)]
    OBVIOUS
  <1>3. Begin(t, job) /\ ~orders[o].served
    BY <1>1, <1>2 DEF Toggle, CanToggle
  <1>4. /\ Rows /\ orders[o] \in Order /\ menus[o] \in [Menus -> OrderMenu]
        /\ menus[o][m] \in OrderMenu
    BY DEF IInv, Rows
  <1>5. row \in OrderMenu /\ row.quantity = menus[o][m].quantity
    BY <1>1, <1>4 DEF OrderMenu
  <1>6. Typed(job) /\ job.do # "refund" /\ Acts(job) = {} /\ DOMAIN job.activities = {}
    BY <1>2, <1>5 DEF Typed, Acts, One, NoRows
  <1>7. Touched(job) \subseteq {o}
    BY <1>2 DEF Touched, One, NoRows
  <1>8. o \in job.stray \/ TableOf(o) \in job.keys
    BY <1>2 DEF Stray
  <1>9. OrderAfter(job, orders, o) = orders[o]
    BY <1>2, RowOf DEF OrderAfter
  <1>10. PICK rows : rows = MenusAfter(job, menus, o)
    OBVIOUS
  <1>11. ASSUME o \notin crossed PROVE Leaves(job, orders, menus, o)
    <2>1. Whole(orders[o], menus[o])
      BY <1>4, <1>11 DEF Rows
    <2>2. \A k \in Menus : rows[k].quantity = menus[o][k].quantity
      <3>1. \A k \in Menus : rows[k] = IF k = m THEN row ELSE menus[o][k]
        BY <1>2, <1>10 DEF MenusAfter, One
      <3>2. QED
        BY <1>5, <3>1
    <2>3. TotalPrice(rows) = TotalPrice(menus[o]) /\ Left(rows) = Left(menus[o])
      BY <2>2, SamePrice
    <2>4. Whole(orders[o], rows)
      BY <1>3, <2>1, <2>3 DEF Whole
    <2>5. Kept(job, o, orders[o], orders[o])
      BY DEF Kept
    <2>6. QED
      BY <1>9, <1>10, <2>4, <2>5 DEF Leaves
  <1>12. QED
    BY <1>3, <1>6, <1>7, <1>8, <1>11, OneOrderKeeps

\* A change by the POS of an order at its table, that makes it whole again.
LEMMA WriteKeeps ==
  ASSUME IInv, NEW t \in Threads, NEW n \in Tables, NEW o \in OrdersAt(n),
         NEW do, do \notin {"refund", "move"},
         NEW order \in Order, NEW rows \in [Menus -> OrderMenu], Write(t, n, do, o, order, rows),
         order.activity = orders[o].activity, orders[o].served => order.served,
         orders[o].state = "CANCEL" => order.state = "CANCEL",
         o \in crossed \/ Whole(order, rows)
  PROVE  IInv'
  <1>1. PICK c, acts, ords :
           /\ c = Changed(o, rows) /\ acts \in TryInactivate(o, order)
           /\ ords = IF order = orders[o] THEN NoRows ELSE One(o, order)
           /\ Begin(t, [do |-> do, keys |-> {n}, stray |-> {}, activities |-> acts,
                        orders |-> ords, menus |-> c])
    BY DEF Write, LockOf
  <1>2. PICK job : job = [do |-> do, keys |-> {n}, stray |-> {}, activities |-> acts,
                          orders |-> ords, menus |-> c]
    OBVIOUS
  <1>3. Begin(t, job)
    BY <1>1, <1>2
  <1>4. /\ Rows /\ o \in Orders /\ TableOf(o) = n
        /\ orders[o] \in Order /\ orders[o].activity \in Activities
        /\ activities[orders[o].activity] \in Activity
        /\ IsAt(orders[o].activity, n) /\ activities[orders[o].activity].table = n
    <2>1. /\ Rows /\ o \in Orders /\ TableOf(o) = n /\ activities[orders[o].activity].active
      BY DEF IInv, OrdersAt
    <2>2. orders[o] \in Order /\ orders[o].activity \in Activities
      BY <2>1 DEF Rows, Order
    <2>3. activities[orders[o].activity] \in Activity
      BY <2>1, <2>2 DEF Rows
    <2>4. QED
      BY <2>1, <2>2, <2>3 DEF TableOf, IsAt, Activity
  <1>5. /\ DOMAIN c \subseteq Orders \X Menus
        /\ \A x \in DOMAIN c : c[x] \in OrderMenu /\ x[1] = o
        /\ rows = [m \in Menus |-> IF <<o, m>> \in DOMAIN c THEN c[<<o, m>>] ELSE menus[o][m]]
    BY <1>1, <1>4, ChangedRows
  <1>6. /\ DOMAIN acts \subseteq {orders[o].activity}
        /\ \A a \in DOMAIN acts : acts[a] \in Activity /\ acts[a].table = n
    <2>1. PICK a, row : /\ a = orders[o].activity
                        /\ row \in {activities[a], [activities[a] EXCEPT !.active = FALSE]}
                        /\ acts = One(a, row) \/ acts = NoRows
      BY <1>1 DEF TryInactivate, Ended, Discounted
    <2>2. row \in Activity /\ row.table = n
      BY <1>4, <2>1 DEF Activity
    <2>4. QED
      BY <2>1, <2>2 DEF One, NoRows
  <1>7. DOMAIN ords \subseteq {o} /\ \A x \in DOMAIN ords : ords[x] = order
    BY <1>1 DEF One, NoRows
  <1>8. (IF o \in DOMAIN ords THEN ords[o] ELSE orders[o]) = order
    BY <1>1, RowOf
  <1>9. Typed(job)
    BY <1>2, <1>4, <1>5, <1>6, <1>7 DEF Typed
  <1>10. /\ job.do # "refund" /\ \A a \in DOMAIN job.activities : job.activities[a].table \in job.keys
         /\ \A a \in Acts(job) : IsAt(a, activities[a].table) /\ activities[a].table \in job.keys
    BY <1>2, <1>4, <1>6 DEF Acts
  <1>11. Touched(job) \subseteq {o}
    BY <1>2, <1>5, <1>7 DEF Touched
  <1>12. TableOf(o) \in job.keys
    BY <1>2, <1>4
  <1>13. OrderAfter(job, orders, o) = order /\ MenusAfter(job, menus, o) = rows
    BY <1>2, <1>5, <1>8 DEF OrderAfter, MenusAfter
  <1>14. Kept(job, o, orders[o], order)
    BY DEF Kept
  <1>15. o \in crossed \/ Leaves(job, orders, menus, o)
    BY <1>13, <1>14 DEF Leaves
  <1>16. QED
    BY <1>3, <1>4, <1>9, <1>10, <1>11, <1>12, <1>15, OneOrderKeeps

\* PosTableOrderManagementService.update of quantities: the menus that are left
\* are those that were, each as served as it was.
LEMMA UpdateOrderKeeps ==
  ASSUME IInv, NEW t \in Threads, NEW n \in Tables, NEW o \in OrderedAt(n), UpdateOrder(t, n, o)
  PROVE  IInv'
  <1>0. PICK new \in [Left(menus[o]) -> 0 .. MaxQuantity] : \E rows :
           /\ rows = [m \in Menus |-> IF m \in DOMAIN new
                        THEN [menus[o][m] EXCEPT !.quantity = new[m]] ELSE menus[o][m]]
           /\ Write(t, n, "update", o, WithMenus(orders[o], rows), rows)
    BY DEF UpdateOrder
  <1>1. PICK rows :
           /\ rows = [m \in Menus |-> IF m \in DOMAIN new
                        THEN [menus[o][m] EXCEPT !.quantity = new[m]] ELSE menus[o][m]]
           /\ Write(t, n, "update", o, WithMenus(orders[o], rows), rows)
    BY <1>0
  <1>2. PICK order : order = WithMenus(orders[o], rows)
    OBVIOUS
  <1>3. /\ Rows /\ o \in OrdersAt(n) /\ o \in Orders /\ orders[o].state = "ORDER"
        /\ orders[o] \in Order /\ menus[o] \in [Menus -> OrderMenu]
    BY DEF IInv, Rows, OrderedAt, OrdersAt
  <1>4. rows \in [Menus -> OrderMenu]
    BY <1>1, <1>3 DEF OrderMenu
  <1>5. /\ order \in Order /\ order.price = TotalPrice(rows)
        /\ order.state = "ORDER" => Left(rows) # {}
        /\ order.served = orders[o].served /\ order.activity = orders[o].activity
    <2>1. PICK price \in Nat : price = TotalPrice(rows)
      BY PriceType
    <2>2. order = [orders[o] EXCEPT !.price = price,
                                    !.state = IF Left(rows) = {} THEN "CANCEL" ELSE @]
      BY <1>2, <2>1 DEF WithMenus
    <2>3. QED
      BY <1>3, <2>1, <2>2 DEF Order
  <1>6. ASSUME o \notin crossed PROVE Whole(order, rows)
    <2>1. Whole(orders[o], menus[o])
      BY <1>3, <1>6 DEF Rows
    <2>2. \A m \in Left(rows) : m \in Left(menus[o]) /\ rows[m].served = menus[o][m].served
      BY <1>1, <1>3 DEF Left, OrderMenu
    <2>3. QED
      BY <1>5, <2>1, <2>2 DEF Whole
  <1>7. Write(t, n, "update", o, order, rows)
    BY <1>1, <1>2
  <1>8. QED
    BY <1>3, <1>4, <1>5, <1>6, <1>7, WriteKeeps

\* PosTableOrderManagementService.cancel.
LEMMA CancelOrderKeeps ==
  ASSUME IInv, NEW t \in Threads, NEW n \in Tables, NEW o \in OrderedAt(n), CancelOrder(t, n, o)
  PROVE  IInv'
  <1>1. PICK order, rows : order = [orders[o] EXCEPT !.state = "CANCEL"] /\ rows = menus[o]
    OBVIOUS
  <1>2. Write(t, n, "cancel", o, order, rows)
    BY <1>1 DEF CancelOrder
  <1>3. /\ Rows /\ o \in OrdersAt(n) /\ o \in Orders
        /\ orders[o] \in Order /\ rows \in [Menus -> OrderMenu]
    BY <1>1 DEF IInv, Rows, OrderedAt, OrdersAt
  <1>4. /\ order \in Order /\ order.state = "CANCEL" /\ order.served = orders[o].served
        /\ order.activity = orders[o].activity /\ order.price = orders[o].price
    BY <1>1, <1>3 DEF Order
  <1>5. ASSUME o \notin crossed PROVE Whole(order, rows)
    <2>1. Whole(orders[o], rows)
      BY <1>1, <1>3, <1>5 DEF Rows
    <2>2. QED
      BY <1>4, <2>1 DEF Whole
  <1>6. QED
    BY <1>2, <1>3, <1>4, <1>5, WriteKeeps

\* PosTableOrderManagementService.update of a memo.
LEMMA UpdateMemoKeeps ==
  ASSUME IInv, NEW t \in Threads, NEW n \in Tables, NEW o \in OrdersAt(n), UpdateMemo(t, n, o)
  PROVE  IInv'
  <1>1. PICK job : job = [do |-> "memo", keys |-> {n}, stray |-> {}, activities |-> NoRows,
                          orders |-> One(o, orders[o]), menus |-> NoRows]
    OBVIOUS
  <1>2. Begin(t, job)
    BY <1>1 DEF UpdateMemo, LockOf
  <1>3. /\ Rows /\ o \in Orders /\ TableOf(o) = n
        /\ orders[o] \in Order /\ menus[o] \in [Menus -> OrderMenu]
    BY DEF IInv, Rows, OrdersAt
  <1>4. Typed(job) /\ job.do # "refund" /\ Acts(job) = {} /\ DOMAIN job.activities = {}
    BY <1>1, <1>3 DEF Typed, Acts, One, NoRows
  <1>5. Touched(job) \subseteq {o} /\ TableOf(o) \in job.keys
    BY <1>1, <1>3 DEF Touched, One, NoRows
  <1>6. OrderAfter(job, orders, o) = orders[o] /\ MenusAfter(job, menus, o) = menus[o]
    BY <1>1, <1>3 DEF OrderAfter, MenusAfter, One, NoRows
  <1>7. ASSUME o \notin crossed PROVE Leaves(job, orders, menus, o)
    <2>1. Whole(orders[o], menus[o]) /\ Kept(job, o, orders[o], orders[o])
      BY <1>3, <1>7 DEF Rows, Kept
    <2>2. QED
      BY <1>6, <2>1 DEF Leaves
  <1>8. QED
    BY <1>2, <1>3, <1>4, <1>5, <1>7, OneOrderKeeps

\* PosTableManagementService.moveTable to a free table writes no order.
LEMMA MoveKeeps ==
  ASSUME IInv, NEW t \in Threads, NEW n \in Tables, NEW to \in Tables, Move(t, n, to)
  PROVE  IInv'
  <1>1. PICK a \in Activities : \E row, job :
           /\ IsAt(a, n) /\ Begin(t, job) /\ row = [activities[a] EXCEPT !.table = to]
           /\ job = [do |-> "move", keys |-> {n, to}, stray |-> {}, activities |-> One(a, row),
                     orders |-> NoRows, menus |-> NoRows]
    BY DEF Move, MoveJob
  <1>2. PICK row, job :
           /\ IsAt(a, n) /\ Begin(t, job) /\ row = [activities[a] EXCEPT !.table = to]
           /\ job = [do |-> "move", keys |-> {n, to}, stray |-> {}, activities |-> One(a, row),
                     orders |-> NoRows, menus |-> NoRows]
    BY <1>1
  <1>3. row \in Activity /\ row.table = to
    <2>1. activities[a] \in Activity
      BY DEF IInv, Rows
    <2>2. QED
      BY <1>2, <2>1 DEF Activity
  <1>4. Acts(job) = {a} /\ Touched(job) = {}
    BY <1>2 DEF Acts, Touched, One, NoRows
  <1>5. Settled(job)
    BY <1>2, <1>4 DEF Settled, IsAt
  <1>6. Typed(job) /\ Seated(job, activities, orders, crossed) /\ Stealthy(job)
    <2>1. /\ job.do = "move" /\ job.keys = {n, to} /\ DOMAIN job.activities = {a}
          /\ job.activities[a] = row /\ DOMAIN job.orders = {} /\ DOMAIN job.menus = {}
      BY <1>2, RowOf
    <2>2. Typed(job)
      BY <1>3, <2>1 DEF Typed
    <2>3. QED
      BY <1>3, <1>5, <2>1, <2>2 DEF Seated, Settled, Stealthy
  <1>7. Guarded(job, activities, orders, crossed)
    BY <1>4 DEF Guarded
  <1>8. QED
    BY <1>2, <1>4, <1>5, <1>6, <1>7, BeginKeeps DEF Runs

\* The rows of orders as a merge or a refund leaves them.
Joins(joined, b, os, C) ==
    /\ DOMAIN joined = os \cup C
    /\ \A o \in DOMAIN joined :
         /\ joined[o] \in Order /\ joined[o].activity = b
         /\ joined[o].price = orders[o].price /\ joined[o].served = orders[o].served
         /\ joined[o].state = IF o \in C THEN "CANCEL" ELSE orders[o].state

LEMMA JoinedRows ==
  ASSUME Rows, NEW b \in Activities, NEW os \in SUBSET Orders, NEW C \in SUBSET Orders,
         NEW joined, joined = Joined(b, os, C)
  PROVE  Joins(joined, b, os, C)
  <1>1. DOMAIN joined = os \cup C
    BY DEF Joined
  <1>2. ASSUME NEW o \in os \cup C
        PROVE  /\ joined[o] \in Order /\ joined[o].activity = b
               /\ joined[o].price = orders[o].price /\ joined[o].served = orders[o].served
               /\ joined[o].state = IF o \in C THEN "CANCEL" ELSE orders[o].state
    <2>1. orders[o] \in Order
      BY DEF Rows
    <2>2. joined[o] = [orders[o] EXCEPT !.activity = b,
                                        !.state = IF o \in C THEN "CANCEL" ELSE @]
      BY DEF Joined
    <2>3. QED
      BY <2>1, <2>2 DEF Order
  <1>3. QED
    BY <1>1, <1>2 DEF Joins

\* A job that cancels and moves orders leaves them whole.
LEMMA JoinedLeaves ==
  ASSUME Rows, NEW job, DOMAIN job.menus = {}, NEW o \in Orders \ crossed, o \in DOMAIN job.orders,
         job.orders[o].price = orders[o].price, job.orders[o].served = orders[o].served,
         job.orders[o].state \in {"CANCEL", orders[o].state},
         job.do = "move" \/ job.orders[o].activity = orders[o].activity
  PROVE  Leaves(job, orders, menus, o)
  <1>1. OrderAfter(job, orders, o) = job.orders[o]
    BY DEF OrderAfter
  <1>2. MenusAfter(job, menus, o) = menus[o]
    BY DEF MenusAfter, Rows
  <1>3. Whole(orders[o], menus[o])
    BY DEF Rows
  <1>4. Whole(job.orders[o], menus[o])
    BY <1>3 DEF Whole
  <1>5. Kept(job, o, orders[o], job.orders[o])
    BY DEF Kept
  <1>6. QED
    BY <1>1, <1>2, <1>4, <1>5 DEF Leaves

\* PosTableManagementService.moveTable to a table with an activity: the orders
\* go from one locked table to another, and the replay cancels some.
LEMMA MergeKeeps ==
  ASSUME IInv, NEW t \in Threads, NEW n \in Tables, NEW to \in Tables, Merge(t, n, to)
  PROVE  IInv'
  <1> DEFINE Of(a) == {o \in Orders : orders[o].activity = a}
  <1>1. PICK a \in Activities, b \in Activities :
           /\ n # to /\ IsAt(a, n) /\ IsAt(b, to)
           /\ \E C \in SUBSET Revocable(Standing(a) \cup Standing(b)),
                 row \in Paid(b, Standing(a) \cup Standing(b)) \cup {Discounted(b)} :
                Begin(t, MoveJob(n, to, Both(Ended(a), row), Joined(b, Of(a), C)))
    BY DEF Merge
  <1>2. PICK C \in SUBSET Revocable(Standing(a) \cup Standing(b)),
             row \in Paid(b, Standing(a) \cup Standing(b)) \cup {Discounted(b)} :
           Begin(t, MoveJob(n, to, Both(Ended(a), row), Joined(b, Of(a), C)))
    BY <1>1
  <1>3. PICK rows, joined, job :
           /\ rows = Both(Ended(a), row) /\ joined = Joined(b, Of(a), C)
           /\ job = [do |-> "move", keys |-> {n, to}, stray |-> {}, activities |-> rows,
                     orders |-> joined, menus |-> NoRows]
           /\ Begin(t, job)
    BY <1>2 DEF MoveJob
  <1>4. Rows /\ activities[a] \in Activity /\ activities[b] \in Activity
    BY DEF IInv, Rows
  <1>5. /\ activities[a].table = n /\ activities[b].table = to
        /\ activities[a].active /\ activities[b].active
    BY <1>1 DEF IsAt
  <1>6. /\ DOMAIN rows \subseteq {a, b}
        /\ \A x \in DOMAIN rows : rows[x] \in Activity /\ rows[x].table \in {n, to}
    <2>1. PICK end : end = [activities[a] EXCEPT !.active = FALSE]
      OBVIOUS
    <2>2. end \in Activity /\ end.table = n
      BY <1>4, <1>5, <2>1 DEF Activity
    <2>3. \/ row = NoRows
          \/ \E r : /\ r \in {activities[b], [activities[b] EXCEPT !.active = FALSE]}
                    /\ row = One(b, r)
      BY <1>2 DEF Paid, Discounted, Ended
    <2>4. DOMAIN row \subseteq {b} /\ \A x \in DOMAIN row : row[x] \in Activity /\ row[x].table = to
      <3>1. \A r \in {activities[b], [activities[b] EXCEPT !.active = FALSE]} :
               r \in Activity /\ r.table = to
        BY <1>4, <1>5 DEF Activity
      <3>2. QED
        BY <2>3, <3>1 DEF One, NoRows
    <2>5. Ended(a) = One(a, end)
      BY <2>1 DEF Ended
    <2>6. DOMAIN Ended(a) = {a} /\ Ended(a)[a] = end
      BY <2>5, RowOf
    <2>7. QED
      BY <1>3, <2>2, <2>4, <2>6 DEF Both
  <1>7. C \subseteq {o \in Orders : orders[o].state = "ORDER"} /\ Of(a) \subseteq Orders
    BY <1>2 DEF Revocable, Standing
  <1>8. /\ DOMAIN joined = Of(a) \cup C
        /\ \A o \in DOMAIN joined :
             /\ joined[o] \in Order /\ joined[o].activity = b
             /\ joined[o].price = orders[o].price /\ joined[o].served = orders[o].served
             /\ joined[o].state = IF o \in C THEN "CANCEL" ELSE orders[o].state
    <2>1. PICK os : os = Of(a)
      OBVIOUS
    <2>2. os \in SUBSET Orders /\ C \in SUBSET Orders
      BY <1>7, <2>1
    <2>3. joined = Joined(b, os, C)
      BY <1>3, <2>1
    <2>4. Joins(joined, b, os, C)
      BY <1>4, <2>2, <2>3, JoinedRows
    <2>5. QED
      BY <2>1, <2>4 DEF Joins
  <1>9. Touched(job) = DOMAIN joined
    BY <1>3 DEF Touched, NoRows
  <1>10. \A o \in DOMAIN joined : o \in Orders /\ orders[o].activity \in {a, b}
    BY <1>2, <1>7, <1>8 DEF Revocable, Standing
  <1>11. Acts(job) \subseteq {a, b}
    BY <1>3, <1>6, <1>8 DEF Acts
  <1>12. Settled(job)
    BY <1>3, <1>5, <1>11 DEF Settled
  <1>13. Typed(job)
    BY <1>3, <1>6, <1>8, <1>10 DEF Typed, NoRows
  <1>14. Seated(job, activities, orders, crossed) /\ Stealthy(job)
    BY <1>3, <1>6, <1>12 DEF Seated, Settled, Stealthy
  <1>15. Guarded(job, activities, orders, crossed)
    BY <1>3, <1>5, <1>9, <1>10 DEF Guarded
  <1>16. ASSUME NEW o \in Touched(job) \ crossed PROVE Leaves(job, orders, menus, o)
    <2>1. o \in DOMAIN job.orders /\ o \in Orders \ crossed
      BY <1>3, <1>9, <1>10
    <2>2. DOMAIN job.menus = {} /\ job.do = "move" /\ job.orders = joined
      BY <1>3 DEF NoRows
    <2>3. job.orders[o].state \in {"CANCEL", orders[o].state}
      BY <1>8, <2>1, <2>2
    <2>4. QED
      BY <1>4, <1>8, <2>1, <2>2, <2>3, JoinedLeaves
  <1>17. QED
    BY <1>3, <1>12, <1>13, <1>14, <1>15, <1>16, BeginKeeps DEF Runs

\* PosTableManagementService.discount and completeActivity, and a payment that
\* is approved, write no order.
LEMMA SettleKeeps ==
  ASSUME IInv, NEW t \in Threads, NEW n \in Tables, Settle(t, n)
  PROVE  IInv'
  <1>1. PICK a \in Activities : \E row, job :
           /\ IsAt(a, n) /\ Begin(t, job)
           /\ row \in {activities[a], [activities[a] EXCEPT !.active = FALSE]}
           /\ job = [do |-> "settle", keys |-> {n}, stray |-> {}, orders |-> NoRows,
                     menus |-> NoRows, activities |-> One(a, row)]
    BY DEF Settle, Discounted, Ended
  <1>2. PICK row, job :
           /\ IsAt(a, n) /\ Begin(t, job)
           /\ row \in {activities[a], [activities[a] EXCEPT !.active = FALSE]}
           /\ job = [do |-> "settle", keys |-> {n}, stray |-> {}, orders |-> NoRows,
                     menus |-> NoRows, activities |-> One(a, row)]
    BY <1>1
  <1>3. row \in Activity /\ row.table = n
    <2>1. activities[a] \in Activity
      BY DEF IInv, Rows
    <2>2. activities[a].table = n
      BY <1>2 DEF IsAt
    <2>3. QED
      BY <1>2, <2>1, <2>2 DEF Activity
  <1>4. Acts(job) = {a} /\ Touched(job) = {}
    BY <1>2 DEF Acts, Touched, One, NoRows
  <1>5. Settled(job)
    BY <1>2, <1>4 DEF Settled, IsAt
  <1>6. Typed(job) /\ Seated(job, activities, orders, crossed) /\ Stealthy(job)
    BY <1>2, <1>3, <1>4, <1>5 DEF Typed, Seated, Settled, Stealthy, One, NoRows
  <1>7. Guarded(job, activities, orders, crossed)
    BY <1>4 DEF Guarded
  <1>8. QED
    BY <1>2, <1>4, <1>5, <1>6, <1>7, BeginKeeps DEF Runs

\* OrderPaymentModifyService.cancel has no lock, and knows the order it cancels.
LEMMA RefundKeeps ==
  ASSUME IInv, NEW t \in Threads, NEW a \in Activities, Refund(t, a)
  PROVE  IInv'
  <1>1. PICK C \in SUBSET Revocable(Standing(a)), row \in Paid(a, Standing(a)) :
           Begin(t, [do |-> "refund", keys |-> {}, stray |-> C, activities |-> row,
                     orders |-> Joined(a, {}, C), menus |-> NoRows])
    BY DEF Refund
  <1>2. PICK joined, job :
           /\ joined = Joined(a, {}, C)
           /\ job = [do |-> "refund", keys |-> {}, stray |-> C, activities |-> row,
                     orders |-> joined, menus |-> NoRows]
           /\ Begin(t, job)
    BY <1>1
  <1>3. Rows /\ activities[a] \in Activity
    BY DEF IInv, Rows
  <1>4. /\ DOMAIN row \subseteq {a}
        /\ \A x \in DOMAIN row : row[x] \in Activity /\ ~row[x].active
    <2>1. PICK end : end = [activities[a] EXCEPT !.active = FALSE]
      OBVIOUS
    <2>2. end \in Activity /\ ~end.active
      BY <1>3, <2>1 DEF Activity
    <2>3. row = NoRows \/ row = One(a, end)
      BY <1>1, <2>1 DEF Paid, Ended
    <2>4. QED
      BY <2>2, <2>3 DEF One, NoRows
  <1>5. /\ C \subseteq {o \in Orders : orders[o].state = "ORDER"}
        /\ \A o \in C : orders[o].activity = a
    BY <1>1 DEF Revocable, Standing
  <1>6. /\ DOMAIN joined = {} \cup C
        /\ \A o \in DOMAIN joined :
             /\ joined[o] \in Order /\ joined[o].activity = a
             /\ joined[o].price = orders[o].price /\ joined[o].served = orders[o].served
             /\ joined[o].state = IF o \in C THEN "CANCEL" ELSE orders[o].state
    <2>1. PICK os : os = {}
      OBVIOUS
    <2>2. os \in SUBSET Orders /\ C \in SUBSET Orders
      BY <1>5, <2>1
    <2>3. joined = Joined(a, os, C)
      BY <1>2, <2>1
    <2>4. Joins(joined, a, os, C)
      BY <1>3, <2>2, <2>3, JoinedRows
    <2>5. QED
      BY <2>1, <2>4 DEF Joins
  <1>7. Touched(job) = C
    BY <1>2, <1>6 DEF Touched, NoRows
  <1>8. Typed(job)
    BY <1>2, <1>4, <1>5, <1>6 DEF Typed, NoRows
  <1>9. Seated(job, activities, orders, crossed) /\ Stealthy(job) /\ Settled(job)
    BY <1>2, <1>4, <1>7 DEF Seated, Stealthy, Settled
  <1>10. Guarded(job, activities, orders, crossed)
    BY <1>2, <1>7 DEF Guarded
  <1>11. ASSUME NEW o \in Touched(job) \ crossed PROVE Leaves(job, orders, menus, o)
    <2>1. o \in DOMAIN job.orders /\ o \in Orders \ crossed /\ orders[o].activity = a
      BY <1>2, <1>5, <1>6, <1>7
    <2>2. DOMAIN job.menus = {} /\ job.orders = joined
      BY <1>2 DEF NoRows
    <2>3. job.orders[o].state \in {"CANCEL", orders[o].state}
      BY <1>6, <2>1, <2>2
    <2>4. QED
      BY <1>3, <1>6, <2>1, <2>2, <2>3, JoinedLeaves
  <1>12. QED
    BY <1>2, <1>8, <1>9, <1>10, <1>11, BeginKeeps DEF Runs

LEMMA RequestKeeps ==
  ASSUME IInv, NEW t \in Threads, Request(t)
  PROVE  IInv'
  <1>1. CASE \E n \in Tables :
           \/ \E o \in Orders : Serve(t, n, o) \/ \E m \in Menus : Toggle(t, n, o, m)
           \/ \E o \in OrderedAt(n) : UpdateOrder(t, n, o) \/ CancelOrder(t, n, o)
           \/ \E o \in OrdersAt(n) : UpdateMemo(t, n, o)
           \/ \E to \in Tables : Move(t, n, to) \/ Merge(t, n, to)
           \/ Settle(t, n)
    BY <1>1, ServeKeeps, ToggleKeeps, UpdateOrderKeeps, CancelOrderKeeps, UpdateMemoKeeps,
       MoveKeeps, MergeKeeps, SettleKeeps
  <1>2. CASE \E a \in Activities : Refund(t, a)
    BY <1>2, RefundKeeps
  <1>3. QED
    BY <1>1, <1>2 DEF Request

-----------------------------------------------------------------------------
(* Requests commit or fail.                                                 *)

\* What the commit of a job of thread t makes of the rows.
Committed(t, job) ==
    /\ t \in DOMAIN txn /\ job = txn[t]
    /\ txn' = [u \in DOMAIN txn \ {t} |-> txn[u]]
    /\ crossed' = crossed \cup TakenBack(job)
    /\ activities' = [a \in Activities |->
         IF a \in DOMAIN job.activities THEN job.activities[a] ELSE activities[a]]
    /\ orders' = [o \in Orders |-> OrderAfter(job, orders, o)]
    /\ menus' = [o \in Orders |-> MenusAfter(job, menus, o)]

LEMMA CommitOutcome ==
  ASSUME IInv, NEW t, Commit(t)
  PROVE  Committed(t, txn[t])
  BY DEF Committed, Commit, End, Over, OrderAfter, MenusAfter, IInv, Rows

\* What remains of an activity that a job which runs on works on: it is where
\* that job locked it, or lost.
LEMMA CommitKeepsSeats ==
  ASSUME IInv, NEW t, NEW job, Committed(t, job),
         NEW other, Runs(other, activities, orders, menus, crossed), Apart(job, other, crossed)
  PROVE  Seated(other, activities', orders', crossed')
  <1>1. /\ crossed' = crossed \cup TakenBack(job)
        /\ activities' = [a \in Activities |->
             IF a \in DOMAIN job.activities THEN job.activities[a] ELSE activities[a]]
        /\ orders' = [o \in Orders |-> OrderAfter(job, orders, o)]
    BY DEF Committed
  <1>2. /\ t \in DOMAIN txn /\ Rows /\ Typed(job) /\ Stealthy(job)
        /\ \A o \in Touched(job) \ crossed : Leaves(job, orders, menus, o)
        /\ Typed(other) /\ Seated(other, activities, orders, crossed)
    BY DEF Committed, IInv, Runs
  <1> SUFFICES ASSUME other.do # "refund", NEW a \in Acts(other)
               PROVE  \/ activities'[a].table \in other.keys
                      \/ Lost(a, activities', orders', crossed')
    BY <1>2 DEF Seated
  <1>3. a \in Activities /\ (activities[a].table \in other.keys \/ Lost(a, activities, orders, crossed))
    BY <1>2 DEF Acts, Typed, Seated
  <1>4. ASSUME NEW o \in Orders, orders'[o].activity = a, o \notin crossed
        PROVE  orders[o].activity = a
    <2>1. CASE o \notin Touched(job)
      BY <1>1, <1>4, <2>1 DEF OrderAfter, Touched
    <2>2. CASE o \in Touched(job)
      <3>1. /\ orders'[o] = OrderAfter(job, orders, o)
            /\ Kept(job, o, orders[o], OrderAfter(job, orders, o))
        BY <1>1, <1>2, <1>4, <2>2 DEF Leaves
      <3>2. CASE job.do = "move" /\ o \in DOMAIN job.orders
        <4>1. job.orders[o].activity = a
          BY <1>4, <3>1, <3>2 DEF OrderAfter
        <4>2. a \in Acts(job)
          BY <1>3, <3>2, <4>1 DEF Acts
        <4>3. QED
          BY <3>2, <4>2 DEF Apart
      <3>3. CASE ~(job.do = "move" /\ o \in DOMAIN job.orders)
        BY <1>4, <3>1, <3>3 DEF Kept
      <3>4. QED
        BY <3>2, <3>3
    <2>3. QED
      BY <2>1, <2>2
  <1>5. CASE a \notin DOMAIN job.activities
    <2>1. activities'[a] = activities[a]
      BY <1>1, <1>3, <1>5
    <2>2. QED
      BY <1>1, <1>3, <1>4, <2>1 DEF Lost
  <1>6. CASE a \in DOMAIN job.activities
    <2>1. job.do = "refund"
      BY <1>6 DEF Apart, Acts
    <2>2. activities'[a] = job.activities[a] /\ ~job.activities[a].active
      BY <1>1, <1>2, <1>3, <1>6, <2>1 DEF Stealthy
    <2>3. CASE job.activities[a].table = activities[a].table
      BY <1>1, <1>3, <1>4, <2>2, <2>3 DEF Lost
    <2>4. CASE job.activities[a].table # activities[a].table
      <3>1. \A o \in Orders : orders[o].activity = a => o \in TakenBack(job)
        BY <1>6, <2>1, <2>4 DEF TakenBack
      <3>2. QED
        BY <1>1, <1>4, <2>2, <3>1 DEF Lost
    <2>5. QED
      BY <2>3, <2>4
  <1>7. QED
    BY <1>5, <1>6

\* Other jobs wrote nothing of the activities and orders a job is about.
LEMMA CommitKeepsOthers ==
  ASSUME IInv, NEW t, NEW job, Committed(t, job),
         NEW other, Runs(other, activities, orders, menus, crossed), Apart(job, other, crossed)
  PROVE  Runs(other, activities', orders', menus', crossed')
  <1>1. /\ crossed' = crossed \cup TakenBack(job)
        /\ activities' = [a \in Activities |->
             IF a \in DOMAIN job.activities THEN job.activities[a] ELSE activities[a]]
        /\ orders' = [o \in Orders |-> OrderAfter(job, orders, o)]
        /\ menus' = [o \in Orders |-> MenusAfter(job, menus, o)]
    BY DEF Committed
  <1>2. /\ Typed(other) /\ Stealthy(other) /\ Guarded(other, activities, orders, crossed)
        /\ \A o \in Touched(other) \ crossed : Leaves(other, orders, menus, o)
    BY DEF Runs
  <1>3. t \in DOMAIN txn /\ Seated(job, activities, orders, crossed) /\ Rows
    BY DEF Committed, IInv, Runs
  <1>4. ASSUME NEW o \in Orders, o \notin crossed', orders[o].activity \in Activities,
               activities[orders[o].activity].table \in other.keys
        PROVE  activities'[orders[o].activity].table \in other.keys
    <2>1. PICK a \in Activities : a = orders[o].activity
      BY <1>4
    <2>2. CASE a \notin DOMAIN job.activities
      BY <1>1, <1>4, <2>1, <2>2
    <2>3. CASE a \in DOMAIN job.activities /\ job.do # "refund"
      <3>1. a \in Acts(job)
        BY <2>3 DEF Acts
      <3>2. activities[a].table \in job.keys \/ Lost(a, activities, orders, crossed)
        BY <1>3, <2>3, <3>1 DEF Seated
      <3>3. QED
        BY <1>1, <1>4, <2>1, <3>2 DEF Lost, Apart
    <2>4. CASE a \in DOMAIN job.activities /\ job.do = "refund"
      <3>1. o \notin TakenBack(job)
        BY <1>1, <1>4
      <3>2. job.activities[a].table = activities[a].table
        BY <2>1, <2>4, <3>1 DEF TakenBack
      <3>3. QED
        BY <1>1, <1>4, <2>1, <2>4, <3>2
    <2>5. QED
      BY <2>2, <2>3, <2>4
  <1>5. ASSUME NEW o \in Touched(other) \ crossed
        PROVE  o \in Orders /\ orders'[o] = orders[o] /\ menus'[o] = menus[o]
    <2>1. o \in Orders
      BY <1>2, TouchedOrders
    <2>2. o \notin Touched(job)
      BY DEF Apart
    <2>3. o \notin DOMAIN job.orders /\ \A m \in Menus : <<o, m>> \notin DOMAIN job.menus
      BY <2>2 DEF Touched
    <2>4. menus[o] \in [Menus -> OrderMenu]
      BY <1>3, <2>1 DEF Rows
    <2>5. QED
      BY <1>1, <2>1, <2>3, <2>4 DEF OrderAfter, MenusAfter
  <1>6. Seated(other, activities', orders', crossed')
    BY CommitKeepsSeats
  <1>7. Guarded(other, activities', orders', crossed')
    <2> SUFFICES ASSUME NEW o \in Touched(other) \ (other.stray \cup crossed')
                 PROVE  activities'[orders'[o].activity].table \in other.keys
      BY DEF Guarded
    <2>0. o \in Touched(other) \ (other.stray \cup crossed)
      BY <1>1
    <2>1. orders[o].activity \in Activities
      BY <1>3, <1>5, <2>0 DEF Rows, Order
    <2>2. activities[orders[o].activity].table \in other.keys
      BY <1>2, <2>0 DEF Guarded
    <2>3. QED
      BY <1>4, <1>5, <2>0, <2>1, <2>2
  <1>8. ASSUME NEW o \in Touched(other) \ crossed' PROVE Leaves(other, orders', menus', o)
    BY <1>1, <1>2, <1>5 DEF Leaves, OrderAfter, MenusAfter
  <1>9. QED
    BY <1>1, <1>2, <1>6, <1>7, <1>8 DEF Runs

LEMMA CommitKeeps ==
  ASSUME IInv, NEW t \in Threads, Commit(t)
  PROVE  IInv'
  <1>1. PICK job : Committed(t, job)
    BY CommitOutcome
  <1>2. /\ t \in DOMAIN txn /\ job = txn[t] /\ txn' = [u \in DOMAIN txn \ {t} |-> txn[u]]
        /\ crossed' = crossed \cup TakenBack(job)
        /\ activities' = [a \in Activities |->
             IF a \in DOMAIN job.activities THEN job.activities[a] ELSE activities[a]]
        /\ orders' = [o \in Orders |-> OrderAfter(job, orders, o)]
        /\ menus' = [o \in Orders |-> MenusAfter(job, menus, o)]
    BY <1>1 DEF Committed
  <1>3. Rows /\ Runs(job, activities, orders, menus, crossed)
    BY <1>2 DEF IInv
  <1>4. Rows'
    <2>1. activities' \in [Activities -> Activity]
      BY <1>2, <1>3 DEF Rows, Runs, Typed
    <2>2. orders' \in [Orders -> Order]
      BY <1>2, <1>3 DEF Rows, Runs, Typed, OrderAfter
    <2>3. menus' \in [Orders -> [Menus -> OrderMenu]]
      BY <1>2, <1>3 DEF Rows, Runs, Typed, MenusAfter
    <2>4. ASSUME NEW o \in Orders \ crossed PROVE Whole(orders'[o], menus'[o])
      <3>1. CASE o \in Touched(job)
        BY <1>2, <1>3, <3>1 DEF Runs, Leaves
      <3>2. CASE o \notin Touched(job)
        <4>1. OrderAfter(job, orders, o) = orders[o] /\ MenusAfter(job, menus, o) = menus[o]
          BY <1>3, <3>2 DEF Touched, OrderAfter, MenusAfter, Rows
        <4>2. QED
          BY <1>2, <1>3, <4>1 DEF Rows
      <3>3. QED
        BY <3>1, <3>2
    <2>5. crossed \subseteq crossed' /\ crossed' \subseteq Orders
      BY <1>2, <1>3 DEF Rows, TakenBack
    <2>6. QED
      BY <2>1, <2>2, <2>3, <2>4, <2>5 DEF Rows
  <1>5. DOMAIN txn' = DOMAIN txn \ {t} /\ \A u \in DOMAIN txn' : txn'[u] = txn[u]
    BY <1>2
  <1>6. DOMAIN txn' \subseteq Threads
    BY <1>5 DEF IInv
  <1>7. ASSUME NEW u \in DOMAIN txn'
        PROVE  Runs(txn'[u], activities', orders', menus', crossed')
    <2>1. PICK other : other = txn[u]
      OBVIOUS
    <2>2. /\ Runs(other, activities, orders, menus, crossed)
          /\ Apart(job, other, crossed)
      BY <1>2, <1>5, <2>1 DEF IInv
    <2>3. Runs(other, activities', orders', menus', crossed')
      BY <1>1, <2>2, CommitKeepsOthers
    <2>4. QED
      BY <1>5, <2>1, <2>3
  <1>8. \A u, v \in DOMAIN txn' : u # v => Apart(txn'[u], txn'[v], crossed')
    <2>1. \A j, k : Apart(j, k, crossed) => Apart(j, k, crossed')
      BY <1>2 DEF Apart
    <2>2. QED
      BY <1>5, <2>1 DEF IInv
  <1>9. QED
    BY <1>4, <1>6, <1>7, <1>8 DEF IInv

LEMMA FailKeeps ==
  ASSUME IInv, NEW t \in Threads, Fail(t)
  PROVE  IInv'
  <1>1. /\ activities' = activities /\ orders' = orders /\ menus' = menus /\ crossed' = crossed
        /\ DOMAIN txn' \subseteq DOMAIN txn /\ \A u \in DOMAIN txn' : txn'[u] = txn[u]
    BY DEF Fail, End
  <1>2. QED
    BY <1>1 DEF IInv, Rows

-----------------------------------------------------------------------------
(* The theorems.                                                            *)

LEMMA NextKeeps == IInv /\ [Next]_vars => IInv'
  <1> SUFFICES ASSUME IInv, [Next]_vars PROVE IInv'
    OBVIOUS
  <1>1. CASE UNCHANGED vars
    BY <1>1 DEF vars, IInv, Rows
  <1>2. CASE Next
    BY <1>2, RequestKeeps, CommitKeeps, FailKeeps DEF Next
  <1>3. QED
    BY <1>1, <1>2

LEMMA InitIInv == Init => IInv
  <1> SUFFICES ASSUME Init PROVE IInv
    OBVIOUS
  <1>1. activities \in [Activities -> Activity] /\ txn = NoRows /\ crossed = {}
    BY DEF Init, Activity
  <1>2. /\ menus \in [Orders -> [Menus -> OrderMenu]]
        /\ \A o \in Orders : Left(menus[o]) # {}
    BY ServingAssumption DEF Init, OrderMenu, Left
  <1>3. /\ orders \in [Orders -> Order]
        /\ \A o \in Orders : ~orders[o].served /\ orders[o].price = TotalPrice(menus[o])
    <2>1. PICK of \in [Orders -> Activities], prepaid \in [Orders -> BOOLEAN] :
             orders = [o \in Orders |-> [activity |-> of[o], state |-> "ORDER",
                                        price |-> TotalPrice(menus[o]), served |-> FALSE,
                                        prepaid |-> prepaid[o]]]
      BY DEF Init
    <2>2. \A o \in Orders : /\ TotalPrice(menus[o]) \in Nat /\ of[o] \in Activities
                            /\ prepaid[o] \in BOOLEAN
      BY <2>1, PriceType
    <2>3. QED
      BY <2>1, <2>2 DEF Order
  <1>4. \A o \in Orders : Whole(orders[o], menus[o])
    BY <1>2, <1>3 DEF Whole
  <1>5. DOMAIN txn = {}
    BY <1>1, RowOf
  <1>6. QED
    BY <1>1, <1>2, <1>3, <1>4, <1>5 DEF IInv, Rows

\* The invariant holds in every reachable state.
THEOREM Invariant == Spec => []IInv
  BY InitIInv, NextKeeps, PTL DEF Spec

\* The state of Serving is well typed, and an order that was not crossed has
\* menus as long as it is not canceled (Order.updateOrderMenu cancels it with
\* its last menu).
THEOREM TypeCorrect == Spec => []TypeOK
  <1>1. IInv => TypeOK
    BY DEF IInv, Rows, TypeOK, Whole
  <1>2. QED
    BY <1>1, Invariant, PTL

\* An order that was served has no menu that was not (Order.serving), whatever
\* the POS does beside, unless it was crossed.
THEOREM ServedAsAWhole == Spec => []ServedWhole
  <1>1. IInv => ServedWhole
    BY DEF IInv, Rows, ServedWhole, Whole
  <1>2. QED
    BY <1>1, Invariant, PTL

\* The price of an order that was not crossed is that of its menus
\* (Order.calculateTotalPrice), though their rows are written back whole.
THEOREM PricedByMenus == Spec => []PriceOfMenus
  <1>1. IInv => PriceOfMenus
    BY DEF IInv, Rows, PriceOfMenus, Whole
  <1>2. QED
    BY <1>1, Invariant, PTL

\* No row written back undoes that an order was served or canceled, or takes it
\* to another activity, but for a move (PosTableManagementService.moveTable).
THEOREM StaysDone == Spec => NothingUndone
  <1> DEFINE Done ==
        \A o \in Orders \ crossed :
          /\ orders[o].served => orders'[o].served
          /\ orders[o].state = "CANCEL" => orders'[o].state = "CANCEL"
          /\ orders[o].activity # orders'[o].activity =>
               \E t \in DOMAIN txn : txn[t].do = "move" /\ o \in DOMAIN txn[t].orders
  <1>1. ASSUME IInv, [Next]_vars PROVE [Done]_vars
    <2>1. CASE orders' = orders
      BY <2>1
    <2>2. CASE \E t \in Threads : Commit(t)
      <3>1. PICK t, job : Committed(t, job)
        BY <1>1, <2>2, CommitOutcome
      <3>2. ASSUME NEW o \in Orders \ crossed
            PROVE  Kept(job, o, orders[o], orders'[o])
        <4>1. orders'[o] = OrderAfter(job, orders, o)
          BY <3>1 DEF Committed
        <4>2. CASE o \in Touched(job)
          BY <1>1, <3>1, <4>1, <4>2 DEF Committed, IInv, Runs, Leaves
        <4>3. CASE o \notin Touched(job)
          BY <4>1, <4>3 DEF OrderAfter, Touched, Kept
        <4>4. QED
          BY <4>2, <4>3
      <3>3. QED
        BY <3>1, <3>2 DEF Kept, Committed
    <2>3. ASSUME NEW t \in Threads, Request(t) PROVE orders' = orders
      <3>1. \A job : Begin(t, job) => orders' = orders
        BY DEF Begin
      <3>2. \A n, do, o, order, rows : Write(t, n, do, o, order, rows) => orders' = orders
        BY <3>1 DEF Write
      <3>3. \A n, to : Move(t, n, to) \/ Merge(t, n, to) => orders' = orders
        BY <3>1 DEF Move, Merge
      <3>4. \A n, o, m : Serve(t, n, o) \/ Toggle(t, n, o, m) => orders' = orders
        BY <3>1 DEF Serve, Toggle
      <3>5. \A n, o : UpdateOrder(t, n, o) \/ CancelOrder(t, n, o) => orders' = orders
        BY <3>2 DEF UpdateOrder, CancelOrder
      <3>6. \A n, o : UpdateMemo(t, n, o) \/ Settle(t, n) \/ Refund(t, o) => orders' = orders
        BY <3>1 DEF UpdateMemo, Settle, Refund
      <3>7. QED
        BY <2>3, <3>3, <3>4, <3>5, <3>6 DEF Request
    <2>4. \/ orders' = orders
          \/ \E t \in Threads : Commit(t)
      BY <1>1, <2>3 DEF Next, Fail, vars
    <2>5. QED
      BY <2>1, <2>2, <2>4
  <1>2. QED
    BY <1>1, Invariant, PTL DEF Spec, NothingUndone

=============================================================================
