------------------------------- MODULE Serving -------------------------------
(***************************************************************************)
(* The serving of orders beside the changes the POS makes to them.          *)
(*                                                                          *)
(* An order and each of its menus say whether they were served.  The hall   *)
(* serves an order by its id, under the lock of the table the request       *)
(* names; the POS changes the orders of a table's active activity under the *)
(* lock of that table.  A request runs in a transaction within its lock: it *)
(* reads rows, and at its commit writes those it changed, with all their    *)
(* columns.  Moves and merges take orders to another table, so the hall may *)
(* name a table the order has left; and a refund, whose lock key names no   *)
(* parameter of its method, locks no table.                                 *)
(*                                                                          *)
(* Payments and discounts are left out: what they make of orders and        *)
(* activities is a choice wherever some payments would lead to it.          *)
(***************************************************************************)
EXTENDS Integers, FiniteSets

CONSTANTS
    Threads,      \* transactions that may run at once
    Tables,       \* table numbers
    Activities,   \* activities of the evening
    Orders,       \* ids of orders
    Menus,        \* the menus of an order, each of price 1
    MaxQuantity   \* of a menu

\* An order is made with at least one menu.
ASSUME ServingAssumption ==
    IsFiniteSet(Menus) /\ Menus # {} /\ MaxQuantity \in Nat \ {0}

VARIABLES
    activities,   \* the committed rows of activities
    orders,       \* the committed rows of orders
    menus,        \* the committed rows of their menus; quantity 0 is a deleted row
    txn,          \* the transactions that run
    crossed       \* history: orders that a request without the lock of their
                  \* table, of the hall or a refund, was about beside another

vars == <<activities, orders, menus, txn, crossed>>

Activity == [table : Tables, active : BOOLEAN]

NoRows == [x \in {} |-> {}]

One(x, row) == [y \in {x} |-> row]

Both(rows, more) ==
    [x \in DOMAIN rows \cup DOMAIN more |-> IF x \in DOMAIN rows THEN rows[x] ELSE more[x]]

Order == [activity : Activities, state : {"ORDER", "CANCEL"}, price : Nat, served : BOOLEAN,
          prepaid : BOOLEAN]

OrderMenu == [quantity : 0 .. MaxQuantity, served : BOOLEAN]

\* Every unit that is ordered of a menu, by the rows of an order's menus.
Units(rows) == {x \in Menus \X (1 .. MaxQuantity) : x[2] <= rows[x[1]].quantity}

\* The price of an order that has the rows of menus: each unit costs 1.
TotalPrice(rows) == Cardinality(Units(rows))

Left(rows) == {m \in Menus : rows[m].quantity > 0}

\* Orders were made at tables of their own activities and nothing was served.
Init ==
    /\ activities \in [Activities -> [table : Tables, active : {TRUE}]]
    /\ \A a, b \in Activities : activities[a].table = activities[b].table => a = b
    /\ menus = [o \in Orders |-> [m \in Menus |-> [quantity |-> 1, served |-> FALSE]]]
    /\ \E of \in [Orders -> Activities], prepaid \in [Orders -> BOOLEAN] :
         orders = [o \in Orders |-> [activity |-> of[o], state |-> "ORDER",
                                    price |-> TotalPrice(menus[o]), served |-> FALSE,
                                    prepaid |-> prepaid[o]]]
    /\ txn = NoRows /\ crossed = {}

-----------------------------------------------------------------------------
(* Requests take their locks, read and compute.                             *)

TableOf(o) == activities[orders[o].activity].table

\* The orders a job writes rows of.
Touched(job) == DOMAIN job.orders \cup {x[1] : x \in DOMAIN job.menus}

\* A job holds its locks, the rows it will write, and of the orders it will
\* write those whose table it has not locked.
Begin(t, job) ==
    /\ t \notin DOMAIN txn
    /\ \A u \in DOMAIN txn : job.keys \cap txn[u].keys = {}
    /\ txn' = [u \in DOMAIN txn \cup {t} |-> IF u = t THEN job ELSE txn[u]]
    /\ crossed' = crossed \cup
         UNION {(job.stray \cap Touched(txn[u])) \cup (txn[u].stray \cap Touched(job)) :
                  u \in DOMAIN txn}
    /\ UNCHANGED <<activities, orders, menus>>

Stray(o, n) == IF n = TableOf(o) THEN {} ELSE {o}

\* The rows of the menus of o that are to change.
Changed(o, rows) ==
    [x \in {<<o, m>> : m \in {m \in Menus : rows[m] # menus[o][m]}} |-> rows[x[2]]]

\* serving(storeId, tableNo, orderId)
Serve(t, n, o) ==
    LET rows == [m \in Menus |->
          IF m \in Left(menus[o]) THEN [menus[o][m] EXCEPT !.served = TRUE] ELSE menus[o][m]]
    IN  /\ ~orders[o].served
        /\ Begin(t, [do |-> "serve", keys |-> {n}, stray |-> Stray(o, n), activities |-> NoRows,
                     orders |-> One(o, [orders[o] EXCEPT !.served = TRUE]),
                     menus |-> Changed(o, rows)])

\* Mutant: whether the order was served is not looked at.
CanToggleAnyway(o, m) == m \in Left(menus[o])

CanToggle(o, m) == ~orders[o].served /\ m \in Left(menus[o])

\* serving(storeId, tableNo, orderId, orderMenuId)
Toggle(t, n, o, m) ==
    /\ CanToggle(o, m)
    /\ Begin(t, [do |-> "toggle", keys |-> {n}, stray |-> Stray(o, n), activities |-> NoRows,
                 orders |-> NoRows,
                 menus |-> One(<<o, m>>, [menus[o][m] EXCEPT !.served = ~@])])

\* The orders of the active activity of a table.
OrdersAt(n) == {o \in Orders : TableOf(o) = n /\ activities[orders[o].activity].active}

OrderedAt(n) == {o \in OrdersAt(n) : orders[o].state = "ORDER"}

\* The orders of an activity that stand, and what a refund may cancel of them.
Standing(a) == {o \in Orders : orders[o].activity = a /\ orders[o].state = "ORDER"}

Revocable(os) == {o \in os : orders[o].prepaid}

\* An activity with another discount, and one that ends.
Discounted(a) == One(a, activities[a])

Ended(a) == One(a, [activities[a] EXCEPT !.active = FALSE])

\* Whether payments may end an activity in which the orders os stand.
Postpaid(os) == \E o \in os : ~orders[o].prepaid

\* The activity of o, which ends once o was its last order; its discount may
\* not exceed what is to be paid.
TryInactivate(o, order) ==
    LET a == orders[o].activity
    IN  IF order.state = "CANCEL" /\ Standing(a) = {o} THEN {Ended(a)} ELSE {NoRows, Discounted(a)}

\* Mutant: the changes of an order lock nothing.
NoLock(n) == {}

\* The lock of a change the POS makes to an order at table n.
LockOf(n) == {n}

\* The order, and rows of its menus, as the POS changes them.
Write(t, n, do, o, order, rows) ==
    \E row \in TryInactivate(o, order) :
       Begin(t, [do |-> do, keys |-> LockOf(n), stray |-> {}, activities |-> row,
                 orders |-> IF order = orders[o] THEN NoRows ELSE One(o, order),
                 menus |-> Changed(o, rows)])

\* Mutant: an order without menus is kept.
WithMenusKept(order, rows) == [order EXCEPT !.price = TotalPrice(rows)]

\* Mutant: the price stays.
WithMenusUnpriced(order, rows) ==
    [order EXCEPT !.state = IF Left(rows) = {} THEN "CANCEL" ELSE @]

\* The order with the price and the state that its menus give it.
WithMenus(order, rows) ==
    [order EXCEPT !.price = TotalPrice(rows),
                  !.state = IF Left(rows) = {} THEN "CANCEL" ELSE @]

\* New quantities for an order; a quantity of 0 removes the menu.
UpdateOrder(t, n, o) ==
    \E new \in [Left(menus[o]) -> 0 .. MaxQuantity] :
       LET rows == [m \in Menus |->
             IF m \in DOMAIN new THEN [menus[o][m] EXCEPT !.quantity = new[m]] ELSE menus[o][m]]
       IN  rows # menus[o] /\ Write(t, n, "update", o, WithMenus(orders[o], rows), rows)

CancelOrder(t, n, o) ==
    Write(t, n, "cancel", o, [orders[o] EXCEPT !.state = "CANCEL"], menus[o])

\* A new memo, of a canceled order too, writes the row of the order.
UpdateMemo(t, n, o) ==
    Begin(t, [do |-> "memo", keys |-> LockOf(n), stray |-> {}, activities |-> NoRows,
              orders |-> One(o, orders[o]), menus |-> NoRows])

\* The activity of a table that is served.
IsAt(a, n) == activities[a] = [table |-> n, active |-> TRUE]

MoveJob(n, to, rows, moved) ==
    [do |-> "move", keys |-> {n, to}, stray |-> {}, activities |-> rows, orders |-> moved,
     menus |-> NoRows]

\* An activity is moved to a free table.
Move(t, n, to) ==
    /\ n # to /\ \A b \in Activities : ~IsAt(b, to)
    /\ \E a \in Activities :
         /\ IsAt(a, n)
         /\ Begin(t, MoveJob(n, to, One(a, [activities[a] EXCEPT !.table = to]), NoRows))

\* The orders os as they go to activity b, those of C canceled.
Joined(b, os, C) ==
    [o \in os \cup C |->
       [orders[o] EXCEPT !.activity = b, !.state = IF o \in C THEN "CANCEL" ELSE @]]

\* What payments, replayed or refunded, may make of the row of activity a.
Paid(a, os) == {NoRows} \cup (IF activities[a].active /\ Postpaid(os) THEN {Ended(a)} ELSE {})

\* The orders of an activity go to the one at another table.  Its payments are
\* replayed there: a refund among them may cancel a prepaid order of either, as
\* it did before, and any may end the activity they come to.
Merge(t, n, to) ==
    \E a, b \in Activities :
       LET moved == {o \in Orders : orders[o].activity = a}
           standing == Standing(a) \cup Standing(b)
       IN  /\ n # to /\ IsAt(a, n) /\ IsAt(b, to)
           /\ \E C \in SUBSET Revocable(standing), row \in Paid(b, standing) \cup {Discounted(b)} :
                Begin(t, MoveJob(n, to, Both(Ended(a), row), Joined(b, moved, C)))

\* The activity of a table gets a discount, or is paid and over.
Settle(t, n) ==
    \E a \in Activities :
       /\ IsAt(a, n)
       /\ \E row \in {Discounted(a), Ended(a)} :
            Begin(t, [do |-> "settle", keys |-> {n}, stray |-> {}, activities |-> row,
                      orders |-> NoRows, menus |-> NoRows])

\* A payment of an activity is refunded, without a lock: a prepaid order of it
\* may be canceled, and the activity end since more was paid than is refunded.
Refund(t, a) ==
    \E C \in SUBSET Revocable(Standing(a)), row \in Paid(a, Standing(a)) :
       /\ Cardinality(C) <= 1 /\ (C # {} \/ row # NoRows)
       /\ Begin(t, [do |-> "refund", keys |-> {}, stray |-> C, activities |-> row,
                    orders |-> Joined(a, {}, C), menus |-> NoRows])

Request(t) ==
    \E n \in Tables :
       \/ \E o \in Orders : Serve(t, n, o) \/ \E m \in Menus : Toggle(t, n, o, m)
       \/ \E o \in OrderedAt(n) : UpdateOrder(t, n, o) \/ CancelOrder(t, n, o)
       \/ \E o \in OrdersAt(n) : UpdateMemo(t, n, o)
       \/ \E to \in Tables : Move(t, n, to) \/ Merge(t, n, to)
       \/ Settle(t, n)
    \/ \E a \in Activities : Refund(t, a)

-----------------------------------------------------------------------------
(* Requests commit or fail.                                                 *)

End(t) == txn' = [u \in DOMAIN txn \ {t} |-> txn[u]]

\* The rows old with those of new written over them.
Over(new, old) == [x \in DOMAIN old |-> IF x \in DOMAIN new THEN new[x] ELSE old[x]]

\* A row that was deleted meanwhile can be neither updated nor deleted.
Feasible(job) == \A x \in DOMAIN job.menus : menus[x[1]][x[2]].quantity > 0

\* The orders of an activity that was moved since a refund read its row, which
\* then takes them back to the table of before.
TakenBack(job) ==
    {o \in Orders : LET a == orders[o].activity
                    IN  /\ job.do = "refund" /\ a \in DOMAIN job.activities
                        /\ job.activities[a].table # activities[a].table}

Commit(t) ==
    LET job == txn[t]
    IN  /\ t \in DOMAIN txn /\ Feasible(job)
        /\ activities' = Over(job.activities, activities)
        /\ orders' = Over(job.orders, orders)
        /\ menus' = [o \in Orders |-> [m \in Menus |->
             IF <<o, m>> \in DOMAIN job.menus THEN job.menus[<<o, m>>] ELSE menus[o][m]]]
        /\ End(t)
        /\ crossed' = crossed \cup TakenBack(job)

Fail(t) ==
    /\ t \in DOMAIN txn
    /\ End(t)
    /\ UNCHANGED <<activities, orders, menus, crossed>>

Next == \E t \in Threads : Request(t) \/ Commit(t) \/ Fail(t)

Spec == Init /\ [][Next]_vars

-----------------------------------------------------------------------------
(* Correctness.                                                             *)

\* The state is well typed, and an order that is not canceled has menus.
TypeOK ==
    /\ activities \in [Activities -> Activity] /\ orders \in [Orders -> Order]
    /\ menus \in [Orders -> [Menus -> OrderMenu]]
    /\ DOMAIN txn \subseteq Threads /\ crossed \subseteq Orders
    /\ \A o \in Orders \ crossed : orders[o].state = "ORDER" => Left(menus[o]) # {}

\* An order that was served has no menu that was not, wherever the hall thinks
\* the order is, unless a request that had not locked the table of the order,
\* be it of the hall or a refund, wrote it beside another, or a refund took its
\* activity back to the table it had left.
ServedWhole ==
    \A o \in Orders \ crossed :
       orders[o].served => \A m \in Left(menus[o]) : menus[o][m].served

\* With the same exception the price of an order is that of the menus it has,
\* though a menu's row is written with its quantity when it is served.
PriceOfMenus == \A o \in Orders \ crossed : orders[o].price = TotalPrice(menus[o])

\* With the same exception what was done to an order is not undone by a row
\* written back: it stays served and canceled, and only a merge changes its
\* activity.
NothingUndone ==
    [][\A o \in Orders \ crossed :
         /\ orders[o].served => orders'[o].served
         /\ orders[o].state = "CANCEL" => orders'[o].state = "CANCEL"
         /\ orders[o].activity # orders'[o].activity =>
              \E t \in DOMAIN txn : txn[t].do = "move" /\ o \in DOMAIN txn[t].orders]_vars

=============================================================================
