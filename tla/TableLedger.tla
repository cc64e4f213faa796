---------------------------- MODULE TableLedger ----------------------------
(***************************************************************************)
(* The money and life cycle of the POS tables of one store, as operators    *)
(* on a ledger: the rows of pos_table_activity, orders and order_payment.   *)
(* A service loads activities with their orders and payments, changes these *)
(* entities and saves them: the operators from "Payments" on take what is   *)
(* loaded to what is saved, and a "Can" operator is false where the code    *)
(* throws, which rolls the transaction back.  The modules that run these    *)
(* transactions, one at a time or interleaved, are PosTables and            *)
(* TableTransactions.                                                       *)
(*                                                                          *)
(* An order or a payment is identified by the instant it was created at:    *)
(* both are numbered by one clock, so comparing identifiers compares        *)
(* createdAt.  The menus of an order are abstracted to its price.           *)
(***************************************************************************)
EXTENDS Integers, FiniteSets, FiniteSetsExt, Folds

CONSTANTS
    Tables,      \* table numbers of the open store
    Prices,      \* the total prices an order may have
    Amounts,     \* the amounts a payment may be made of
    Discounts,   \* the discounts a POS may ask for
    ApprovalNos, \* approval numbers of card payments and cash receipts
    Cash,        \* the empty approval number, of every pure cash payment
    Emptied,     \* the update of an order that removes its last menu
    Long,        \* the integers a money column holds
    Overflow     \* what a sum outside Long wraps around to

ASSUME LedgerAssumption ==
    /\ Prices \subseteq Nat /\ Amounts \subseteq Nat /\ Discounts \subseteq Nat
    /\ Long \subseteq Int /\ 0 \in Long /\ Overflow \in Long
    /\ Prices \subseteq Long /\ Amounts \subseteq Long
    /\ Cash \notin ApprovalNos
    /\ Emptied \notin Prices

OrderTypes == {"PREPAID", "POSTPAID"}

\* The rows of the three tables.  "refunds" is a history variable: the
\* approval a CANCEL payment undoes, which the code does not store.
Activity == [table : Tables, active : BOOLEAN, discount : Long]

Order == [activity : Nat, type : OrderTypes, price : Long,
          category : {"INITIAL", "ADDITIONAL"}, state : {"ORDER", "CANCEL"}]

Payment == [activity : Nat, state : {"APPROVE", "CANCEL"}, amount : Amounts,
            approvalNo : ApprovalNos \cup {Cash}, cancellable : BOOLEAN,
            refunds : Nat]

\* A sum of longs, as a long.
AsLong(x) == IF x \in Long THEN x ELSE Overflow

NoRows == [x \in {} |-> x]

\* rows with one more row, numbered n (@@ of module TLC is opaque to proofs).
WithRow(rows, n, row) ==
    [x \in DOMAIN rows \cup {n} |-> IF x = n THEN row ELSE rows[x]]

EmptyLedger == [activities |-> NoRows, orders |-> NoRows, payments |-> NoRows]

\* Well typed rows numbered up to n, whose activity exists (the foreign keys
\* of orders and order_payment).
IsLedger(l, n) ==
    /\ l = [activities |-> l.activities, orders |-> l.orders, payments |-> l.payments]
    /\ l.activities \in [DOMAIN l.activities -> Activity]
    /\ l.orders \in [DOMAIN l.orders -> Order]
    /\ l.payments \in [DOMAIN l.payments -> Payment]
    /\ DOMAIN l.activities \cup DOMAIN l.orders \cup DOMAIN l.payments \subseteq 1 .. n
    /\ \A o \in DOMAIN l.orders : l.orders[o].activity \in DOMAIN l.activities
    /\ \A p \in DOMAIN l.payments : l.payments[p].activity \in DOMAIN l.activities

\* What a service that works on activities S loads: their rows, their orders
\* and their payments.
Loaded(l, S) ==
    [activities |-> [a \in DOMAIN l.activities \cap S |-> l.activities[a]],
     orders |-> [o \in {o \in DOMAIN l.orders : l.orders[o].activity \in S} |->
                   l.orders[o]],
     payments |-> [p \in {p \in DOMAIN l.payments : l.payments[p].activity \in S} |->
                     l.payments[p]]]

\* rows with those that a service inserted or may have changed.
SavedRows(rows, changed) ==
    [x \in DOMAIN rows \cup DOMAIN changed |->
        IF x \in DOMAIN changed THEN changed[x] ELSE rows[x]]

\* Ledger l once the service saves the entities g.
Saved(l, g) ==
    [activities |-> SavedRows(l.activities, g.activities),
     orders |-> SavedRows(l.orders, g.orders),
     payments |-> SavedRows(l.payments, g.payments)]

-----------------------------------------------------------------------------
(* What an activity says about itself.                                      *)

OrdersOf(l, a) == {o \in DOMAIN l.orders : l.orders[o].activity = a}

PaymentsOf(l, a) == {p \in DOMAIN l.payments : l.payments[p].activity = a}

OrderedOrders(l, a) == {o \in OrdersOf(l, a) : l.orders[o].state = "ORDER"}

HasOrderedOrder(l, a) == OrderedOrders(l, a) # {}

\* Of type POSTPAID unless every ordered order is prepaid: an activity
\* without ordered orders counts as prepaid.
IsPostpaidTable(l, a) ==
    \E o \in OrderedOrders(l, a) : l.orders[o].type # "PREPAID"

PaymentPrice(p) == IF p.state = "CANCEL" THEN -p.amount ELSE p.amount

OneOf(S) == CHOOSE x \in S : TRUE

\* The sum of the values of f (a recursive function, which proofs can unfold).
SumOf(f) ==
    LET sum[S \in SUBSET DOMAIN f] ==
          IF S = {} THEN 0 ELSE f[OneOf(S)] + sum[S \ {OneOf(S)}]
    IN  sum[DOMAIN f]

OrderSum(l, a) == SumOf([o \in OrderedOrders(l, a) |-> l.orders[o].price])

PaymentSum(l, a) == SumOf([p \in PaymentsOf(l, a) |-> PaymentPrice(l.payments[p])])

TotalOrderPrice(l, a) == AsLong(OrderSum(l, a))

TotalPaymentPrice(l, a) == AsLong(PaymentSum(l, a))

RemainingPaymentPrice(l, a) ==
    AsLong(TotalOrderPrice(l, a) - TotalPaymentPrice(l, a))

RemainingPaymentPriceWithDiscount(l, a) ==
    AsLong(RemainingPaymentPrice(l, a) - l.activities[a].discount)

\* No sum of activity a wraps around.
IsExact(l, a) ==
    {OrderSum(l, a), PaymentSum(l, a), OrderSum(l, a) - PaymentSum(l, a)} \subseteq Long

-----------------------------------------------------------------------------
(* Finding and opening the activity of a table.                             *)

ActiveActivities(l, t) ==
    {a \in DOMAIN l.activities : l.activities[a].active /\ l.activities[a].table = t}

\* Mutant: the query forgets to ask for an active one.
FindOrCreateOfAny(l, t, n) ==
    LET found == {a \in DOMAIN l.activities : l.activities[a].table = t}
    IN  IF found = {} THEN {n} ELSE found

\* The activity a service works on: an active one of the table (the query
\* takes the first row of no stated order), else a new one, numbered n.
FindOrCreate(l, t, n) ==
    IF ActiveActivities(l, t) = {} THEN {n} ELSE ActiveActivities(l, t)

\* Mutant: a new activity is not saved.
WithActivityUnsaved(l, t, a) == l

WithActivity(l, t, a) ==
    IF a \in DOMAIN l.activities
      THEN l
      ELSE [l EXCEPT !.activities =
              WithRow(l.activities, a, [table |-> t, active |-> TRUE, discount |-> 0])]

\* No table has two active activities.
OneActive(l) ==
    \A a, b \in DOMAIN l.activities :
        /\ l.activities[a].active /\ l.activities[b].active
        /\ l.activities[a].table = l.activities[b].table
        => a = b

-----------------------------------------------------------------------------
(* Payments.  From here on, l is what a service loaded.                     *)

Approvals(l) == {p \in DOMAIN l.payments : l.payments[p].state = "APPROVE"}

Refunds(l) == {p \in DOMAIN l.payments : l.payments[p].state = "CANCEL"}

\* Refund r undoes an earlier approval of its amount, on the same activity.
IsPaired(l, r) ==
    LET p == l.payments[r].refunds
    IN  /\ p \in Approvals(l) /\ p < r
        /\ l.payments[p].activity = l.payments[r].activity
        /\ l.payments[p].amount = l.payments[r].amount

\* No approval is refunded twice.
RefundedOnce(l) ==
    \A r, s \in Refunds(l) : l.payments[r].refunds = l.payments[s].refunds => r = s

\* The approvals refunded are those no longer cancellable.
CancellableUnlessRefunded(l) ==
    \A p \in Approvals(l) :
        ~l.payments[p].cancellable <=> \E r \in Refunds(l) : l.payments[r].refunds = p

Paired(l) ==
    /\ \A r \in Refunds(l) : IsPaired(l, r)
    /\ RefundedOnce(l)
    /\ CancellableUnlessRefunded(l)

CancelOrders(orders, S) ==
    [o \in DOMAIN orders |->
        IF o \in S THEN [orders[o] EXCEPT !.state = "CANCEL"] ELSE orders[o]]

\* The element of S that comes first in a list that holds the rows of "own",
\* in the order of their identifiers, before those a merge appended.
FirstOf(S, own) == Min(IF S \cap own = {} THEN S ELSE S \cap own)

\* Mutant: the refunded amount is not compared with the price.
RevokedOrdersOfAnyPrice(l, a, n, own) ==
    LET refund == l.payments[n]
        approved == FirstOf({p \in PaymentsOf(l, a) :
                               l.payments[p].approvalNo = refund.approvalNo}, own)
        paid == {o \in OrderedOrders(l, a) :
                   l.orders[o].type = "PREPAID" /\ approved < o /\ o < n}
    IN  IF refund.state = "CANCEL" /\ paid # {} THEN {FirstOf(paid, own)} ELSE {}

\* The order that adding payment n to activity a cancels, as a set: when n
\* is a refund, a prepaid order of the refunded amount that was placed
\* between the payment that carries the same approval number, the first in
\* the list, and the refund.
RevokedOrders(l, a, n, own) ==
    LET refund == l.payments[n]
        approved == FirstOf({p \in PaymentsOf(l, a) :
                               l.payments[p].approvalNo = refund.approvalNo}, own)
        paid == {o \in OrderedOrders(l, a) :
                   /\ l.orders[o].type = "PREPAID"
                   /\ l.orders[o].price = refund.amount
                   /\ approved < o /\ o < n}
    IN  IF refund.state = "CANCEL" /\ paid # {} THEN {FirstOf(paid, own)} ELSE {}

\* Whether activity a counts as paid: PosTableActivity.addPayment then closes it.
IsSettled(l, a) ==
    IsPostpaidTable(l, a) /\ RemainingPaymentPriceWithDiscount(l, a) <= 0

\* PosTableActivity.addPayment, for a payment n already among the rows of l.
AddPayment(l, a, n, own) ==
    LET m == [l EXCEPT !.orders = CancelOrders(l.orders, RevokedOrders(l, a, n, own))]
    IN  [m EXCEPT !.activities[a].active =
            l.activities[a].active /\ ~IsSettled(m, a)]

\* All rows: the list of an activity loaded from the database is sorted.
Sorted(l) == DOMAIN l.orders \cup DOMAIN l.payments

WithPayment(l, n, payment) == [l EXCEPT !.payments = WithRow(l.payments, n, payment)]

\* OrderPaymentModifyService.approve on activity a of table t.
PaymentApproved(l, t, a, n, amount, approvalNo) ==
    LET m == WithPayment(WithActivity(l, t, a), n,
               [activity |-> a, state |-> "APPROVE", amount |-> amount,
                approvalNo |-> approvalNo, cancellable |-> TRUE, refunds |-> 0])
    IN  AddPayment(m, a, n, Sorted(m))

\* Mutant: the flag is not asked.
CanCancelAnyPayment(l, p) ==
    p \in DOMAIN l.payments /\ l.payments[p].state = "APPROVE"

CanCancelPayment(l, p) ==
    /\ p \in DOMAIN l.payments
    /\ l.payments[p].state = "APPROVE"
    /\ l.payments[p].cancellable

Uncancellable(l, p) ==
    [l EXCEPT !.payments = [l.payments EXCEPT ![p].cancellable = FALSE]]

\* OrderPaymentModifyService.cancel: the refund n of approval p, on whatever
\* activity p points at, closed or not.  The terminal gives the approval
\* number of the cancellation; a pure cash payment has none.
PaymentCanceled(l, p, n, approvalNo) ==
    LET approved == l.payments[p]
        a == approved.activity
        m == WithPayment(Uncancellable(l, p), n,
               [activity |-> a, state |-> "CANCEL", amount |-> approved.amount,
                approvalNo |-> IF approved.approvalNo = Cash THEN Cash ELSE approvalNo,
                cancellable |-> FALSE, refunds |-> p])
    IN  AddPayment(m, a, n, Sorted(m))

-----------------------------------------------------------------------------
(* Orders.                                                                  *)

\* OrderModifyService.create: an order n of activity a of table t.
OrderCreated(l, t, a, n, type, price) ==
    LET m == WithActivity(l, t, a)
        category == IF OrdersOf(m, a) = {} THEN "INITIAL" ELSE "ADDITIONAL"
        order == [activity |-> a, type |-> type, price |-> price,
                  category |-> category, state |-> "ORDER"]
    IN  [m EXCEPT !.orders = WithRow(m.orders, n, order)]

\* PosTableActivity.setDiscountPrice.
ClampDiscount(l, a, discount) ==
    [l EXCEPT !.activities[a].discount =
        AsLong(Min({discount, RemainingPaymentPrice(l, a)}))]

\* Mutant: closes once no postpaid order is left.
TryInactivatePrepaid(l, a) ==
    [l EXCEPT !.activities[a].active = l.activities[a].active /\ IsPostpaidTable(l, a)]

\* PosTableActivity.tryInactivate.
TryInactivate(l, a) ==
    [l EXCEPT !.activities[a].active = l.activities[a].active /\ HasOrderedOrder(l, a)]

\* PosTableActivity.cancelOrder.
OrderCanceled(l, a, o) ==
    LET m == [l EXCEPT !.orders = CancelOrders(l.orders, {o})]
    IN  TryInactivate(ClampDiscount(m, a, l.activities[a].discount), a)

\* PosTableActivity.updateOrder: new quantities give order o a new price; an
\* order left without menus is canceled.
OrderUpdated(l, a, o, price) ==
    LET order == IF price = Emptied
                   THEN [l.orders[o] EXCEPT !.price = 0, !.state = "CANCEL"]
                   ELSE [l.orders[o] EXCEPT !.price = price]
        m == [l EXCEPT !.orders[o] = order]
    IN  TryInactivate(ClampDiscount(m, a, l.activities[a].discount), a)

-----------------------------------------------------------------------------
(* Tables.                                                                  *)

\* PosTableActivity.discount.
Discounted(l, a, discount) == ClampDiscount(l, a, discount)

CanComplete(l, a) == RemainingPaymentPriceWithDiscount(l, a) <= 0

\* PosTableActivity.complete.
Completed(l, a) == [l EXCEPT !.activities[a].active = FALSE]

\* PosTableActivity.moveTable: table t has no active activity.
Moved(l, a, t) == [l EXCEPT !.activities[a].table = t]

Reassign(rows, a, b) ==
    [x \in DOMAIN rows |->
        IF rows[x].activity = a THEN [rows[x] EXCEPT !.activity = b] ELSE rows[x]]

\* The ledger after activity b, that has the orders of a already, took the
\* payments of a one by one, each through addPayment.
ReplayPayments(l, a, b) ==
    LET own == Sorted(l) \ (OrdersOf(l, a) \cup PaymentsOf(l, a))
        joined == [l EXCEPT
            !.activities[b].discount =
                AsLong(l.activities[b].discount + l.activities[a].discount),
            !.orders = Reassign(l.orders, a, b)]
        Take(n, m) == AddPayment([m EXCEPT !.payments[n].activity = b], b, n, own)
    IN  MapThenFoldSet(Take, joined, LAMBDA n : n, Max, PaymentsOf(l, a))

\* PosTableActivity.merge: b takes what a has and a closes.  The replay
\* cancels orders and closes b; it changes nothing else.
Merged(l, a, b) ==
    LET replayed == ReplayPayments(l, a, b)
        revoked == {o \in DOMAIN l.orders : replayed.orders[o].state = "CANCEL"}
    IN  [l EXCEPT
            !.activities = [l.activities EXCEPT
                ![a].discount = 0,
                ![a].active = FALSE,
                ![b].discount =
                    AsLong(l.activities[b].discount + l.activities[a].discount),
                ![b].active = l.activities[b].active /\ replayed.activities[b].active],
            !.orders = CancelOrders(Reassign(l.orders, a, b), revoked),
            !.payments = Reassign(l.payments, a, b)]

=============================================================================
