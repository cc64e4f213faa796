----------------------------- MODULE PosTables -----------------------------
(***************************************************************************)
(* The POS of one store with its transactions run one at a time: what       *)
(* PosTable, PosTableActivity, Order and OrderPayment promise when every    *)
(* request has its tables to itself.  One action per service method that    *)
(* writes the ledger; a request the code refuses by throwing is a step that *)
(* is not there, since its transaction rolls back.                          *)
(***************************************************************************)
EXTENDS TableLedger

CONSTANTS
    MaxClock,       \* bound on the orders and payments ever created
    MaxActivities   \* bound on the activities ever opened

ASSUME BoundsAssumption == MaxClock \in Nat /\ MaxActivities \in Nat

VARIABLES
    ledger,   \* the committed rows
    clock     \* the last identifier given to an order, a payment or an activity

vars == <<ledger, clock>>

Init == ledger = EmptyLedger /\ clock = 0

\* The next identifier.
Tick == clock < MaxClock /\ clock' = clock + 1

\* The activity a service on table t finds or opens.
Seat(t) == {a \in FindOrCreate(ledger, t, clock') :
              Cardinality(DOMAIN ledger.activities \cup {a}) <= MaxActivities}

CreateOrder(t) ==
    /\ Tick
    /\ \E a \in Seat(t), type \in OrderTypes, price \in Prices :
         ledger' = Saved(ledger,
                     OrderCreated(Loaded(ledger, {a}), t, a, clock', type, price))

ApprovePayment(t) ==
    /\ Tick
    /\ \E a \in Seat(t),
          amount \in Amounts, approvalNo \in ApprovalNos \cup {Cash} :
         ledger' = Saved(ledger,
                     PaymentApproved(Loaded(ledger, {a}), t, a, clock', amount, approvalNo))

CancelPayment(p) ==
    /\ Tick
    /\ CanCancelPayment(ledger, p)
    /\ \E approvalNo \in ApprovalNos :
         LET a == ledger.payments[p].activity
         IN  ledger' = Saved(ledger,
                         PaymentCanceled(Loaded(ledger, {a}), p, clock', approvalNo))

CancelOrder(t) ==
    /\ \E a \in ActiveActivities(ledger, t) : \E o \in OrderedOrders(ledger, a) :
         ledger' = Saved(ledger, OrderCanceled(Loaded(ledger, {a}), a, o))
    /\ UNCHANGED clock

\* One request updates one order, or two one after the other.
UpdateOrder(t) ==
    /\ \E a \in ActiveActivities(ledger, t) :
       \E o \in OrderedOrders(ledger, a), price \in Prices \cup {Emptied} :
         LET once == OrderUpdated(Loaded(ledger, {a}), a, o, price)
         IN  \/ ledger' = Saved(ledger, once)
             \/ \E o2 \in OrderedOrders(once, a), price2 \in Prices \cup {Emptied} :
                  ledger' = Saved(ledger, OrderUpdated(once, a, o2, price2))
    /\ UNCHANGED clock

DiscountTable(t) ==
    /\ \E a \in ActiveActivities(ledger, t), discount \in Discounts :
         ledger' = Saved(ledger, Discounted(Loaded(ledger, {a}), a, discount))
    /\ UNCHANGED clock

CompleteActivity(t) ==
    /\ \E a \in ActiveActivities(ledger, t) :
         /\ CanComplete(Loaded(ledger, {a}), a)
         /\ ledger' = Saved(ledger, Completed(Loaded(ledger, {a}), a))
    /\ UNCHANGED clock

\* Mutant: moves to a table whoever sits there.
MoveTableOver(source, target) ==
    /\ source # target
    /\ \E a \in ActiveActivities(ledger, source) :
         ledger' = Saved(ledger, Moved(Loaded(ledger, {a}), a, target))
    /\ UNCHANGED clock

\* To a table with an active activity a move is a merge.
MoveTable(source, target) ==
    /\ source # target
    /\ \E a \in ActiveActivities(ledger, source) :
         IF ActiveActivities(ledger, target) = {}
           THEN ledger' = Saved(ledger, Moved(Loaded(ledger, {a}), a, target))
           ELSE \E b \in ActiveActivities(ledger, target) :
                  ledger' = Saved(ledger, Merged(Loaded(ledger, {a, b}), a, b))
    /\ UNCHANGED clock

Next ==
    \/ \E t \in Tables :
         \/ CreateOrder(t)
         \/ ApprovePayment(t)
         \/ CancelOrder(t)
         \/ UpdateOrder(t)
         \/ DiscountTable(t)
         \/ CompleteActivity(t)
    \/ \E p \in DOMAIN ledger.payments : CancelPayment(p)
    \/ \E source, target \in Tables : MoveTable(source, target)

Spec == Init /\ [][Next]_vars

-----------------------------------------------------------------------------
(* Correctness.                                                             *)

\* The rows are well typed and refer to rows that exist.
TypeOK == clock \in 0 .. MaxClock /\ IsLedger(ledger, clock)

\* A table has at most one active activity.  PosTable.getActiveActivity and
\* the activity query both take any one they find: with two, orders and
\* payments of one party of guests would land on either.
OneActiveActivity == OneActive(ledger)

\* Every refund undoes one earlier approval, of the same amount and on the
\* same activity even after tables were moved and merged; no approval is
\* refunded twice, and the flag OrderPayment.canCancel reads says which were.
RefundsPaired == Paired(ledger)

\* What a closed activity recorded is final: it does not reopen, its discount
\* stays, nothing is ordered or approved on it any more, and an order on it
\* changes only by being canceled with the prepayment that is refunded.
IsFinal(a) ==
    /\ ledger'.activities[a] = ledger.activities[a]
    /\ OrdersOf(ledger', a) = OrdersOf(ledger, a)
    /\ \A o \in OrdersOf(ledger, a) :
         ledger'.orders[o] # ledger.orders[o] =>
           /\ ledger.orders[o].type = "PREPAID"
           /\ ledger'.orders[o] = [ledger.orders[o] EXCEPT !.state = "CANCEL"]
    /\ PaymentsOf(ledger, a) \subseteq PaymentsOf(ledger', a)
    /\ \A p \in PaymentsOf(ledger', a) \ PaymentsOf(ledger, a) :
         ledger'.payments[p].state = "CANCEL"

ClosedIsFinal ==
    [][\A a \in DOMAIN ledger.activities :
         ~ledger.activities[a].active => IsFinal(a)]_vars

Closes(a) == ledger.activities[a].active /\ ~ledger'.activities[a].active

\* An activity that closes with orders standing has been paid for in full,
\* whichever of the ways to close it was taken.
ClosesPaid ==
    [][\A a \in DOMAIN ledger.activities :
         Closes(a) /\ HasOrderedOrder(ledger', a) =>
           RemainingPaymentPriceWithDiscount(ledger', a) <= 0]_vars

\* The same of every step but a merge: no row changes its activity.
Reassigns ==
    \/ \E o \in DOMAIN ledger.orders :
         ledger'.orders[o].activity # ledger.orders[o].activity
    \/ \E p \in DOMAIN ledger.payments :
         ledger'.payments[p].activity # ledger.payments[p].activity

ClosesPaidUnlessMerged ==
    [][\A a \in DOMAIN ledger.activities :
         Closes(a) /\ ~Reassigns /\ HasOrderedOrder(ledger', a) =>
           RemainingPaymentPriceWithDiscount(ledger', a) <= 0]_vars

\* A refund gives the money back once: either it cancels one order of that
\* price and what is left to pay stays, or it cancels none and exactly its
\* amount is to be paid again (where no sum wraps around).
RefundBalances ==
    [][\A r \in DOMAIN ledger'.payments \ DOMAIN ledger.payments :
         LET a == ledger'.payments[r].activity
             gone == OrderedOrders(ledger, a) \ OrderedOrders(ledger', a)
             owed == RemainingPaymentPrice(ledger', a) - RemainingPaymentPrice(ledger, a)
         IN  /\ ledger'.payments[r].state = "CANCEL"
             /\ IsExact(ledger, a) /\ IsExact(ledger', a)
             => \/ gone = {} /\ owed = ledger'.payments[r].amount
                \/ Cardinality(gone) = 1 /\ owed = 0]_vars

\* The discount of an activity is not negative.
DiscountNotNegative ==
    \A a \in DOMAIN ledger.activities : ledger.activities[a].discount >= 0

=============================================================================
