------------------------ MODULE MCTableTransactions ------------------------
(***************************************************************************)
(* TableTransactions for TLC: two tables, from an evening with a prepaid     *)
(* order on one and a postpaid one on the other, and from an empty store.    *)
(***************************************************************************)
EXTENDS TableTransactions, TLC

CONSTANTS t1, t2, card

MCPrices == {2}
MCAmounts == {2}
MCDiscounts == {1}
MCLong == -16 .. 16

Prepaid ==
    OrderCreated(PaymentApproved(EmptyLedger, t1, 1, 1, 2, card), t1, 1, 2, "PREPAID", 2)

Seated == [ledger |-> OrderCreated(Prepaid, t2, 3, 3, "POSTPAID", 2), clock |-> 3]

Empty == [ledger |-> EmptyLedger, clock |-> 3]

SeatedOnly == {Seated}

SeatedOrEmpty == {Seated, Empty}

AllKinds == {"create", "approve", "refund", "cancelOrder", "updateOrder",
             "discount", "complete", "move"}

KeyedKinds == AllKinds \ {"create", "refund"}

Symmetry == Permutations(Threads)

=============================================================================
