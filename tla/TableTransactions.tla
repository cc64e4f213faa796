------------------------- MODULE TableTransactions -------------------------
(***************************************************************************)
(* The services of PosTables as they really run: several request            *)
(* threads at once, each holding the distributed locks of its own method,   *)
(* each computing on the snapshot its transaction reads (MySQL's repeatable *)
(* read) and writing back, when it commits, the whole of every row it       *)
(* changed (Hibernate without @DynamicUpdate or @Version).                  *)
(*                                                                          *)
(* Of the locks, what DistributedLock promises is taken: two transactions   *)
(* on a common key do not overlap.  A lease that lapses is not modelled     *)
(* here.  Ledger, clock and services are those of PosTables; MaxActivities   *)
(* bounds its runs only.                                                    *)
(***************************************************************************)
EXTENDS PosTables

CONSTANTS
    Threads,   \* request threads
    Kinds,     \* the services in use
    Openings,  \* [ledger, clock] records: the evenings a run sets out from
    Unkeyed,   \* the "null" in the lock key of a method without a table number
    Idle       \* the state of a thread that runs no transaction

ASSUME TransactionsAssumption ==
    /\ Kinds \subseteq {"create", "approve", "refund", "cancelOrder", "updateOrder",
                        "discount", "complete", "move"}
    /\ Unkeyed \notin Tables
    /\ \A opening \in Openings :
         /\ opening.clock \in Nat
         /\ IsLedger(opening.ledger, opening.clock)
         /\ OneActive(opening.ledger)
         /\ Paired(opening.ledger)

VARIABLE txn  \* per thread: the request, the snapshot and the rows after it

txVars == <<ledger, clock, txn>>

TxInit ==
    /\ \E opening \in Openings : ledger = opening.ledger /\ clock = opening.clock
    /\ txn = [r \in Threads |-> Idle]

-----------------------------------------------------------------------------
(* Requests, with the identifier n a new order or payment would get.        *)

Creates(n) ==
    [kind : {"create"}, table : Tables, n : {n}, type : OrderTypes, price : Prices]

Approves(n) ==
    [kind : {"approve"}, table : Tables, n : {n}, amount : Amounts,
     approvalNo : ApprovalNos \cup {Cash}]

RefundsOf(l, n) ==
    [kind : {"refund"}, payment : DOMAIN l.payments, n : {n}, approvalNo : ApprovalNos]

OrderCancels(l) == [kind : {"cancelOrder"}, table : Tables, order : DOMAIN l.orders]

OrderUpdates(l) ==
    [kind : {"updateOrder"}, table : Tables, order : DOMAIN l.orders,
     price : Prices \cup {Emptied}]

DiscountsOf == [kind : {"discount"}, table : Tables, discount : Discounts]

Completes == [kind : {"complete"}, table : Tables]

Moves == {m \in [kind : {"move"}, table : Tables, target : Tables] : m.table # m.target}

Makes(q) == q.kind \in {"create", "approve", "refund"}

\* The requests that may be made of ledger l.
RequestsOf(l, n) ==
    {q \in UNION {Creates(n), Approves(n), RefundsOf(l, n), OrderCancels(l),
                  OrderUpdates(l), DiscountsOf, Completes, Moves} : q.kind \in Kinds}

\* Mutant: moveTable locks the table it leaves only.
LockKeysOfSource(q) ==
    IF q.kind \in {"create", "refund"} THEN {Unkeyed} ELSE {q.table}

\* Mutant: approve has no table number to lock either.
LockKeysWithoutApprove(q) ==
    CASE q.kind \in {"create", "refund", "approve"} -> {Unkeyed}
      [] q.kind = "move" -> {q.table, q.target}
      [] OTHER -> {q.table}

\* The keys a method is annotated with.  Those of OrderModifyService.create
\* and OrderPaymentModifyService.cancel name #tableNo, which is no parameter
\* of theirs and evaluates to null.
LockKeys(q) ==
    CASE q.kind \in {"create", "refund"} -> {Unkeyed}
      [] q.kind = "move" -> {q.table, q.target}
      [] OTHER -> {q.table}

\* The entities a move from table s to table t may leave of those it loads.
MoveChanges(l, s, t) ==
    IF ActiveActivities(l, t) = {}
      THEN {Moved(Loaded(l, {a}), a, t) : a \in ActiveActivities(l, s)}
      ELSE {Merged(Loaded(l, {a, b}), a, b) :
              a \in ActiveActivities(l, s), b \in ActiveActivities(l, t)}

\* The entities request q may leave of those it loads from ledger l; none
\* where the service throws.
Changes(q, l) ==
    CASE q.kind = "create" ->
           {OrderCreated(Loaded(l, {a}), q.table, a, q.n, q.type, q.price) :
              a \in FindOrCreate(l, q.table, q.n)}
      [] q.kind = "approve" ->
           {PaymentApproved(Loaded(l, {a}), q.table, a, q.n, q.amount, q.approvalNo) :
              a \in FindOrCreate(l, q.table, q.n)}
      [] q.kind = "refund" ->
           {PaymentCanceled(Loaded(l, {l.payments[p].activity}), p, q.n, q.approvalNo) :
              p \in {p \in {q.payment} : CanCancelPayment(l, p)}}
      [] q.kind = "cancelOrder" ->
           {OrderCanceled(Loaded(l, {a}), a, q.order) :
              a \in {a \in ActiveActivities(l, q.table) :
                       q.order \in OrderedOrders(Loaded(l, {a}), a)}}
      [] q.kind = "updateOrder" ->
           {OrderUpdated(Loaded(l, {a}), a, q.order, q.price) :
              a \in {a \in ActiveActivities(l, q.table) :
                       q.order \in OrderedOrders(Loaded(l, {a}), a)}}
      [] q.kind = "discount" ->
           {Discounted(Loaded(l, {a}), a, q.discount) : a \in ActiveActivities(l, q.table)}
      [] q.kind = "complete" ->
           {Completed(Loaded(l, {a}), a) :
              a \in {a \in ActiveActivities(l, q.table) : CanComplete(Loaded(l, {a}), a)}}
      [] q.kind = "move" -> MoveChanges(l, q.table, q.target)

\* The ledgers request q may leave of ledger l.
Outcomes(q, l) == {Saved(l, g) : g \in Changes(q, l)}

-----------------------------------------------------------------------------
(* Transactions.                                                            *)

Running == {r \in Threads : txn[r] # Idle}

Locked == UNION {LockKeys(txn[r].request) : r \in Running}

\* A thread gets its locks, reads and computes.
Begin(r) ==
    /\ txn[r] = Idle
    /\ \E q \in RequestsOf(ledger, clock + 1) :
         /\ LockKeys(q) \cap Locked = {}
         /\ Makes(q) => clock < MaxClock
         /\ clock' = IF Makes(q) THEN q.n ELSE clock
         /\ \E wrote \in Outcomes(q, ledger) :
              txn' = [txn EXCEPT ![r] = [request |-> q, read |-> ledger, wrote |-> wrote]]
    /\ UNCHANGED ledger

\* The rows now, with those a transaction inserted and those it changed.
WriteRows(now, read, wrote) ==
    [x \in DOMAIN now \cup DOMAIN wrote |->
        IF x \in DOMAIN wrote /\ (x \in DOMAIN read => wrote[x] # read[x])
          THEN wrote[x] ELSE now[x]]

\* Mutant: a new activity is not saved along with its order or payment.
WriteBackKnown(now, read, wrote) ==
    [activities |-> [a \in DOMAIN now.activities |->
                       WriteRows(now.activities, read.activities, wrote.activities)[a]],
     orders |-> WriteRows(now.orders, read.orders, wrote.orders),
     payments |-> WriteRows(now.payments, read.payments, wrote.payments)]

WriteBack(now, read, wrote) ==
    [activities |-> WriteRows(now.activities, read.activities, wrote.activities),
     orders |-> WriteRows(now.orders, read.orders, wrote.orders),
     payments |-> WriteRows(now.payments, read.payments, wrote.payments)]

Commit(r) ==
    /\ txn[r] # Idle
    /\ ledger' = WriteBack(ledger, txn[r].read, txn[r].wrote)
    /\ txn' = [txn EXCEPT ![r] = Idle]
    /\ UNCHANGED clock

\* The server or the connection fails before the commit.
Rollback(r) ==
    /\ txn[r] # Idle
    /\ txn' = [txn EXCEPT ![r] = Idle]
    /\ UNCHANGED <<ledger, clock>>

TxNext == \E r \in Threads : Begin(r) \/ Commit(r) \/ Rollback(r)

TxSpec == TxInit /\ [][TxNext]_txVars

-----------------------------------------------------------------------------
(* Correctness.                                                             *)

\* The committed rows are well typed, and a snapshot is never ahead of them.
TxTypeOK ==
    /\ IsLedger(ledger, clock)
    /\ \A r \in Running :
         /\ IsLedger(txn[r].read, clock) /\ IsLedger(txn[r].wrote, clock)
         /\ DOMAIN txn[r].read.activities \subseteq DOMAIN ledger.activities

\* Every commit has the effect its request would have had alone on the
\* ledger it commits to: the locks make the transactions serializable.
CommitsAsIfAlone ==
    [][\A r \in Threads :
         txn[r] # Idle /\ txn'[r] = Idle /\ ledger' # ledger =>
           ledger' \in Outcomes(txn[r].request, ledger)]_txVars

\* No interleaving refunds an approval twice: canCancel refuses the second.
NoDoubleRefund == RefundedOnce(ledger)

=============================================================================
