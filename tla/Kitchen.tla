------------------------------- MODULE Kitchen -------------------------------
(***************************************************************************)
(* The receipts of a store: what the kitchen is told of its orders.         *)
(*                                                                          *)
(* Every change of an order publishes an event.  Once the change is         *)
(* committed, ReceiptSendEventHandler handles the event on a thread of its  *)
(* own: it reads the orders, draws a number from the store's counter in     *)
(* Redis by two commands, increment and get, and publishes the receipt.     *)
(* Handlers run in any order and interleave command by command; one may     *)
(* fail or be lost with its server at any step.  When the store has closed, *)
(* PrintNoDeleteEventHandler deletes the counter, on a thread as well.      *)
(*                                                                          *)
(* The menus of an order are its quantity, as far as they are printed, and  *)
(* its price.  The POS changes an order under the lock of its table, one    *)
(* change after the other; but a refund, which may cancel a prepaid order,  *)
(* locks nothing, and a change that read the order before does not see it.  *)
(* What the hall writes under the lock of another table is left to Serving. *)
(***************************************************************************)
EXTENDS Integers

CONSTANTS
    Orders,       \* ids of orders
    MaxQuantity,  \* of an order
    MaxJobs       \* bound on the events handled in the model

ASSUME KitchenAssumption == MaxQuantity \in Nat /\ MaxJobs \in Nat

VARIABLES
    orders,       \* the committed orders
    jobs,         \* the events that are being handled
    published,    \* how many events were published, the last one's id
    counter,      \* the store's print number in Redis, 0 when there is none
    expiring,     \* whether the counter has an expiry
    told,         \* what the receipts of each order add up to in the kitchen
    highest,      \* history: the highest number drawn since the counter was new
    overtaken,    \* history: orders updated before their first receipt was made
    missed,       \* history: orders one of whose receipts was lost
    refunded,     \* history: orders canceled by a refund, of which no event tells
    unseen        \* of them those that a request under way read before

canceling == <<refunded, unseen>>

kept == <<told, highest, overtaken, missed, canceling>>

vars == <<orders, jobs, published, counter, expiring, kept>>

Quantities == 0 .. MaxQuantity

Init ==
    /\ orders = [o \in Orders |-> [state |-> "NONE", quantity |-> 0]]
    /\ jobs = <<>> /\ published = 0
    /\ counter = 0 /\ expiring = FALSE
    /\ told = [o \in Orders |-> 0]
    /\ highest = 0 /\ overtaken = {} /\ missed = {} /\ refunded = {} /\ unseen = {}

-----------------------------------------------------------------------------
(* Changes of orders and the events they publish.                           *)

Ordered == {o \in Orders : orders[o].state = "ORDER"}

\* What a request of the POS may have read as ordered.
Changeable == Ordered \cup unseen

\* The rows of the orders S are written, with what was read of them.
Seen(S) == refunded' = refunded \ S /\ unseen' = unseen \ S

\* The event of kind about the orders S, to be handled from step on.
Publish(kind, S, shows, step) ==
    /\ published < MaxJobs
    /\ published' = published + 1
    /\ jobs' = [j \in DOMAIN jobs \cup {published + 1} |->
         IF j \in DOMAIN jobs THEN jobs[j]
         ELSE [kind |-> kind, about |-> S, shows |-> shows, step |-> step,
               number |-> 0, floor |-> 0, restarted |-> FALSE]]

Nothing == [o \in Orders |-> 0]

Create(o) ==
    /\ orders[o].state = "NONE"
    /\ \E q \in Quantities \ {0} :
         orders' = [orders EXCEPT ![o] = [state |-> "ORDER", quantity |-> q]]
    /\ Publish("create", {o}, Nothing, "read")
    /\ UNCHANGED <<counter, expiring, kept>>

\* Mutant: the receipt shows the new quantities.
DiffOfNew(new) == [o \in Orders |-> IF o \in DOMAIN new THEN new[o] ELSE 0]

\* The receipt of an update, made from the orders before it.
Diff(new) ==
    [o \in Orders |-> IF o \in DOMAIN new THEN new[o] - orders[o].quantity ELSE 0]

\* The handlers of events that created orders of S and did not read them yet.
Unread(S) ==
    {j \in DOMAIN jobs : /\ jobs[j].kind = "create" /\ jobs[j].step = "read"
                         /\ jobs[j].about \subseteq S}

\* The orders of S that get another quantity, whose rows are written.
Renewed(S, new) == {o \in S : new[o] # orders[o].quantity}

\* New quantities; an order left without menus is canceled.
Update(S) ==
    \E new \in [S -> Quantities] :
       /\ Diff(new) # Nothing
       /\ orders' = [o \in Orders |->
            IF o \in Renewed(S, new)
              THEN [state |-> IF new[o] = 0 THEN "CANCEL" ELSE "ORDER", quantity |-> new[o]]
              ELSE orders[o]]
       /\ Publish("update", S, Diff(new), "increment")
       /\ overtaken' = overtaken \cup UNION {jobs[j].about : j \in Unread(S)}
       /\ Seen(Renewed(S, new))
       /\ UNCHANGED <<counter, expiring, told, highest, missed>>

Cancel(o) ==
    /\ o \in Changeable
    /\ orders' = [orders EXCEPT ![o].state = "CANCEL"]
    /\ Publish("cancel", {o}, Nothing, "read")
    /\ Seen({o})
    /\ UNCHANGED <<counter, expiring, told, highest, overtaken, missed>>

\* A refund cancels an order, of a past activity too, which is no event for the
\* kitchen.  A request that is under way may not see it.
Refund(o) ==
    /\ orders[o].state \in {"ORDER", "PAST"}
    /\ orders' = [orders EXCEPT ![o].state = "CANCEL"]
    /\ refunded' = refunded \cup {o}
    /\ unseen' \in {unseen, unseen \cup ({o} \cap Ordered)}
    /\ UNCHANGED <<jobs, published, counter, expiring, told, highest, overtaken, missed>>

\* A merge replays payments; the refunds among them cancel the orders C, and
\* tell no more.  Of the orders it moves it writes B back as it read them, as a
\* memo and a serving do.
Merge(C, B) ==
    /\ orders' = [o \in Orders |->
         IF o \in C THEN [orders[o] EXCEPT !.state = "CANCEL"]
         ELSE IF o \in B THEN [orders[o] EXCEPT !.state = "ORDER"] ELSE orders[o]]
    /\ refunded' = (refunded \ B) \cup C
    /\ unseen' = unseen \ (B \cup C)
    /\ UNCHANGED <<jobs, published, counter, expiring, told, highest, overtaken, missed>>

Resend(S) ==
    /\ Publish("resend", S, Nothing, "read")
    /\ UNCHANGED <<orders, counter, expiring, kept>>

\* The store closes, once the activities of all orders are over.
Close ==
    /\ orders' = [o \in Orders |->
         IF o \in Ordered THEN [orders[o] EXCEPT !.state = "PAST"] ELSE orders[o]]
    /\ Publish("close", {}, Nothing, "delete")
    /\ unseen' = {}
    /\ UNCHANGED <<counter, expiring, told, highest, overtaken, missed, refunded>>

-----------------------------------------------------------------------------
(* The handlers.                                                            *)

At(j, step) == j \in DOMAIN jobs /\ jobs[j].step = step

\* What a receipt made from the orders as they are now shows of order o.
Shown(j, o) ==
    IF o \notin jobs[j].about THEN 0
    ELSE IF jobs[j].kind = "cancel" THEN 0 - orders[o].quantity ELSE orders[o].quantity

Read(j) ==
    /\ At(j, "read")
    /\ jobs' = [jobs EXCEPT ![j].shows = [o \in Orders |-> Shown(j, o)],
                            ![j].step = "increment"]
    /\ UNCHANGED <<orders, published, counter, expiring, kept>>

\* Mutant: sets the counter if there is none.
CountedIfNone == IF counter = 0 THEN 1 ELSE counter

\* The counter incremented.
Counted == counter + 1

\* The number must exceed those got before.
Increment(j) ==
    /\ At(j, "increment")
    /\ counter' = Counted
    /\ jobs' = [jobs EXCEPT ![j].step = IF counter' = 1 THEN "expire" ELSE "get",
                            ![j].floor = highest]
    /\ UNCHANGED <<orders, published, expiring, kept>>

Expire(j) ==
    /\ At(j, "expire")
    /\ expiring' = (counter > 0)
    /\ jobs' = [jobs EXCEPT ![j].step = "get"]
    /\ UNCHANGED <<orders, published, counter, kept>>

\* Mutant: no default.
PlainPrintNo == counter

\* The number read: 1 when there is none.
PrintNo == IF counter = 0 THEN 1 ELSE counter

Get(j) ==
    /\ At(j, "get")
    /\ jobs' = [jobs EXCEPT ![j].number = PrintNo, ![j].step = "print"]
    /\ highest' = IF PrintNo > highest /\ ~jobs[j].restarted THEN PrintNo ELSE highest
    /\ UNCHANGED <<orders, published, counter, expiring, told, overtaken, missed, canceling>>

End(j) == jobs' = [k \in DOMAIN jobs \ {j} |-> jobs[k]]

\* The receipt reaches the kitchen, unless it is empty.  The kitchen knows a
\* receipt that was sent again and does not add it up.
PrintReceipt(j) ==
    /\ At(j, "print")
    /\ End(j)
    /\ told' = IF jobs[j].kind = "resend" THEN told
               ELSE [o \in Orders |-> told[o] + jobs[j].shows[o]]
    /\ UNCHANGED <<orders, published, counter, expiring, highest, overtaken, missed, canceling>>

Fail(j) ==
    /\ End(j)
    /\ missed' = missed \cup jobs[j].about
    /\ UNCHANGED <<orders, published, counter, expiring, told, highest, overtaken, canceling>>

\* The counter goes while the jobs of S go on: one of them that incremented it
\* and did not get its number yet may number anew.
Restart(S) ==
    /\ counter' = 0 /\ expiring' = FALSE /\ highest' = 0
    /\ jobs' = [j \in S |->
         IF jobs[j].step \in {"expire", "get"} THEN [jobs[j] EXCEPT !.restarted = TRUE] ELSE jobs[j]]
    /\ UNCHANGED <<orders, published, told, overtaken, missed, canceling>>

\* PrintNoDeleteEventHandler.
Delete(j) == At(j, "delete") /\ Restart(DOMAIN jobs \ {j})

\* A day after it was new the counter expires.
Lapse == expiring /\ Restart(DOMAIN jobs)

Change ==
    \/ \E o \in Orders : Create(o) \/ Cancel(o) \/ Refund(o)
    \/ \E S \in (SUBSET Changeable) \ {{}} : Update(S) \/ Resend(S)
    \/ \E C \in SUBSET Changeable, B \in SUBSET unseen : Merge(C, B)
    \/ Close

Handle(j) ==
    Read(j) \/ Increment(j) \/ Expire(j) \/ Get(j) \/ PrintReceipt(j) \/ Fail(j) \/ Delete(j)

Next == Change \/ Lapse \/ \E j \in DOMAIN jobs : Handle(j)

Spec == Init /\ [][Next]_vars

-----------------------------------------------------------------------------
(* Correctness.                                                             *)

Job == [kind : {"create", "update", "cancel", "resend", "close"}, about : SUBSET Orders,
        shows : [Orders -> Int],
        step : {"read", "increment", "expire", "get", "print", "delete"},
        number : Nat, floor : Nat, restarted : BOOLEAN]

\* The state is well typed; every receipt that is printed has a number.
TypeOK ==
    /\ orders \in [Orders -> [state : {"NONE", "ORDER", "CANCEL", "PAST"}, quantity : Quantities]]
    /\ DOMAIN jobs \subseteq 1 .. published /\ published \in Nat
    /\ \A j \in DOMAIN jobs :
         /\ jobs[j] \in Job
         /\ jobs[j].step = "print" <=> jobs[j].number # 0
    /\ counter \in Nat /\ expiring \in BOOLEAN /\ highest \in Nat
    /\ told \in [Orders -> Int] /\ overtaken \subseteq Orders /\ missed \subseteq Orders
    /\ unseen \subseteq refunded /\ refunded \subseteq Orders
    /\ \A o \in refunded : orders[o].state = "CANCEL"

\* A receipt whose handler incremented the counter after another had its
\* number has the higher number, and so a different one, unless the counter was
\* deleted or expired while one of the two was between increment and get.
NumbersFollow ==
    \A j \in DOMAIN jobs :
       jobs[j].step = "print" /\ ~jobs[j].restarted => jobs[j].number > jobs[j].floor

Handled(o) == \A j \in DOMAIN jobs : o \notin jobs[j].about

\* Once all events about an order are handled, what the kitchen was told adds
\* up to the order, unless a receipt was lost or the order was updated before
\* the receipt of its creation was made: that one then shows the update, which
\* is told a second time.  An order that a refund canceled is still an order to
\* the kitchen, unless a change that did not see it told or made it one.
KitchenAddsUp ==
    \A o \in Orders \ (overtaken \cup missed) :
       Handled(o) =>
          told[o] = IF orders[o].state = "CANCEL" /\ o \notin refunded THEN 0
                    ELSE orders[o].quantity

\* Of a canceled order nothing is left in the kitchen, with the exceptions of
\* receipts that are lost and of overtaken orders.  A refund, or its replay by a
\* merge, refutes this.
EveryCancelTold ==
    \A o \in Orders \ (overtaken \cup missed) :
       Handled(o) /\ orders[o].state = "CANCEL" => told[o] = 0

=============================================================================
