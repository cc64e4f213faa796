---------------------------- MODULE EventProofs -----------------------------
(***************************************************************************)
(* Proofs about what happens after a commit: Kitchen, for any orders and    *)
(* quantities and any number of events, and EventStream, for any clients,   *)
(* events, connections and time.                                            *)
(*                                                                          *)
(* Kitchen: every printed receipt has a number, numbers follow each other   *)
(* as long as the counter is not deleted under a handler, and what the      *)
(* receipts tell of an order adds up to it.  The last needs an invariant on *)
(* what the handlers still owe the kitchen: what was told of an order and   *)
(* what its pending receipts will tell make up what there is of it, as far  *)
(* as the kitchen is to know; that refunds, and merges that replay them,    *)
(* leave as it is.                                                          *)
(*                                                                          *)
(* EventStream: emitters stay registered, and an open connection has no     *)
(* gap.  Both need an invariant on what is going to happen: a connection    *)
(* finds what it is to replay in Redis or has found it, the handler of an   *)
(* event finds the emitter or has found it, and no completion is to come    *)
(* that would delete the emitter of another.                                *)
(***************************************************************************)
EXTENDS Kitchen, EventStream, TLAPS

-----------------------------------------------------------------------------
(* The kitchen.                                                             *)

\* A job between increment and get, whose counter was not deleted meanwhile,
\* will get a number above those drawn before.
Ahead(job, c) ==
    job.step \in {"expire", "get"} /\ ~job.restarted => job.floor < c

\* The inductive invariant.
IInv ==
    /\ TypeOK /\ NumbersFollow
    /\ highest <= counter
    /\ \A j \in DOMAIN jobs : Ahead(jobs[j], counter)

\* What the invariant says of one job.
Good(job, c) ==
    /\ job \in Job /\ (job.step = "print" <=> job.number # 0)
    /\ job.step = "print" /\ ~job.restarted => job.number > job.floor
    /\ Ahead(job, c)

JobsGood == \A j \in DOMAIN jobs : Good(jobs[j], counter)

\* The other part of the type invariant.
RestOK ==
    /\ orders \in [Orders -> [state : {"NONE", "ORDER", "CANCEL", "PAST"}, quantity : Quantities]]
    /\ DOMAIN jobs \subseteq 1 .. published /\ published \in Nat
    /\ counter \in Nat /\ expiring \in BOOLEAN /\ highest \in Nat
    /\ told \in [Orders -> Int] /\ overtaken \subseteq Orders /\ missed \subseteq Orders
    /\ unseen \subseteq refunded /\ refunded \subseteq Orders
    /\ \A o \in refunded : orders[o].state = "CANCEL"

LEMMA Parts == IInv <=> RestOK /\ JobsGood /\ highest <= counter
  BY DEF IInv, TypeOK, NumbersFollow, RestOK, JobsGood, Good

\* A job that is published as in Publish is good.
LEMMA NewJobGood ==
  ASSUME NEW c, NEW S \in SUBSET Orders, NEW shows \in [Orders -> Int],
         NEW kind \in {"create", "update", "cancel", "resend", "close"},
         NEW step \in {"read", "increment", "delete"}
  PROVE  Good([kind |-> kind, about |-> S, shows |-> shows, step |-> step,
               number |-> 0, floor |-> 0, restarted |-> FALSE], c)
  BY DEF Good, Ahead, Job

\* An event that is published keeps the jobs good.
LEMMA PublishKeeps ==
  ASSUME JobsGood, RestOK, counter' = counter,
         NEW S \in SUBSET Orders, NEW shows \in [Orders -> Int],
         NEW kind \in {"create", "update", "cancel", "resend", "close"},
         NEW step \in {"read", "increment", "delete"},
         Publish(kind, S, shows, step)
  PROVE  JobsGood' /\ DOMAIN jobs' \subseteq 1 .. published' /\ published' \in Nat
  <1>1. PICK new : new = [kind |-> kind, about |-> S, shows |-> shows, step |-> step,
                          number |-> 0, floor |-> 0, restarted |-> FALSE]
    OBVIOUS
  <1>2. Good(new, counter)
    BY <1>1, NewJobGood
  <1>3. /\ published' = published + 1
        /\ jobs' = [j \in DOMAIN jobs \cup {published + 1} |->
                      IF j \in DOMAIN jobs THEN jobs[j] ELSE new]
    BY <1>1 DEF Publish
  <1>4. DOMAIN jobs' = DOMAIN jobs \cup {published + 1}
    BY <1>3
  <1>5. ASSUME NEW j \in DOMAIN jobs' PROVE Good(jobs'[j], counter')
    <2>1. jobs'[j] = IF j \in DOMAIN jobs THEN jobs[j] ELSE new
      BY <1>3, <1>4, <1>5
    <2>2. CASE j \in DOMAIN jobs
      BY <2>1, <2>2 DEF JobsGood
    <2>3. CASE j \notin DOMAIN jobs
      BY <2>1, <2>3, <1>2
    <2>4. QED
      BY <2>2, <2>3
  <1>6. JobsGood'
    BY <1>5 DEF JobsGood
  <1>7. DOMAIN jobs' \subseteq 1 .. published' /\ published' \in Nat
    BY <1>3, <1>4 DEF RestOK
  <1>8. QED
    BY <1>6, <1>7

\* A handler that takes one step keeps the jobs good, if its own job is and the
\* others are ahead of the counter as it is then.
LEMMA StepKeeps ==
  ASSUME JobsGood, RestOK, counter' \in Nat, counter <= counter',
         NEW j \in DOMAIN jobs, NEW job, Good(job, counter'),
         jobs' = [jobs EXCEPT ![j] = job], published' = published
  PROVE  JobsGood' /\ DOMAIN jobs' \subseteq 1 .. published' /\ published' \in Nat
  <1>1. DOMAIN jobs' = DOMAIN jobs
    OBVIOUS
  <1>2. ASSUME NEW k \in DOMAIN jobs, Good(jobs[k], counter)
        PROVE  Good(jobs[k], counter')
    <2>1. jobs[k].floor \in Nat
      BY <1>2 DEF Good, Job
    <2>2. Ahead(jobs[k], counter')
      BY <1>2, <2>1 DEF Good, Ahead, RestOK
    <2>3. QED
      BY <1>2, <2>2 DEF Good
  <1>3. ASSUME NEW k \in DOMAIN jobs' PROVE Good(jobs'[k], counter')
    <2>1. jobs'[k] = IF k = j THEN job ELSE jobs[k]
      BY <1>1
    <2>2. QED
      BY <1>1, <1>2, <2>1 DEF JobsGood
  <1>4. JobsGood'
    BY <1>3 DEF JobsGood
  <1>5. QED
    BY <1>1, <1>4 DEF RestOK

-----------------------------------------------------------------------------
(* Changes of orders.                                                       *)

LEMMA CreateKeeps ==
  ASSUME IInv, NEW o \in Orders, Create(o)
  PROVE  IInv'
  <1>1. RestOK /\ JobsGood /\ highest <= counter
    BY Parts
  <1>2. Nothing \in [Orders -> Int]
    BY DEF Nothing
  <1>3. JobsGood' /\ DOMAIN jobs' \subseteq 1 .. published' /\ published' \in Nat
    BY <1>1, <1>2, PublishKeeps DEF Create
  <1>4. orders' \in [Orders -> [state : {"NONE", "ORDER", "CANCEL", "PAST"}, quantity : Quantities]]
    BY <1>1 DEF Create, RestOK
  <1>5. \A p \in refunded : orders'[p].state = "CANCEL"
    <2>1. o \notin refunded
      BY <1>1 DEF Create, RestOK
    <2>2. QED
      BY <1>1, <2>1 DEF Create, RestOK
  <1>6. RestOK'
    BY <1>1, <1>3, <1>4, <1>5 DEF Create, RestOK, kept, canceling
  <1>7. QED
    BY <1>1, <1>3, <1>6 DEF Create, kept, IInv, TypeOK, NumbersFollow, RestOK, JobsGood, Good

LEMMA UpdateKeeps ==
  ASSUME IInv, NEW S \in SUBSET Changeable, Update(S)
  PROVE  IInv'
  <1>1. RestOK /\ JobsGood /\ highest <= counter
    BY Parts
  <1>2. PICK new \in [S -> Quantities] :
          /\ orders' = [o \in Orders |->
               IF o \in Renewed(S, new)
                 THEN [state |-> IF new[o] = 0 THEN "CANCEL" ELSE "ORDER", quantity |-> new[o]]
                 ELSE orders[o]]
          /\ Publish("update", S, Diff(new), "increment")
          /\ overtaken' = overtaken \cup UNION {jobs[j].about : j \in Unread(S)}
          /\ refunded' = refunded \ Renewed(S, new) /\ unseen' = unseen \ Renewed(S, new)
          /\ UNCHANGED <<counter, expiring, told, highest, missed>>
    BY DEF Update, Seen
  <1>3. S \subseteq Orders
    BY <1>1 DEF Changeable, Ordered, RestOK
  <1>4. Diff(new) \in [Orders -> Int]
    <2>1. ASSUME NEW o \in Orders
          PROVE  (IF o \in DOMAIN new THEN new[o] - orders[o].quantity ELSE 0) \in Int
      <3>1. orders[o].quantity \in Int
        BY <1>1, KitchenAssumption DEF RestOK, Quantities
      <3>2. o \in DOMAIN new => new[o] \in Int
        BY <1>2, KitchenAssumption DEF Quantities
      <3>3. QED
        BY <3>1, <3>2
    <2>2. QED
      BY <2>1 DEF Diff
  <1>5. JobsGood' /\ DOMAIN jobs' \subseteq 1 .. published' /\ published' \in Nat
    <2>1. PICK shows \in [Orders -> Int] : shows = Diff(new)
      BY <1>4
    <2>2. Publish("update", S, shows, "increment")
      BY <1>2, <2>1
    <2>3. QED
      BY <1>1, <1>2, <1>3, <2>2, PublishKeeps
  <1>6. orders' \in [Orders -> [state : {"NONE", "ORDER", "CANCEL", "PAST"}, quantity : Quantities]]
    BY <1>1, <1>2 DEF RestOK, Renewed
  <1>7. overtaken' \subseteq Orders
    BY <1>1, <1>2 DEF Unread, RestOK, JobsGood, Good, Job
  <1>8. /\ unseen' \subseteq refunded' /\ refunded' \subseteq Orders
        /\ \A o \in refunded' : orders'[o].state = "CANCEL"
    BY <1>1, <1>2 DEF RestOK
  <1>9. RestOK'
    BY <1>1, <1>2, <1>5, <1>6, <1>7, <1>8 DEF RestOK
  <1>10. QED
    BY <1>1, <1>2, <1>5, <1>9 DEF IInv, TypeOK, NumbersFollow, RestOK, JobsGood, Good

LEMMA RefundKeeps ==
  ASSUME IInv, NEW o \in Orders, Refund(o)
  PROVE  IInv'
  <1>1. RestOK /\ JobsGood /\ highest <= counter
    BY Parts
  <1>2. /\ orders' \in [Orders -> [state : {"NONE", "ORDER", "CANCEL", "PAST"}, quantity : Quantities]]
        /\ unseen' \subseteq refunded' /\ refunded' \subseteq Orders
        /\ \A p \in refunded' : orders'[p].state = "CANCEL"
    BY <1>1 DEF Refund, RestOK
  <1>3. RestOK'
    BY <1>1, <1>2 DEF Refund, RestOK
  <1>4. QED
    BY <1>1, <1>3 DEF Refund, IInv, TypeOK, NumbersFollow, RestOK, JobsGood, Good

LEMMA MergeKeeps ==
  ASSUME IInv, NEW C \in SUBSET Changeable, NEW B \in SUBSET unseen, Merge(C, B)
  PROVE  IInv'
  <1>1. RestOK /\ JobsGood /\ highest <= counter
    BY Parts
  <1>2. C \subseteq Orders /\ B \subseteq Orders
    BY <1>1 DEF Changeable, Ordered, RestOK
  <1>3. ASSUME NEW o \in Orders
        PROVE  /\ orders'[o] \in [state : {"NONE", "ORDER", "CANCEL", "PAST"}, quantity : Quantities]
               /\ o \in refunded' => orders'[o].state = "CANCEL"
    BY <1>1 DEF Merge, RestOK
  <1>4. orders' \in [Orders -> [state : {"NONE", "ORDER", "CANCEL", "PAST"}, quantity : Quantities]]
    BY <1>3 DEF Merge
  <1>5. unseen' \subseteq refunded' /\ refunded' \subseteq Orders
    BY <1>1, <1>2 DEF Merge, RestOK
  <1>6. RestOK'
    BY <1>1, <1>3, <1>4, <1>5 DEF Merge, RestOK
  <1>7. QED
    BY <1>1, <1>6 DEF Merge, IInv, TypeOK, NumbersFollow, RestOK, JobsGood, Good

LEMMA ChangeKeeps ==
  ASSUME IInv, Change
  PROVE  IInv'
  <1>1. RestOK /\ JobsGood /\ highest <= counter
    BY Parts
  <1>2. Nothing \in [Orders -> Int]
    BY DEF Nothing
  <1>3. CASE \E o \in Orders : Create(o)
    BY <1>3, CreateKeeps
  <1>4. ASSUME NEW o \in Orders, Cancel(o) PROVE IInv'
    <2>1. JobsGood' /\ DOMAIN jobs' \subseteq 1 .. published' /\ published' \in Nat
      BY <1>1, <1>2, <1>4, PublishKeeps DEF Cancel
    <2>2. orders' \in [Orders -> [state : {"NONE", "ORDER", "CANCEL", "PAST"}, quantity : Quantities]]
      BY <1>1, <1>4 DEF Cancel, RestOK
    <2>3. /\ unseen' \subseteq refunded' /\ refunded' \subseteq Orders
          /\ \A p \in refunded' : orders'[p].state = "CANCEL"
      BY <1>1, <1>4 DEF Cancel, Seen, RestOK
    <2>4. RestOK'
      BY <1>1, <1>4, <2>1, <2>2, <2>3 DEF Cancel, RestOK
    <2>5. QED
      BY <1>1, <1>4, <2>1, <2>4 DEF Cancel, IInv, TypeOK, NumbersFollow, RestOK, JobsGood, Good
  <1>5. CASE \E S \in (SUBSET Changeable) \ {{}} : Update(S)
    BY <1>5, UpdateKeeps
  <1>6. ASSUME NEW S \in (SUBSET Changeable) \ {{}}, Resend(S) PROVE IInv'
    <2>1. S \in SUBSET Orders
      BY <1>1, <1>6 DEF Changeable, Ordered, RestOK
    <2>2. JobsGood' /\ DOMAIN jobs' \subseteq 1 .. published' /\ published' \in Nat
      BY <1>1, <1>2, <1>6, <2>1, PublishKeeps DEF Resend
    <2>3. RestOK'
      BY <1>1, <1>6, <2>2 DEF Resend, RestOK, kept, canceling
    <2>4. QED
      BY <1>1, <1>6, <2>2, <2>3 DEF Resend, kept, IInv, TypeOK, NumbersFollow, RestOK, JobsGood, Good
  <1>7. ASSUME Close PROVE IInv'
    <2>1. JobsGood' /\ DOMAIN jobs' \subseteq 1 .. published' /\ published' \in Nat
      BY <1>1, <1>2, <1>7, PublishKeeps DEF Close
    <2>2. orders' \in [Orders -> [state : {"NONE", "ORDER", "CANCEL", "PAST"}, quantity : Quantities]]
      BY <1>1, <1>7 DEF Close, RestOK
    <2>3. \A o \in refunded' : orders'[o].state = "CANCEL"
      BY <1>1, <1>7 DEF Close, Ordered, RestOK
    <2>4. RestOK'
      BY <1>1, <1>7, <2>1, <2>2, <2>3 DEF Close, RestOK
    <2>5. QED
      BY <1>1, <1>7, <2>1, <2>4 DEF Close, IInv, TypeOK, NumbersFollow, RestOK, JobsGood, Good
  <1>8. CASE \E o \in Orders : Refund(o)
    BY <1>8, RefundKeeps
  <1>9. CASE \E C \in SUBSET Changeable, B \in SUBSET unseen : Merge(C, B)
    BY <1>9, MergeKeeps
  <1>10. QED
    BY <1>3, <1>4, <1>5, <1>6, <1>7, <1>8, <1>9 DEF Change

-----------------------------------------------------------------------------
(* Handlers.                                                                *)

\* A counter that goes takes its numbers with it.
LEMMA RestartKeeps ==
  ASSUME IInv, NEW S \in SUBSET DOMAIN jobs, Restart(S)
  PROVE  IInv'
  <1>1. RestOK /\ JobsGood
    BY Parts
  <1>2. /\ counter' = 0 /\ expiring' = FALSE /\ highest' = 0
        /\ jobs' = [j \in S |->
             IF jobs[j].step \in {"expire", "get"} THEN [jobs[j] EXCEPT !.restarted = TRUE] ELSE jobs[j]]
        /\ UNCHANGED <<orders, published, told, overtaken, missed, canceling>>
    BY DEF Restart
  <1>3. ASSUME NEW j \in S
        PROVE  Good(jobs'[j], 0)
    <2>1. Good(jobs[j], counter) /\ jobs[j] \in Job
      BY <1>1 DEF JobsGood, Good
    <2>2. CASE jobs[j].step \in {"expire", "get"}
      <3>1. jobs'[j] = [jobs[j] EXCEPT !.restarted = TRUE]
        BY <1>2, <2>2
      <3>2. QED
        BY <2>1, <2>2, <3>1 DEF Good, Ahead, Job
    <2>3. CASE jobs[j].step \notin {"expire", "get"}
      <3>1. jobs'[j] = jobs[j]
        BY <1>2, <2>3
      <3>2. QED
        BY <2>1, <2>3, <3>1 DEF Good, Ahead
    <2>4. QED
      BY <2>2, <2>3
  <1>4. DOMAIN jobs' = S
    BY <1>2
  <1>5. JobsGood'
    BY <1>2, <1>3, <1>4 DEF JobsGood
  <1>6. RestOK'
    BY <1>1, <1>2, <1>4 DEF RestOK, canceling
  <1>7. highest' <= counter'
    BY <1>2
  <1>8. QED
    BY <1>5, <1>6, <1>7 DEF IInv, TypeOK, NumbersFollow, RestOK, JobsGood, Good, canceling

LEMMA HandleKeeps ==
  ASSUME IInv, NEW j \in DOMAIN jobs, Handle(j)
  PROVE  IInv'
  <1>1. RestOK /\ JobsGood /\ highest <= counter
    BY Parts
  <1>2. Good(jobs[j], counter) /\ jobs[j] \in Job
    BY <1>1 DEF JobsGood, Good
  <1>3. ASSUME Read(j) PROVE IInv'
    <2>1. PICK shows : shows = [o \in Orders |-> Shown(j, o)]
      OBVIOUS
    <2>2. shows \in [Orders -> Int]
      <3>1. ASSUME NEW o \in Orders PROVE Shown(j, o) \in Int
        <4>1. orders[o].quantity \in Int
          BY <1>1, KitchenAssumption DEF RestOK, Quantities, canceling
        <4>2. QED
          BY <4>1 DEF Shown
      <3>2. QED
        BY <2>1, <3>1
    <2>3. PICK job : job = [jobs[j] EXCEPT !.shows = shows, !.step = "increment"]
      OBVIOUS
    <2>4. jobs' = [jobs EXCEPT ![j] = job]
      BY <1>3, <2>1, <2>3 DEF Read
    <2>5. Good(job, counter)
      BY <1>2, <1>3, <2>2, <2>3 DEF Good, Ahead, Job, Read, At
    <2>6. JobsGood' /\ DOMAIN jobs' \subseteq 1 .. published' /\ published' \in Nat
      <3>1. counter' \in Nat /\ counter <= counter' /\ published' = published
        <4>1. counter' = counter /\ published' = published
          BY <1>3 DEF Read
        <4>2. QED
          BY <1>1, <4>1 DEF RestOK, canceling
      <3>2. Good(job, counter')
        BY <1>3, <2>5 DEF Read
      <3>3. QED
        BY <1>1, <2>4, <3>1, <3>2, StepKeeps
    <2>7. RestOK'
      BY <1>1, <1>3, <2>6 DEF Read, RestOK, kept, canceling
    <2>8. QED
      BY <1>1, <1>3, <2>6, <2>7 DEF Read, kept, IInv, TypeOK, NumbersFollow, RestOK, JobsGood, Good, canceling
  <1>4. ASSUME Increment(j) PROVE IInv'
    <2>1. PICK step \in {"expire", "get"} : step = IF counter' = 1 THEN "expire" ELSE "get"
      OBVIOUS
    <2>2. PICK job : job = [jobs[j] EXCEPT !.step = step, !.floor = highest]
      OBVIOUS
    <2>3. jobs' = [jobs EXCEPT ![j] = job]
      BY <1>4, <2>1, <2>2 DEF Increment
    <2>4. counter' \in Nat /\ counter < counter' /\ highest < counter' /\ highest \in Nat
      BY <1>1, <1>4 DEF Increment, Counted, RestOK, canceling
    <2>5. Good(job, counter')
      BY <1>2, <1>4, <2>1, <2>2, <2>4 DEF Good, Ahead, Job, Increment, At
    <2>6. counter <= counter'
      BY <1>1, <2>4 DEF RestOK, canceling
    <2>7. JobsGood' /\ DOMAIN jobs' \subseteq 1 .. published' /\ published' \in Nat
      BY <1>1, <1>4, <2>3, <2>4, <2>5, <2>6, StepKeeps DEF Increment
    <2>8. RestOK'
      BY <1>1, <1>4, <2>4, <2>7 DEF Increment, RestOK, kept, canceling
    <2>9. highest' <= counter'
      BY <1>4, <2>4 DEF Increment, kept
    <2>10. QED
      BY <2>7, <2>8, <2>9 DEF IInv, TypeOK, NumbersFollow, RestOK, JobsGood, Good, canceling
  <1>5. ASSUME Expire(j) PROVE IInv'
    <2>1. PICK job : job = [jobs[j] EXCEPT !.step = "get"]
      OBVIOUS
    <2>2. jobs' = [jobs EXCEPT ![j] = job]
      BY <1>5, <2>1 DEF Expire
    <2>3. Good(job, counter)
      BY <1>2, <1>5, <2>1 DEF Good, Ahead, Job, Expire, At
    <2>4. JobsGood' /\ DOMAIN jobs' \subseteq 1 .. published' /\ published' \in Nat
      <3>1. counter' \in Nat /\ counter <= counter' /\ published' = published
        BY <1>1, <1>5 DEF Expire, RestOK, canceling
      <3>2. Good(job, counter')
        BY <1>5, <2>3 DEF Expire
      <3>3. QED
        BY <1>1, <2>2, <3>1, <3>2, StepKeeps
    <2>5. RestOK'
      BY <1>1, <1>5, <2>4 DEF Expire, RestOK, kept, canceling
    <2>6. QED
      BY <1>1, <1>5, <2>4, <2>5 DEF Expire, kept, IInv, TypeOK, NumbersFollow, RestOK, JobsGood, Good, canceling
  <1>6. ASSUME Get(j) PROVE IInv'
    <2>1. PICK n : n = PrintNo
      OBVIOUS
    <2>2. n \in Nat /\ n # 0 /\ counter <= n /\ (counter > 0 => n = counter)
      BY <1>1, <2>1 DEF PrintNo, RestOK, canceling
    <2>3. PICK job : job = [jobs[j] EXCEPT !.number = n, !.step = "print"]
      OBVIOUS
    <2>4. jobs' = [jobs EXCEPT ![j] = job]
      BY <1>6, <2>1, <2>3 DEF Get
    <2>5. ~jobs[j].restarted => jobs[j].floor < counter /\ n = counter
      <3>1. jobs[j].floor \in Nat /\ jobs[j].step = "get"
        BY <1>2, <1>6 DEF Job, Get, At
      <3>2. QED
        BY <1>1, <1>2, <2>2, <3>1 DEF Good, Ahead, RestOK, canceling
    <2>6. Good(job, counter)
      BY <1>2, <2>2, <2>3, <2>5 DEF Good, Ahead, Job
    <2>7. JobsGood' /\ DOMAIN jobs' \subseteq 1 .. published' /\ published' \in Nat
      <3>1. counter' \in Nat /\ counter <= counter' /\ published' = published
        BY <1>1, <1>6 DEF Get, RestOK, canceling
      <3>2. Good(job, counter')
        BY <1>6, <2>6 DEF Get
      <3>3. QED
        BY <1>1, <2>4, <3>1, <3>2, StepKeeps
    <2>8. highest' \in Nat /\ highest' <= counter'
      BY <1>1, <1>6, <2>1, <2>2, <2>5 DEF Get, RestOK, canceling
    <2>9. RestOK'
      BY <1>1, <1>6, <2>7, <2>8 DEF Get, RestOK, canceling
    <2>10. QED
      BY <2>7, <2>8, <2>9 DEF IInv, TypeOK, NumbersFollow, RestOK, JobsGood, Good, canceling
  <1>7. ASSUME End(j), UNCHANGED <<counter, published>>
        PROVE  JobsGood' /\ DOMAIN jobs' \subseteq 1 .. published' /\ published' \in Nat
    BY <1>1, <1>7 DEF End, JobsGood, RestOK, canceling
  <1>8. ASSUME PrintReceipt(j) PROVE IInv'
    <2>1. JobsGood' /\ DOMAIN jobs' \subseteq 1 .. published' /\ published' \in Nat
      BY <1>7, <1>8 DEF PrintReceipt
    <2>2. told' \in [Orders -> Int]
      <3>1. told \in [Orders -> Int] /\ jobs[j].shows \in [Orders -> Int]
        BY <1>1, <1>2 DEF RestOK, Job, canceling
      <3>2. QED
        BY <1>8, <3>1 DEF PrintReceipt
    <2>3. RestOK'
      BY <1>1, <1>8, <2>1, <2>2 DEF PrintReceipt, RestOK, canceling
    <2>4. QED
      BY <1>1, <1>8, <2>1, <2>3 DEF PrintReceipt, IInv, TypeOK, NumbersFollow, RestOK, JobsGood, Good, canceling
  <1>9. ASSUME Fail(j) PROVE IInv'
    <2>1. JobsGood' /\ DOMAIN jobs' \subseteq 1 .. published' /\ published' \in Nat
      BY <1>7, <1>9 DEF Fail
    <2>2. RestOK'
      BY <1>1, <1>2, <1>9, <2>1 DEF Fail, RestOK, Job, canceling
    <2>3. QED
      BY <1>1, <1>9, <2>1, <2>2 DEF Fail, IInv, TypeOK, NumbersFollow, RestOK, JobsGood, Good, canceling
  <1>10. ASSUME Delete(j) PROVE Restart(DOMAIN jobs \ {j})
    BY <1>10 DEF Delete
  <1>11. QED
    BY <1>3, <1>4, <1>5, <1>6, <1>8, <1>9, <1>10, RestartKeeps DEF Handle

-----------------------------------------------------------------------------
(* What the kitchen is still to be told.                                    *)

\* s adds up the values of f over subsets of P, and to total over all of P.
AddsTo(s, f, P, total) ==
    /\ s \in [SUBSET P -> Int]
    /\ s[{}] = 0
    /\ \A S \in SUBSET P : \A x \in P \ S : s[S \cup {x}] = f[x] + s[S]
    /\ s[P] = total

AddUp(f, P, total) == \E s : AddsTo(s, f, P, total)

LEMMA AddUpSame ==
  ASSUME NEW f, NEW P, NEW total, AddUp(f, P, total), NEW g, \A x \in P : g[x] = f[x]
  PROVE  AddUp(g, P, total)
  <1>1. PICK s : AddsTo(s, f, P, total)
    BY DEF AddUp
  <1>2. AddsTo(s, g, P, total)
    BY <1>1 DEF AddsTo
  <1>3. QED
    BY <1>2 DEF AddUp

LEMMA AddUpOfNone ==
  ASSUME NEW f, NEW total, AddUp(f, {}, total)
  PROVE  total = 0
  BY DEF AddUp, AddsTo

LEMMA AddUpInsert ==
  ASSUME NEW f, NEW P, NEW total \in Int, AddUp(f, P, total), NEW x, x \notin P,
         NEW g, g[x] \in Int, \A y \in P : g[y] = f[y] /\ g[y] \in Int
  PROVE  AddUp(g, P \cup {x}, total + g[x])
  <1> DEFINE Q == P \cup {x}
  <1>1. PICK s : AddsTo(s, f, P, total)
    BY DEF AddUp
  <1> DEFINE t == [S \in SUBSET Q |-> IF x \in S THEN g[x] + s[S \ {x}] ELSE s[S]]
  <1>2. /\ s \in [SUBSET P -> Int] /\ s[{}] = 0 /\ s[P] = total
        /\ \A S \in SUBSET P : \A y \in P \ S : s[S \cup {y}] = g[y] + s[S]
    BY <1>1 DEF AddsTo
  <1>3. /\ \A S \in SUBSET Q : x \notin S => S \in SUBSET P
        /\ \A S \in SUBSET Q : S \ {x} \in SUBSET P
    OBVIOUS
  <1>4. t \in [SUBSET Q -> Int] /\ t[{}] = 0
    BY <1>2, <1>3
  <1>5. t[Q] = total + g[x]
    <2>1. Q \ {x} = P /\ x \in Q
      OBVIOUS
    <2>2. t[Q] = g[x] + s[P]
      BY <2>1
    <2>3. QED
      BY <1>2, <2>2
  <1>6. ASSUME NEW S \in SUBSET Q, NEW y \in Q \ S PROVE t[S \cup {y}] = g[y] + t[S]
    <2>0. S \cup {y} \in SUBSET Q
      OBVIOUS
    <2>1. CASE y = x
      <3>1. (S \cup {y}) \ {x} = S /\ x \notin S
        BY <2>1
      <3>2. t[S] = s[S] /\ t[S \cup {y}] = g[x] + s[S]
        BY <2>0, <2>1, <3>1
      <3>3. QED
        BY <2>1, <3>2
    <2>2. CASE y # x /\ x \in S
      <3>1. (S \cup {y}) \ {x} = (S \ {x}) \cup {y} /\ x \in S \cup {y}
        BY <2>2
      <3>2. t[S] = g[x] + s[S \ {x}] /\ t[S \cup {y}] = g[x] + s[(S \ {x}) \cup {y}]
        BY <2>0, <2>2, <3>1
      <3>3. s[(S \ {x}) \cup {y}] = g[y] + s[S \ {x}]
        BY <1>2, <1>3, <2>2
      <3>4. s[S \ {x}] \in Int /\ s[(S \ {x}) \cup {y}] \in Int
        <4>1. S \ {x} \in SUBSET P /\ (S \ {x}) \cup {y} \in SUBSET P
          BY <1>3, <2>2
        <4>2. QED
          BY <1>2, <4>1
      <3>5. QED
        <4>1. PICK u, v, z : /\ u = s[S \ {x}] /\ v = g[y] /\ z = g[x]
                             /\ u \in Int /\ z \in Int /\ v + u \in Int
          BY <3>3, <3>4
        <4>2. t[S \cup {y}] = z + (v + u) /\ t[S] = z + u
          BY <3>2, <3>3, <4>1
        <4>3. v \in Int
          BY <2>2, <4>1
        <4>4. QED
          BY <4>1, <4>2, <4>3
    <2>3. CASE y # x /\ x \notin S
      <3>1. t[S] = s[S] /\ t[S \cup {y}] = s[S \cup {y}]
        BY <2>0, <2>3
      <3>2. s[S \cup {y}] = g[y] + s[S]
        BY <1>2, <1>3, <2>3
      <3>3. QED
        BY <3>1, <3>2
    <2>4. QED
      BY <2>1, <2>2, <2>3
  <1> HIDE DEF t
  <1>7. AddsTo(t, g, Q, total + g[x])
    BY <1>4, <1>5, <1>6 DEF AddsTo
  <1>8. QED
    BY <1>7 DEF AddUp

LEMMA AddUpRemove ==
  ASSUME NEW f, NEW P, NEW total \in Int, AddUp(f, P, total), NEW x \in P, f[x] \in Int,
         NEW g, \A y \in P \ {x} : g[y] = f[y]
  PROVE  AddUp(g, P \ {x}, total - f[x])
  <1> DEFINE Q == P \ {x}
  <1>1. PICK s : AddsTo(s, f, P, total)
    BY DEF AddUp
  <1> DEFINE t == [S \in SUBSET Q |-> s[S]]
  <1>2. /\ s \in [SUBSET P -> Int] /\ s[{}] = 0 /\ s[P] = total
        /\ \A S \in SUBSET P : \A y \in P \ S : s[S \cup {y}] = f[y] + s[S]
    BY <1>1 DEF AddsTo
  <1>3. Q \in SUBSET P /\ Q \cup {x} = P /\ x \in P \ Q
    OBVIOUS
  <1>4. t \in [SUBSET Q -> Int] /\ t[{}] = 0 /\ t[Q] = s[Q]
    BY <1>2
  <1>5. s[Q \cup {x}] = f[x] + s[Q] /\ s[Q] \in Int
    BY <1>2, <1>3
  <1>6. t[Q] = total - f[x]
    <2>1. PICK u \in Int : u = s[Q]
      BY <1>5
    <2>2. total = f[x] + u
      BY <1>2, <1>3, <1>5, <2>1
    <2>3. QED
      BY <1>4, <2>1, <2>2
  <1>7. \A S \in SUBSET Q : \A y \in Q \ S : t[S \cup {y}] = g[y] + t[S]
    <2>1. ASSUME NEW S \in SUBSET Q, NEW y \in Q \ S PROVE t[S \cup {y}] = g[y] + t[S]
      <3>1. S \cup {y} \in SUBSET Q /\ S \in SUBSET P /\ y \in P \ S
        OBVIOUS
      <3>2. QED
        BY <1>2, <3>1
    <2>2. QED
      BY <2>1
  <1> HIDE DEF t
  <1>8. AddsTo(t, g, Q, total - f[x])
    BY <1>4, <1>6, <1>7 DEF AddsTo
  <1>9. QED
    BY <1>8 DEF AddUp

\* The orders os as the kitchen is to know them, who is not told of a refund.
KnownOf(os, canceled) ==
    [o \in Orders |->
       [state |-> IF o \in canceled \/ os[o].state = "PAST" THEN "ORDER" ELSE os[o].state,
        quantity |-> os[o].quantity]]

Known == KnownOf(orders, refunded)

KnownOrders == [Orders -> [state : {"NONE", "ORDER", "CANCEL"}, quantity : Quantities]]

LEMMA KnownOfOK ==
  ASSUME NEW canceled,
         NEW os \in [Orders -> [state : {"NONE", "ORDER", "CANCEL", "PAST"}, quantity : Quantities]]
  PROVE  /\ KnownOf(os, canceled) \in KnownOrders
         /\ \A o \in Orders : KnownOf(os, canceled)[o].quantity = os[o].quantity
  <1>1. ASSUME NEW o \in Orders
        PROVE  [state |-> IF o \in canceled \/ os[o].state = "PAST" THEN "ORDER" ELSE os[o].state,
                quantity |-> os[o].quantity] \in
                  [state : {"NONE", "ORDER", "CANCEL"}, quantity : Quantities]
    OBVIOUS
  <1>2. QED
    BY <1>1 DEF KnownOf, KnownOrders

LEMMA KnownOK ==
  ASSUME orders \in [Orders -> [state : {"NONE", "ORDER", "CANCEL", "PAST"}, quantity : Quantities]]
  PROVE  /\ Known \in KnownOrders
         /\ \A o \in Orders : Known[o].quantity = orders[o].quantity
  BY KnownOfOK DEF Known

\* What a job will still tell of order o.
Owed(job, os, o) ==
    IF job.step # "read" THEN job.shows[o]
    ELSE IF o \notin job.about THEN 0
    ELSE IF job.kind = "cancel" THEN 0 - os[o].quantity ELSE os[o].quantity

\* The jobs that will.
Pending(js, o) == {j \in DOMAIN js : o \in js[j].about /\ js[j].kind # "resend"}

\* What there is of an order.
Effective(os, o) == IF os[o].state = "CANCEL" THEN 0 ELSE os[o].quantity

\* What was told of order o and what will be make it up.
Balance(os, js, tld, o) ==
    AddUp([j \in Pending(js, o) |-> Owed(js[j], os, o)], Pending(js, o),
          Effective(os, o) - tld[o])

\* What holds of a job about orders os.
Sound(job, os) ==
    /\ \A o \in job.about : os[o].state # "NONE"
    /\ job.kind = "create" => \E o \in Orders : job.about = {o}
    /\ job.kind = "cancel" /\ job.step = "read" =>
         \A o \in job.about : os[o].state = "CANCEL"
    /\ job.kind = "update" => job.step # "read"
    /\ job.kind = "close" => job.about = {}
    /\ job.step = "delete" => job.kind = "close"
    /\ job.step # "read" => \A o \in Orders \ job.about : job.shows[o] = 0

\* Together with IInv, the inductive invariant of what the kitchen is told.
Books ==
    /\ \A j \in DOMAIN jobs : Sound(jobs[j], Known)
    /\ \A o \in Orders : Known[o].state = "NONE" => Known[o].quantity = 0
    /\ \A o \in Orders \ (overtaken \cup missed) : Balance(Known, jobs, told, o)

LEMMA BalanceSame ==
  ASSUME NEW os, NEW js, NEW tld, NEW o, Balance(os, js, tld, o), NEW ps, NEW ks, NEW uld,
         Pending(ks, o) = Pending(js, o),
         \A j \in Pending(js, o) : Owed(ks[j], ps, o) = Owed(js[j], os, o),
         Effective(ps, o) = Effective(os, o), uld[o] = tld[o]
  PROVE  Balance(ps, ks, uld, o)
  <1> DEFINE P == Pending(js, o)
             f == [j \in P |-> Owed(js[j], os, o)]
             g == [j \in P |-> Owed(ks[j], ps, o)]
  <1>1. AddUp(f, P, Effective(os, o) - tld[o])
    BY DEF Balance
  <1>2. \A j \in P : g[j] = f[j]
    OBVIOUS
  <1> HIDE DEF P, f, g
  <1>3. AddUp(g, P, Effective(os, o) - tld[o])
    BY <1>1, <1>2, AddUpSame
  <1>4. QED
    BY <1>3 DEF Balance, P, g

\* The jobs js and another one.
Added(js, n, new) ==
    [j \in DOMAIN js \cup {n} |-> IF j \in DOMAIN js THEN js[j] ELSE new]

LEMMA BalanceMore ==
  ASSUME NEW os, NEW js, NEW tld, NEW o, Balance(os, js, tld, o),
         Effective(os, o) \in Int, tld[o] \in Int,
         NEW n, n \notin DOMAIN js, NEW new, o \in new.about, new.kind # "resend",
         NEW ps, Owed(new, ps, o) \in Int,
         \A j \in Pending(js, o) : /\ Owed(js[j], ps, o) = Owed(js[j], os, o)
                                   /\ Owed(js[j], ps, o) \in Int,
         Effective(ps, o) = Effective(os, o) + Owed(new, ps, o),
         NEW ks, ks = Added(js, n, new)
  PROVE  Balance(ps, ks, tld, o)
  <1> DEFINE P == Pending(js, o)
             Q == Pending(ks, o)
             f == [j \in P |-> Owed(js[j], os, o)]
             g == [j \in Q |-> Owed(ks[j], ps, o)]
             total == Effective(os, o) - tld[o]
  <1>1. AddUp(f, P, total)
    BY DEF Balance
  <1>2. DOMAIN ks = DOMAIN js \cup {n} /\ ks[n] = new /\ \A j \in DOMAIN js : ks[j] = js[j]
    BY DEF Added
  <1>3. Q = P \cup {n} /\ n \notin P /\ \A j \in P : ks[j] = js[j]
    BY <1>2 DEF Pending
  <1>4. g[n] = Owed(new, ps, o) /\ g[n] \in Int
    BY <1>2, <1>3
  <1>5. \A j \in P : g[j] = f[j] /\ g[j] \in Int
    BY <1>3
  <1>6. total \in Int /\ total + g[n] = Effective(ps, o) - tld[o]
    BY <1>4
  <1> HIDE DEF P, Q, f, g, total
  <1>7. AddUp(g, P \cup {n}, total + g[n])
    BY <1>1, <1>3, <1>4, <1>5, <1>6, AddUpInsert
  <1>8. AddUp(g, Q, Effective(ps, o) - tld[o])
    BY <1>3, <1>6, <1>7
  <1>9. QED
    BY <1>8 DEF Balance, Q, g

LEMMA BalanceLess ==
  ASSUME NEW os, NEW js, NEW tld, NEW o, Balance(os, js, tld, o),
         Effective(os, o) \in Int, tld[o] \in Int,
         NEW n \in Pending(js, o), Owed(js[n], os, o) \in Int,
         NEW ks, ks = [j \in DOMAIN js \ {n} |-> js[j]],
         NEW uld, uld[o] = tld[o] + Owed(js[n], os, o)
  PROVE  Balance(os, ks, uld, o)
  <1> DEFINE P == Pending(js, o)
             Q == Pending(ks, o)
             f == [j \in P |-> Owed(js[j], os, o)]
             g == [j \in Q |-> Owed(ks[j], os, o)]
             total == Effective(os, o) - tld[o]
  <1>1. AddUp(f, P, total)
    BY DEF Balance
  <1>2. DOMAIN ks = DOMAIN js \ {n} /\ \A j \in DOMAIN js \ {n} : ks[j] = js[j]
    OBVIOUS
  <1>3. Q = P \ {n} /\ n \in P /\ \A j \in Q : ks[j] = js[j]
    BY <1>2 DEF Pending
  <1>4. f[n] = Owed(js[n], os, o) /\ f[n] \in Int
    BY <1>3
  <1>5. \A j \in P \ {n} : g[j] = f[j]
    <2>1. ASSUME NEW j \in Q PROVE j \in P /\ g[j] = f[j]
      <3>1. j \in P
        <4> HIDE DEF P, Q
        <4> QED
          BY <1>3
      <3>2. f[j] = Owed(js[j], os, o) /\ g[j] = Owed(ks[j], os, o)
        BY <3>1
      <3>3. ks[j] = js[j]
        BY <1>3
      <3>4. QED
        BY <3>1, <3>2, <3>3
    <2> HIDE DEF f, g, P, Q
    <2>2. QED
      BY <1>3, <2>1
  <1>6. total \in Int /\ total - f[n] = Effective(os, o) - uld[o]
    BY <1>4
  <1> HIDE DEF P, Q, f, g, total
  <1>7. AddUp(g, P \ {n}, total - f[n])
    BY <1>1, <1>3, <1>4, <1>5, <1>6, AddUpRemove
  <1>8. AddUp(g, Q, Effective(os, o) - uld[o])
    BY <1>3, <1>6, <1>7
  <1>9. QED
    BY <1>8 DEF Balance, Q, g

\* What is owed is an integer.
LEMMA OwedInt ==
  ASSUME NEW job \in Job, NEW o \in Orders, NEW os,
         os \in KnownOrders
  PROVE  Owed(job, os, o) \in Int /\ Effective(os, o) \in Int
  <1>1. os[o].quantity \in Int
    BY KitchenAssumption DEF KnownOrders, Quantities
  <1>2. job.shows[o] \in Int
    BY DEF Job
  <1>3. QED
    BY <1>1, <1>2 DEF Owed, Effective

OrdersOK(os) ==
    /\ os \in KnownOrders
    /\ \A o \in Orders : os[o].state = "NONE" => os[o].quantity = 0

\* What the Known ps make of order o, when job "new" tells of it.
Tells(new, os, ps, o) ==
    /\ \A j \in Pending(jobs, o) : Owed(jobs[j], ps, o) = Owed(jobs[j], os, o)
    /\ Effective(ps, o) =
         IF o \in new.about /\ new.kind # "resend"
           THEN Effective(os, o) + Owed(new, ps, o) ELSE Effective(os, o)

\* An event that tells what the Known became keeps the books.
LEMMA PublishBooks ==
  ASSUME IInv, Books, NEW new \in Job, NEW n, n \notin DOMAIN jobs,
         jobs' = Added(jobs, n, new), told' = told, OrdersOK(Known'), Sound(new, Known'),
         \A j \in DOMAIN jobs : Sound(jobs[j], Known'),
         overtaken \cup missed \subseteq overtaken' \cup missed',
         \A o \in Orders \ (overtaken' \cup missed') : Tells(new, Known, Known', o)
  PROVE  Books'
  <1>1. /\ \A j \in DOMAIN jobs : jobs[j] \in Job
        /\ told \in [Orders -> Int]
        /\ Known \in KnownOrders
    BY KnownOK DEF IInv, TypeOK
  <1>2. PICK os, ps, ks : os = Known /\ ps = Known' /\ ks = jobs'
    OBVIOUS
  <1>3. /\ DOMAIN ks = DOMAIN jobs \cup {n} /\ ks[n] = new
        /\ \A j \in DOMAIN jobs : ks[j] = jobs[j]
        /\ ks = Added(jobs, n, new)
    BY <1>2 DEF Added
  <1>4. \A j \in DOMAIN ks : Sound(ks[j], ps)
    BY <1>2, <1>3
  <1>5. ASSUME NEW o \in Orders \ (overtaken' \cup missed')
        PROVE  Balance(ps, ks, told, o)
    <2>1. Balance(os, jobs, told, o) /\ Tells(new, os, ps, o)
      BY <1>2 DEF Books
    <2>2. /\ \A j \in Pending(jobs, o) : /\ Owed(jobs[j], ps, o) = Owed(jobs[j], os, o)
                                         /\ Owed(jobs[j], ps, o) \in Int
          /\ Owed(new, ps, o) \in Int /\ Effective(os, o) \in Int /\ told[o] \in Int
      <3>1. \A j \in Pending(jobs, o) : jobs[j] \in Job
        BY <1>1 DEF Pending
      <3>2. QED
        BY <1>1, <1>2, <2>1, <3>1, OwedInt DEF OrdersOK, Tells
    <2>3. CASE o \in new.about /\ new.kind # "resend"
      <3>1. Effective(ps, o) = Effective(os, o) + Owed(new, ps, o)
        BY <2>1, <2>3 DEF Tells
      <3>2. QED
        BY <1>3, <2>1, <2>2, <2>3, <3>1, BalanceMore
    <2>4. CASE ~(o \in new.about /\ new.kind # "resend")
      <3>1. Effective(ps, o) = Effective(os, o)
        BY <2>1, <2>4 DEF Tells
      <3>2. Pending(ks, o) = Pending(jobs, o) /\ \A j \in Pending(jobs, o) : ks[j] = jobs[j]
        BY <1>3, <2>4 DEF Pending
      <3>3. \A j \in Pending(jobs, o) : Owed(ks[j], ps, o) = Owed(jobs[j], os, o)
        BY <2>2, <3>2
      <3>4. QED
        BY <2>1, <3>1, <3>2, <3>3, BalanceSame
    <2>5. QED
      BY <2>3, <2>4
  <1>6. QED
    BY <1>2, <1>4, <1>5 DEF Books, OrdersOK

\* So does a handler that goes on with its job j.
LEMMA StepBooks ==
  ASSUME Books, NEW j \in DOMAIN jobs, NEW job, jobs' = [jobs EXCEPT ![j] = job],
         job.kind = jobs[j].kind, job.about = jobs[j].about, Sound(job, Known),
         \A o \in job.about : Owed(job, Known, o) = Owed(jobs[j], Known, o),
         UNCHANGED <<Known, told, overtaken, missed>>
  PROVE  Books'
  <1>1. PICK ks : ks = jobs'
    OBVIOUS
  <1>2. /\ DOMAIN ks = DOMAIN jobs /\ ks[j] = job
        /\ \A k \in DOMAIN jobs \ {j} : ks[k] = jobs[k]
    BY <1>1
  <1>3. \A k \in DOMAIN ks : Sound(ks[k], Known)
    BY <1>2 DEF Books
  <1>4. ASSUME NEW o \in Orders \ (overtaken \cup missed) PROVE Balance(Known, ks, told, o)
    <2>1. Pending(ks, o) = Pending(jobs, o)
      BY <1>2 DEF Pending
    <2>2. \A k \in Pending(jobs, o) : Owed(ks[k], Known, o) = Owed(jobs[k], Known, o)
      BY <1>2 DEF Pending
    <2>3. Balance(Known, jobs, told, o)
      BY DEF Books
    <2>4. QED
      BY <2>1, <2>2, <2>3, BalanceSame
  <1>5. QED
    BY <1>1, <1>3, <1>4 DEF Books

\* So does one that ends with its job, having told what it owed or missed it.
LEMMA EndBooks ==
  ASSUME IInv, Books, NEW j \in DOMAIN jobs, End(j), Known' = Known,
         overtaken \cup missed \subseteq overtaken' \cup missed',
         \A o \in Orders \ (overtaken' \cup missed') :
            told'[o] = IF j \in Pending(jobs, o)
                         THEN told[o] + Owed(jobs[j], Known, o) ELSE told[o]
  PROVE  Books'
  <1>1. /\ jobs[j] \in Job /\ told \in [Orders -> Int]
        /\ Known \in KnownOrders
    BY KnownOK DEF IInv, TypeOK
  <1>2. PICK ks, uld : ks = jobs' /\ uld = told'
    OBVIOUS
  <1>3. ks = [k \in DOMAIN jobs \ {j} |-> jobs[k]]
    BY <1>2 DEF End
  <1>4. DOMAIN ks = DOMAIN jobs \ {j} /\ \A k \in DOMAIN ks : ks[k] = jobs[k]
    BY <1>3
  <1>5. \A k \in DOMAIN ks : Sound(ks[k], Known)
    BY <1>4 DEF Books
  <1>6. ASSUME NEW o \in Orders \ (overtaken' \cup missed') PROVE Balance(Known, ks, uld, o)
    <2>1. Balance(Known, jobs, told, o)
      BY DEF Books
    <2>2. Owed(jobs[j], Known, o) \in Int /\ Effective(Known, o) \in Int /\ told[o] \in Int
      BY <1>1, OwedInt
    <2>3. CASE j \in Pending(jobs, o)
      <3>1. uld[o] = told[o] + Owed(jobs[j], Known, o)
        BY <1>2, <2>3
      <3>2. QED
        BY <1>3, <2>1, <2>2, <2>3, <3>1, BalanceLess
    <2>4. CASE j \notin Pending(jobs, o)
      <3>1. uld[o] = told[o]
        BY <1>2, <2>4
      <3>2. Pending(ks, o) = Pending(jobs, o) /\ \A k \in Pending(jobs, o) : ks[k] = jobs[k]
        BY <1>4, <2>4 DEF Pending
      <3>3. \A k \in Pending(jobs, o) : Owed(ks[k], Known, o) = Owed(jobs[k], Known, o)
        BY <3>2
      <3>4. QED
        BY <2>1, <3>1, <3>2, <3>3, BalanceSame
    <2>5. QED
      BY <2>3, <2>4
  <1>7. QED
    BY <1>2, <1>5, <1>6 DEF Books

\* A counter that goes changes what no job tells.
LEMMA RestartBooks ==
  ASSUME Books, NEW S \in SUBSET DOMAIN jobs, Restart(S),
         \A j \in DOMAIN jobs \ S : jobs[j].about = {},
         \A j \in DOMAIN jobs : jobs[j] \in Job
  PROVE  Books'
  <1>1. /\ jobs' = [j \in S |-> IF jobs[j].step \in {"expire", "get"}
                                THEN [jobs[j] EXCEPT !.restarted = TRUE] ELSE jobs[j]]
        /\ UNCHANGED <<Known, told, overtaken, missed>>
    BY DEF Restart, Known, KnownOf, canceling
  <1>2. PICK ks : ks = jobs'
    OBVIOUS
  <1>3. DOMAIN ks = S
    BY <1>1, <1>2
  <1>4. ASSUME NEW j \in S
        PROVE  /\ ks[j].kind = jobs[j].kind /\ ks[j].about = jobs[j].about
               /\ ks[j].step = jobs[j].step /\ ks[j].shows = jobs[j].shows
    <2>1. jobs[j] \in Job
      OBVIOUS
    <2>2. CASE jobs[j].step \in {"expire", "get"}
      <3>1. ks[j] = [jobs[j] EXCEPT !.restarted = TRUE]
        BY <1>1, <1>2, <2>2
      <3>2. QED
        BY <2>1, <3>1 DEF Job
    <2>3. CASE jobs[j].step \notin {"expire", "get"}
      BY <1>1, <1>2, <2>3
    <2>4. QED
      BY <2>2, <2>3
  <1>5. \A j \in DOMAIN ks : Sound(ks[j], Known)
    BY <1>3, <1>4 DEF Books, Sound
  <1>6. ASSUME NEW o \in Orders \ (overtaken \cup missed) PROVE Balance(Known, ks, told, o)
    <2>1. Pending(ks, o) = Pending(jobs, o)
      BY <1>3, <1>4 DEF Pending
    <2>2. \A k \in Pending(jobs, o) : Owed(ks[k], Known, o) = Owed(jobs[k], Known, o)
      BY <1>3, <1>4, <2>1 DEF Owed, Pending
    <2>3. Balance(Known, jobs, told, o)
      BY DEF Books
    <2>4. QED
      BY <2>1, <2>2, <2>3, BalanceSame
  <1>7. QED
    BY <1>1, <1>2, <1>5, <1>6 DEF Books

\* Publish adds a job for the event.
LEMMA PublishAdds ==
  ASSUME IInv, NEW S \in SUBSET Orders, NEW shows \in [Orders -> Int],
         NEW kind \in {"create", "update", "cancel", "resend", "close"},
         NEW step \in {"read", "increment", "delete"}, Publish(kind, S, shows, step)
  PROVE  \E new \in Job, n \in Nat :
            /\ new.kind = kind /\ new.about = S /\ new.shows = shows /\ new.step = step
            /\ n \notin DOMAIN jobs /\ jobs' = Added(jobs, n, new)
  <1>1. PICK new : new = [kind |-> kind, about |-> S, shows |-> shows, step |-> step,
                          number |-> 0, floor |-> 0, restarted |-> FALSE]
    OBVIOUS
  <1>2. /\ new \in Job
        /\ new.kind = kind /\ new.about = S /\ new.shows = shows /\ new.step = step
    BY <1>1 DEF Job
  <1>3. PICK n \in Nat : n = published + 1 /\ n \notin DOMAIN jobs
    BY DEF IInv, TypeOK
  <1>4. jobs' = [j \in DOMAIN jobs \cup {n} |-> IF j \in DOMAIN jobs THEN jobs[j] ELSE new]
    BY <1>1, <1>3 DEF Publish
  <1>5. jobs' = Added(jobs, n, new)
    BY <1>4 DEF Added
  <1>6. QED
    BY <1>2, <1>3, <1>5

LEMMA CreateBooks ==
  ASSUME IInv, Books, NEW o \in Orders, Create(o)
  PROVE  Books'
  <1>1. PICK q \in Quantities \ {0} :
          /\ orders[o].state = "NONE"
          /\ orders' = [orders EXCEPT ![o] = [state |-> "ORDER", quantity |-> q]]
          /\ Publish("create", {o}, Nothing, "read")
          /\ UNCHANGED <<told, overtaken, missed, refunded>>
    BY DEF Create, kept, canceling
  <1>2. Nothing \in [Orders -> Int] /\ {o} \in SUBSET Orders
    BY DEF Nothing
  <1>3. PICK new \in Job, n \in Nat :
          /\ new.kind = "create" /\ new.about = {o} /\ new.step = "read"
          /\ n \notin DOMAIN jobs /\ jobs' = Added(jobs, n, new)
    BY <1>1, <1>2, PublishAdds
  <1>4. PICK os, ps : os = Known /\ ps = Known'
    OBVIOUS
  <1>5. /\ orders \in [Orders -> [state : {"NONE", "ORDER", "CANCEL", "PAST"}, quantity : Quantities]]
        /\ o \notin refunded
    BY <1>1 DEF IInv, TypeOK
  <1>6. /\ os[o].state = "NONE" /\ ps[o].state = "ORDER" /\ ps[o].quantity = q
        /\ \A p \in Orders \ {o} : ps[p] = os[p]
        /\ q \in Int /\ os[o].quantity = 0
    <2>1. os[o].state = "NONE" /\ os[o].quantity = 0
      BY <1>1, <1>4, <1>5 DEF Known, KnownOf, Books
    <2>2. ps[o].state = "ORDER" /\ ps[o].quantity = q
      BY <1>1, <1>4, <1>5 DEF Known, KnownOf
    <2>3. \A p \in Orders \ {o} : ps[p] = os[p]
      BY <1>1, <1>4, <1>5 DEF Known, KnownOf
    <2>4. q \in Int
      BY KitchenAssumption DEF Quantities
    <2>5. QED
      BY <2>1, <2>2, <2>3, <2>4
  <1>7. OrdersOK(ps)
    <2>1. DOMAIN ps = Orders /\ DOMAIN os = Orders /\ os \in KnownOrders
      BY <1>4, <1>5, KnownOK DEF Known, KnownOf
    <2>2. ps[o] = [state |-> "ORDER", quantity |-> q]
      BY <1>1, <1>4, <1>5 DEF Known, KnownOf
    <2>3. ps = [p \in Orders |-> ps[p]]
      BY <1>4 DEF Known, KnownOf
    <2>4. ps \in KnownOrders
      BY <1>6, <2>1, <2>2, <2>3 DEF KnownOrders
    <2>5. \A p \in Orders : ps[p].state = "NONE" => ps[p].quantity = 0
      BY <1>4, <1>6 DEF Books
    <2>6. QED
      BY <2>4, <2>5 DEF OrdersOK
  <1>8. \A j \in DOMAIN jobs : Sound(jobs[j], os) /\ jobs[j] \in Job
    BY <1>4 DEF Books, IInv, TypeOK
  <1>9. \A j \in DOMAIN jobs : o \notin jobs[j].about /\ jobs[j].about \subseteq Orders
    BY <1>6, <1>8 DEF Sound, Job
  <1>10. \A j \in DOMAIN jobs : Sound(jobs[j], ps)
    BY <1>6, <1>8, <1>9 DEF Sound
  <1>11. Sound(new, ps)
    BY <1>3, <1>6 DEF Sound
  <1>12. ASSUME NEW p \in Orders PROVE Tells(new, os, ps, p)
    <2>1. CASE p = o
      <3>1. Pending(jobs, o) = {}
        BY <1>9 DEF Pending
      <3>2. Effective(os, o) = 0 /\ Effective(ps, o) = q /\ Owed(new, ps, o) = q
        BY <1>3, <1>6 DEF Effective, Owed
      <3>3. Effective(ps, o) = Effective(os, o) + Owed(new, ps, o)
        BY <1>6, <3>2
      <3>4. QED
        BY <1>3, <2>1, <3>1, <3>3 DEF Tells
    <2>2. CASE p # o
      <3>1. ps[p] = os[p] /\ p \notin new.about
        BY <1>3, <1>6, <2>2
      <3>2. QED
        BY <3>1 DEF Tells, Owed, Effective
    <2>3. QED
      BY <2>1, <2>2
  <1>13. QED
    BY <1>1, <1>3, <1>4, <1>7, <1>10, <1>11, <1>12, PublishBooks

\* What a request may change is an order to the kitchen.
LEMMA ChangeableKnown ==
  ASSUME IInv, NEW o \in Changeable
  PROVE  /\ o \in Orders /\ Known[o].state = "ORDER"
         /\ orders[o].state \in {"ORDER", "CANCEL"}
  BY DEF Changeable, Ordered, Known, KnownOf, IInv, TypeOK

LEMMA UpdateBooks ==
  ASSUME IInv, Books, NEW S \in SUBSET Changeable, Update(S)
  PROVE  Books'
  <1>1. PICK to \in [S -> Quantities] :
          /\ orders' = [o \in Orders |->
               IF o \in Renewed(S, to)
                 THEN [state |-> IF to[o] = 0 THEN "CANCEL" ELSE "ORDER", quantity |-> to[o]]
                 ELSE orders[o]]
          /\ Publish("update", S, Diff(to), "increment")
          /\ overtaken' = overtaken \cup UNION {jobs[j].about : j \in Unread(S)}
          /\ told' = told /\ missed' = missed /\ refunded' = refunded \ Renewed(S, to)
    BY DEF Update, Seen
  <1>2. S \in SUBSET Orders /\ \A o \in S : Known[o].state = "ORDER"
    BY ChangeableKnown
  <1>3. /\ orders \in [Orders -> [state : {"NONE", "ORDER", "CANCEL", "PAST"}, quantity : Quantities]]
        /\ \A o \in Orders : orders[o].quantity \in Int
        /\ \A o \in S : to[o] \in Int
    <2>1. orders \in [Orders -> [state : {"NONE", "ORDER", "CANCEL", "PAST"}, quantity : Quantities]]
      BY DEF IInv, TypeOK
    <2>2. QED
      BY <1>1, <2>1, KitchenAssumption DEF Quantities
  <1>4. PICK shows \in [Orders -> Int] :
          /\ shows = Diff(to)
          /\ \A o \in S : shows[o] = to[o] - orders[o].quantity
          /\ \A o \in Orders \ S : shows[o] = 0
    <2>1. DOMAIN to = S
      BY <1>1
    <2>2. Diff(to) = [o \in Orders |-> IF o \in S THEN to[o] - orders[o].quantity ELSE 0]
      BY <2>1 DEF Diff
    <2>3. ASSUME NEW o \in Orders
          PROVE  (IF o \in S THEN to[o] - orders[o].quantity ELSE 0) \in Int
      <3>1. o \in S => to[o] \in Int /\ orders[o].quantity \in Int
        BY <1>3
      <3>2. QED
        BY <3>1
    <2>4. QED
      BY <1>2, <2>2, <2>3
  <1>5. PICK new \in Job, n \in Nat :
          /\ new.kind = "update" /\ new.about = S /\ new.shows = shows /\ new.step = "increment"
          /\ n \notin DOMAIN jobs /\ jobs' = Added(jobs, n, new)
    <2>1. Publish("update", S, shows, "increment")
      BY <1>1, <1>4
    <2>2. QED
      BY <1>2, <2>1, PublishAdds
  <1>6. PICK os, ps : os = Known /\ ps = Known'
    OBVIOUS
  <1>7. os \in KnownOrders /\ \A o \in Orders : os[o].quantity = orders[o].quantity
    BY <1>3, <1>6, KnownOK
  <1>8. ps \in KnownOrders
    <2>1. orders' \in [Orders -> [state : {"NONE", "ORDER", "CANCEL", "PAST"}, quantity : Quantities]]
      BY <1>1, <1>3 DEF Renewed
    <2>2. Known' \in KnownOrders
      BY <2>1, KnownOfOK DEF Known
    <2>3. QED
      BY <1>6, <2>2
  <1>9. ASSUME NEW o \in S
        PROVE  /\ ps[o].quantity = to[o] /\ ps[o].state # "NONE"
               /\ ps[o].state = "CANCEL" => to[o] = 0
    <2>1. CASE o \in Renewed(S, to)
      <3>1. orders'[o] = [state |-> IF to[o] = 0 THEN "CANCEL" ELSE "ORDER", quantity |-> to[o]]
        BY <1>1, <1>2, <2>1
      <3>2. ps[o].quantity = to[o] /\ ps[o].state = IF to[o] = 0 THEN "CANCEL" ELSE "ORDER"
        BY <1>1, <1>2, <1>6, <2>1, <3>1 DEF Known, KnownOf
      <3>3. QED
        BY <3>2
    <2>2. CASE o \notin Renewed(S, to)
      <3>1. to[o] = orders[o].quantity
        BY <2>2 DEF Renewed
      <3>2. orders'[o] = orders[o] /\ (o \in refunded' <=> o \in refunded)
        BY <1>1, <1>2, <2>2
      <3>3. ps[o].quantity = os[o].quantity /\ ps[o].state = os[o].state
        BY <1>2, <1>6, <3>2 DEF Known, KnownOf
      <3>4. QED
        BY <1>2, <1>6, <1>7, <3>1, <3>3
    <2>3. QED
      BY <2>1, <2>2
  <1>10. \A o \in Orders \ S : ps[o] = os[o]
    <2>1. ASSUME NEW o \in Orders \ S PROVE orders'[o] = orders[o] /\ (o \in refunded' <=> o \in refunded)
      BY <1>1 DEF Renewed
    <2>2. QED
      BY <1>6, <2>1 DEF Known, KnownOf
  <1>11. OrdersOK(ps)
    BY <1>6, <1>8, <1>9, <1>10 DEF OrdersOK, Books
  <1>12. \A j \in DOMAIN jobs : /\ Sound(jobs[j], os) /\ jobs[j] \in Job
                                /\ jobs[j].about \subseteq Orders
    BY <1>6 DEF Books, IInv, TypeOK, Job
  <1>13. \A o \in S : os[o].state = "ORDER"
    BY <1>2, <1>6
  <1>14. \A j \in DOMAIN jobs : Sound(jobs[j], ps)
    <2>1. ASSUME NEW j \in DOMAIN jobs PROVE Sound(jobs[j], ps)
      <3>1. Sound(jobs[j], os) /\ jobs[j].about \subseteq Orders
        BY <1>12
      <3>2. ASSUME NEW o \in jobs[j].about PROVE ps[o].state # "NONE"
        <4>1. os[o].state # "NONE"
          BY <3>1 DEF Sound
        <4>2. QED
          BY <1>9, <1>10, <3>1, <4>1
      <3>3. ASSUME jobs[j].kind = "cancel", jobs[j].step = "read", NEW o \in jobs[j].about
            PROVE  ps[o].state = "CANCEL"
        <4>1. os[o].state = "CANCEL"
          BY <3>1, <3>3 DEF Sound
        <4>2. o \notin S
          BY <1>13, <4>1
        <4>3. QED
          BY <1>10, <3>1, <4>1, <4>2
      <3>4. QED
        BY <3>1, <3>2, <3>3 DEF Sound
    <2>2. QED
      BY <2>1
  <1>15. Sound(new, ps)
    BY <1>4, <1>5, <1>9 DEF Sound
  <1>16. ASSUME NEW o \in Orders \ (overtaken' \cup missed') PROVE Tells(new, os, ps, o)
    <2>1. CASE o \in S
      <3>1. ASSUME NEW j \in Pending(jobs, o) PROVE jobs[j].step # "read"
        <4>1. j \in DOMAIN jobs /\ o \in jobs[j].about /\ jobs[j].kind # "resend"
          BY DEF Pending
        <4>2. SUFFICES ASSUME jobs[j].step = "read" PROVE FALSE
          OBVIOUS
        <4>3. jobs[j].kind = "create"
          BY <1>12, <1>13, <2>1, <4>1, <4>2 DEF Sound, Job
        <4>4. jobs[j].about = {o}
          BY <1>12, <4>1, <4>3 DEF Sound
        <4>5. j \in Unread(S)
          BY <2>1, <4>1, <4>2, <4>3, <4>4 DEF Unread
        <4>6. QED
          BY <1>1, <4>1, <4>5
      <3>2. \A j \in Pending(jobs, o) : Owed(jobs[j], ps, o) = Owed(jobs[j], os, o)
        BY <3>1 DEF Owed
      <3>3. /\ Effective(os, o) = orders[o].quantity /\ Effective(ps, o) = to[o]
            /\ Owed(new, ps, o) = to[o] - orders[o].quantity
        <4>1. Effective(os, o) = orders[o].quantity
          BY <1>7, <1>13, <2>1 DEF Effective
        <4>2. Effective(ps, o) = to[o]
          BY <1>9, <2>1 DEF Effective
        <4>3. Owed(new, ps, o) = to[o] - orders[o].quantity
          BY <1>4, <1>5, <2>1 DEF Owed
        <4>4. QED
          BY <4>1, <4>2, <4>3
      <3>4. Effective(ps, o) = Effective(os, o) + Owed(new, ps, o)
        BY <1>3, <2>1, <3>3
      <3>5. QED
        BY <1>5, <2>1, <3>2, <3>4 DEF Tells
    <2>2. CASE o \notin S
      <3>1. ps[o] = os[o] /\ o \notin new.about
        BY <1>5, <1>10, <2>2
      <3>2. QED
        BY <3>1 DEF Tells, Owed, Effective
    <2>3. QED
      BY <2>1, <2>2
  <1>17. overtaken \cup missed \subseteq overtaken' \cup missed'
    BY <1>1
  <1>18. QED
    BY <1>1, <1>5, <1>6, <1>11, <1>14, <1>15, <1>16, <1>17, PublishBooks

\* A cancellation keeps the books.
LEMMA CancelBooks ==
  ASSUME IInv, Books, NEW o \in Orders, Cancel(o)
  PROVE  Books'
  <1>1. /\ o \in Changeable /\ orders' = [orders EXCEPT ![o].state = "CANCEL"]
        /\ Publish("cancel", {o}, Nothing, "read") /\ refunded' = refunded \ {o}
        /\ told' = told /\ overtaken' = overtaken /\ missed' = missed
    BY DEF Cancel, Seen
  <1>2. PICK os, ps : os = Known /\ ps = Known'
    OBVIOUS
  <1>3. /\ orders \in [Orders -> [state : {"NONE", "ORDER", "CANCEL", "PAST"}, quantity : Quantities]]
        /\ \A j \in DOMAIN jobs : jobs[j] \in Job
    BY DEF IInv, TypeOK
  <1>4. os \in KnownOrders /\ os[o].state = "ORDER"
    BY <1>1, <1>2, <1>3, KnownOK, ChangeableKnown
  <1>5. /\ ps \in KnownOrders
        /\ ps[o].state = "CANCEL" /\ ps[o].quantity = os[o].quantity
        /\ \A p \in Orders \ {o} : ps[p] = os[p]
    <2>1. orders' \in [Orders -> [state : {"NONE", "ORDER", "CANCEL", "PAST"}, quantity : Quantities]]
      BY <1>1, <1>3
    <2>2. ps \in KnownOrders
      BY <1>2, <2>1, KnownOfOK DEF Known
    <2>3. QED
      BY <1>1, <1>2, <1>3, <2>2 DEF Known, KnownOf
  <1>6. Nothing \in [Orders -> Int]
    BY DEF Nothing
  <1>7. PICK new \in Job, n \in Nat :
          /\ new.kind = "cancel" /\ new.about = {o} /\ new.shows = Nothing /\ new.step = "read"
          /\ n \notin DOMAIN jobs /\ jobs' = Added(jobs, n, new)
    BY <1>1, <1>6, PublishAdds
  <1>8. \A j \in DOMAIN jobs : Sound(jobs[j], os) /\ jobs[j].about \subseteq Orders
    BY <1>2, <1>3 DEF Books, Job
  <1>9. \A j \in DOMAIN jobs : Sound(jobs[j], ps)
    BY <1>5, <1>8 DEF Sound
  <1>10. Sound(new, ps)
    BY <1>5, <1>7 DEF Sound
  <1>11. ASSUME NEW p \in Orders PROVE Tells(new, os, ps, p)
    <2>1. \A j \in Pending(jobs, p) : Owed(jobs[j], ps, p) = Owed(jobs[j], os, p)
      BY <1>5 DEF Owed
    <2>2. CASE p = o
      <3>1. PICK q \in Int : q = os[o].quantity
        BY <1>4, KitchenAssumption DEF KnownOrders, Quantities
      <3>2. Effective(os, o) = q /\ Effective(ps, o) = 0 /\ Owed(new, ps, o) = 0 - q
        BY <1>4, <1>5, <1>7, <3>1 DEF Effective, Owed
      <3>3. Effective(ps, o) = Effective(os, o) + Owed(new, ps, o)
        BY <3>2
      <3>4. QED
        BY <1>7, <2>1, <2>2, <3>3 DEF Tells
    <2>3. CASE p # o
      BY <1>5, <1>7, <2>1, <2>3 DEF Tells, Effective
    <2>4. QED
      BY <2>2, <2>3
  <1>12. OrdersOK(ps)
    BY <1>2, <1>5 DEF OrdersOK, Books
  <1>13. QED
    BY <1>1, <1>2, <1>7, <1>9, <1>10, <1>11, <1>12, PublishBooks

\* A receipt that is sent again and the end of the day tell nothing new.
LEMMA QuietBooks ==
  ASSUME IInv, Books, NEW S \in SUBSET Orders, \A o \in S : Known[o].state # "NONE",
         NEW kind \in {"resend", "close"}, NEW step \in {"read", "delete"},
         Publish(kind, S, Nothing, step), kind = "close" => S = {},
         step = "delete" => kind = "close",
         Known' = Known, told' = told, overtaken' = overtaken, missed' = missed
  PROVE  Books'
  <1>1. Nothing \in [Orders -> Int]
    BY DEF Nothing
  <1>2. PICK new \in Job, n \in Nat :
          /\ new.kind = kind /\ new.about = S /\ new.shows = Nothing /\ new.step = step
          /\ n \notin DOMAIN jobs /\ jobs' = Added(jobs, n, new)
    BY <1>1, PublishAdds
  <1>3. Sound(new, Known)
    BY <1>2 DEF Sound, Nothing
  <1>4. \A o \in Orders : Tells(new, Known, Known, o)
    BY <1>2 DEF Tells
  <1>5. OrdersOK(Known)
    BY KnownOK DEF OrdersOK, Books, IInv, TypeOK
  <1>6. \A j \in DOMAIN jobs : Sound(jobs[j], Known)
    BY DEF Books
  <1>7. QED
    BY <1>2, <1>3, <1>4, <1>5, <1>6, PublishBooks

LEMMA ResendBooks ==
  ASSUME IInv, Books, NEW S \in SUBSET Changeable, Resend(S)
  PROVE  Books'
  <1>1. /\ Publish("resend", S, Nothing, "read") /\ Known' = Known
        /\ told' = told /\ overtaken' = overtaken /\ missed' = missed
    BY DEF Resend, Known, KnownOf, kept, canceling
  <1>2. S \in SUBSET Orders /\ \A o \in S : Known[o].state # "NONE"
    BY ChangeableKnown
  <1>3. QED
    BY <1>1, <1>2, QuietBooks

LEMMA CloseBooks ==
  ASSUME IInv, Books, Close
  PROVE  Books'
  <1>1. /\ orders' = [o \in Orders |->
             IF o \in Ordered THEN [orders[o] EXCEPT !.state = "PAST"] ELSE orders[o]]
        /\ Publish("close", {}, Nothing, "delete") /\ refunded' = refunded
        /\ told' = told /\ overtaken' = overtaken /\ missed' = missed
    BY DEF Close
  <1>2. /\ orders \in [Orders -> [state : {"NONE", "ORDER", "CANCEL", "PAST"}, quantity : Quantities]]
        /\ \A o \in refunded : orders[o].state = "CANCEL"
    BY DEF IInv, TypeOK
  <1>3. \A o \in Orders :
          /\ orders'[o].quantity = orders[o].quantity
          /\ orders'[o].state = IF orders[o].state = "ORDER" THEN "PAST" ELSE orders[o].state
    BY <1>1, <1>2 DEF Ordered
  <1>4. Known' = Known
    BY <1>1, <1>2, <1>3 DEF Known, KnownOf
  <1>5. QED
    BY <1>1, <1>4, QuietBooks

\* Nor do refunds and merges.
LEMMA UntoldBooks ==
  ASSUME Books, UNCHANGED <<Known, jobs, told, overtaken, missed>>
  PROVE  Books'
  BY DEF Books

LEMMA RefundBooks ==
  ASSUME IInv, Books, NEW o \in Orders, Refund(o)
  PROVE  Books'
  <1>1. orders \in [Orders -> [state : {"NONE", "ORDER", "CANCEL", "PAST"}, quantity : Quantities]]
    BY DEF IInv, TypeOK
  <1>2. /\ orders' = [orders EXCEPT ![o].state = "CANCEL"] /\ refunded' = refunded \cup {o}
        /\ orders[o].state \in {"ORDER", "PAST"}
        /\ UNCHANGED <<jobs, told, overtaken, missed>>
    BY DEF Refund
  <1>3. \A p \in Orders :
          /\ orders'[p].quantity = orders[p].quantity
          /\ orders'[p].state = IF p = o THEN "CANCEL" ELSE orders[p].state
    BY <1>1, <1>2
  <1>4. \A p \in refunded : orders[p].state = "CANCEL"
    BY DEF IInv, TypeOK
  <1>5. Known' = Known
    BY <1>2, <1>3, <1>4 DEF Known, KnownOf
  <1>6. QED
    BY <1>2, <1>5, UntoldBooks

LEMMA MergeBooks ==
  ASSUME IInv, Books, NEW C \in SUBSET Changeable, NEW B \in SUBSET unseen, Merge(C, B)
  PROVE  Books'
  <1>1. /\ orders \in [Orders -> [state : {"NONE", "ORDER", "CANCEL", "PAST"}, quantity : Quantities]]
        /\ unseen \subseteq refunded /\ refunded \subseteq Orders
        /\ \A o \in refunded : orders[o].state = "CANCEL"
    BY DEF IInv, TypeOK
  <1>2. /\ orders' = [o \in Orders |->
             IF o \in C THEN [orders[o] EXCEPT !.state = "CANCEL"]
             ELSE IF o \in B THEN [orders[o] EXCEPT !.state = "ORDER"] ELSE orders[o]]
        /\ refunded' = (refunded \ B) \cup C
        /\ UNCHANGED <<jobs, told, overtaken, missed>>
    BY DEF Merge
  <1>3. \A o \in Orders :
          /\ orders'[o].quantity = orders[o].quantity
          /\ orders'[o].state = IF o \in C THEN "CANCEL"
                                ELSE IF o \in B THEN "ORDER" ELSE orders[o].state
    BY <1>1, <1>2
  <1>4. \A o \in C : o \in refunded \/ orders[o].state = "ORDER"
    BY <1>1 DEF Changeable, Ordered
  <1>5. Known' = Known
    BY <1>1, <1>2, <1>3, <1>4 DEF Known, KnownOf
  <1>6. QED
    BY <1>2, <1>5, UntoldBooks

\* A job that goes on to the next step shows what it showed.
LEMMA GoesOnBooks ==
  ASSUME IInv, Books, NEW j \in DOMAIN jobs, NEW job, jobs' = [jobs EXCEPT ![j] = job],
         job.kind = jobs[j].kind, job.about = jobs[j].about, job.shows = jobs[j].shows,
         jobs[j].step # "read", job.step \notin {"read", "delete"},
         UNCHANGED <<Known, told, overtaken, missed>>
  PROVE  Books'
  <1>1. Sound(jobs[j], Known)
    BY DEF Books
  <1>2. Sound(job, Known)
    BY <1>1 DEF Sound
  <1>3. \A o \in job.about : Owed(job, Known, o) = Owed(jobs[j], Known, o)
    BY DEF Owed
  <1>4. QED
    BY <1>2, <1>3, StepBooks

LEMMA ReadBooks ==
  ASSUME IInv, Books, NEW j \in DOMAIN jobs, Read(j)
  PROVE  Books'
  <1>1. jobs[j] \in Job /\ jobs[j].step = "read" /\ Sound(jobs[j], Known)
    BY DEF IInv, TypeOK, Read, At, Books
  <1>2. PICK shows : shows = [o \in Orders |-> Shown(j, o)]
    OBVIOUS
  <1>3. \A o \in Orders : shows[o] = Owed(jobs[j], Known, o)
    <2>1. \A o \in Orders : Known[o].quantity = orders[o].quantity
      BY KnownOK DEF IInv, TypeOK
    <2>2. QED
      BY <1>1, <1>2, <2>1 DEF Shown, Owed
  <1>4. PICK job : job = [jobs[j] EXCEPT !.shows = shows, !.step = "increment"]
    OBVIOUS
  <1>5. jobs' = [jobs EXCEPT ![j] = job] /\ UNCHANGED <<Known, told, overtaken, missed>>
    BY <1>2, <1>4 DEF Read, Known, KnownOf, kept, canceling
  <1>6. /\ job.kind = jobs[j].kind /\ job.about = jobs[j].about
        /\ job.shows = shows /\ job.step = "increment" /\ job.about \subseteq Orders
    BY <1>1, <1>4 DEF Job
  <1>7. Sound(job, Known)
    <2>1. \A o \in Orders \ job.about : job.shows[o] = 0
      BY <1>1, <1>3, <1>6 DEF Owed
    <2>2. QED
      BY <1>1, <1>6, <2>1 DEF Sound
  <1>8. \A o \in job.about : Owed(job, Known, o) = Owed(jobs[j], Known, o)
    <2>1. \A o \in job.about : Owed(job, Known, o) = shows[o]
      BY <1>6 DEF Owed
    <2>2. QED
      BY <1>3, <1>6, <2>1
  <1>9. QED
    BY <1>5, <1>6, <1>7, <1>8, StepBooks

LEMMA HandleBooks ==
  ASSUME IInv, Books, NEW j \in DOMAIN jobs, Handle(j)
  PROVE  Books'
  <1>1. jobs[j] \in Job /\ Sound(jobs[j], Known) /\ \A k \in DOMAIN jobs : jobs[k] \in Job
    BY DEF IInv, TypeOK, Books
  <1>2. CASE Read(j)
    BY <1>2, ReadBooks
  <1>3. CASE Increment(j)
    <2>1. PICK step \in {"expire", "get"} : step = IF counter' = 1 THEN "expire" ELSE "get"
      OBVIOUS
    <2>2. PICK job : job = [jobs[j] EXCEPT !.step = step, !.floor = highest]
      OBVIOUS
    <2>3. /\ jobs' = [jobs EXCEPT ![j] = job] /\ jobs[j].step = "increment"
          /\ UNCHANGED <<Known, told, overtaken, missed>>
      BY <1>3, <2>1, <2>2 DEF Increment, At, Known, KnownOf, kept, canceling
    <2>4. /\ job.kind = jobs[j].kind /\ job.about = jobs[j].about
          /\ job.shows = jobs[j].shows /\ job.step \notin {"read", "delete"}
      BY <1>1, <2>2 DEF Job
    <2>5. QED
      BY <2>3, <2>4, GoesOnBooks
  <1>4. CASE Expire(j)
    <2>1. PICK job : job = [jobs[j] EXCEPT !.step = "get"]
      OBVIOUS
    <2>2. /\ jobs' = [jobs EXCEPT ![j] = job] /\ jobs[j].step = "expire"
          /\ UNCHANGED <<Known, told, overtaken, missed>>
      BY <1>4, <2>1 DEF Expire, At, Known, KnownOf, kept, canceling
    <2>3. /\ job.kind = jobs[j].kind /\ job.about = jobs[j].about
          /\ job.shows = jobs[j].shows /\ job.step \notin {"read", "delete"}
      BY <1>1, <2>1 DEF Job
    <2>4. QED
      BY <2>2, <2>3, GoesOnBooks
  <1>5. CASE Get(j)
    <2>1. PICK job : job = [jobs[j] EXCEPT !.number = PrintNo, !.step = "print"]
      OBVIOUS
    <2>2. /\ jobs' = [jobs EXCEPT ![j] = job] /\ jobs[j].step = "get"
          /\ UNCHANGED <<Known, told, overtaken, missed>>
      BY <1>5, <2>1 DEF Get, At, Known, KnownOf, canceling
    <2>3. /\ job.kind = jobs[j].kind /\ job.about = jobs[j].about
          /\ job.shows = jobs[j].shows /\ job.step \notin {"read", "delete"}
      BY <1>1, <2>1 DEF Job
    <2>4. QED
      BY <2>2, <2>3, GoesOnBooks
  <1>6. CASE PrintReceipt(j)
    <2>1. /\ End(j) /\ Known' = Known /\ overtaken' = overtaken /\ missed' = missed
          /\ jobs[j].step = "print"
          /\ told' = IF jobs[j].kind = "resend" THEN told
                     ELSE [o \in Orders |-> told[o] + jobs[j].shows[o]]
      BY <1>6 DEF PrintReceipt, At, Known, KnownOf, canceling
    <2>2. ASSUME NEW o \in Orders
          PROVE  told'[o] = IF j \in Pending(jobs, o)
                              THEN told[o] + Owed(jobs[j], Known, o) ELSE told[o]
      <3>1. Owed(jobs[j], Known, o) = jobs[j].shows[o]
        BY <2>1 DEF Owed
      <3>2. CASE jobs[j].kind = "resend"
        BY <2>1, <3>2 DEF Pending
      <3>3. CASE jobs[j].kind # "resend" /\ o \in jobs[j].about
        BY <2>1, <3>1, <3>3 DEF Pending
      <3>4. CASE jobs[j].kind # "resend" /\ o \notin jobs[j].about
        <4>1. jobs[j].shows[o] = 0 /\ told[o] \in Int
          BY <1>1, <2>1, <3>4 DEF Sound, IInv, TypeOK
        <4>2. told'[o] = told[o] + jobs[j].shows[o] /\ j \notin Pending(jobs, o)
          BY <2>1, <3>4 DEF Pending
        <4>3. QED
          BY <4>1, <4>2
      <3>5. QED
        BY <3>2, <3>3, <3>4
    <2>3. QED
      BY <2>1, <2>2, EndBooks
  <1>7. CASE Fail(j)
    <2>1. /\ End(j) /\ Known' = Known /\ told' = told /\ overtaken' = overtaken
          /\ missed' = missed \cup jobs[j].about
      BY <1>7 DEF Fail, Known, KnownOf, canceling
    <2>2. ASSUME NEW o \in Orders \ (overtaken' \cup missed')
          PROVE  told'[o] = IF j \in Pending(jobs, o)
                              THEN told[o] + Owed(jobs[j], Known, o) ELSE told[o]
      BY <2>1 DEF Pending
    <2>3. QED
      BY <2>1, <2>2, EndBooks
  <1>8. CASE Delete(j)
    <2>1. Restart(DOMAIN jobs \ {j}) /\ jobs[j].step = "delete"
      BY <1>8 DEF Delete, At
    <2>2. jobs[j].about = {}
      BY <1>1, <2>1 DEF Sound
    <2>3. \A k \in DOMAIN jobs \ (DOMAIN jobs \ {j}) : jobs[k].about = {}
      BY <2>2
    <2>4. QED
      BY <1>1, <2>1, <2>3, RestartBooks
  <1>9. QED
    BY <1>2, <1>3, <1>4, <1>5, <1>6, <1>7, <1>8 DEF Handle

-----------------------------------------------------------------------------
(* The theorems.                                                            *)

\* The invariant holds in every state.
THEOREM Invariant == Spec => []IInv
  <1>1. Init => IInv
    <2>1. SUFFICES ASSUME Init PROVE IInv
      OBVIOUS
    <2>2. DOMAIN jobs = {}
      BY <2>1 DEF Init
    <2>3. RestOK
      <3>1. orders = [o \in Orders |-> [state |-> "NONE", quantity |-> 0]]
        BY <2>1 DEF Init
      <3>2. orders \in [Orders -> [state : {"NONE", "ORDER", "CANCEL", "PAST"}, quantity : Quantities]]
        BY <3>1, KitchenAssumption DEF Quantities
      <3>3. told \in [Orders -> Int]
        BY <2>1 DEF Init
      <3>4. QED
        BY <2>1, <2>2, <3>2, <3>3 DEF Init, RestOK
    <2>4. QED
      BY <2>1, <2>2, <2>3, Parts DEF Init, JobsGood
  <1>2. IInv /\ [Next]_vars => IInv'
    <2>1. SUFFICES ASSUME IInv, [Next]_vars PROVE IInv'
      OBVIOUS
    <2>2. CASE Change
      BY <2>1, <2>2, ChangeKeeps
    <2>3. CASE Lapse
      <3>1. Restart(DOMAIN jobs)
        BY <2>3 DEF Lapse
      <3>2. QED
        BY <2>1, <3>1, RestartKeeps
    <2>4. CASE \E j \in DOMAIN jobs : Handle(j)
      BY <2>1, <2>4, HandleKeeps
    <2>5. CASE UNCHANGED vars
      BY <2>1, <2>5 DEF vars, kept, canceling, IInv, Ahead, TypeOK, NumbersFollow, Quantities, Job
    <2>6. QED
      BY <2>1, <2>2, <2>3, <2>4, <2>5 DEF Next
  <1>3. QED
    BY <1>1, <1>2, PTL DEF Spec

\* Whatever handlers interleave, fail or lose their counter, the state is well
\* typed and every receipt that is printed has a number.
THEOREM TypeCorrect == Spec => []TypeOK
  BY Invariant, PTL DEF IInv

\* A handler that increments the counter after another got its number gets a
\* higher one, unless the counter went meanwhile.
THEOREM NumbersGrow == Spec => []NumbersFollow
  BY Invariant, PTL DEF IInv

\* The books hold in every state.
THEOREM BooksKept == Spec => []Books
  <1>1. Init => Books
    <2>1. SUFFICES ASSUME Init PROVE Books
      OBVIOUS
    <2>2. /\ DOMAIN jobs = {} /\ told = [o \in Orders |-> 0]
          /\ Known = [o \in Orders |-> [state |-> "NONE", quantity |-> 0]]
      BY <2>1 DEF Init, Known, KnownOf
    <2>3. ASSUME NEW o \in Orders PROVE Balance(Known, jobs, told, o)
      <3>1. Pending(jobs, o) = {} /\ Effective(Known, o) - told[o] = 0
        BY <2>2 DEF Pending, Effective
      <3>2. ASSUME NEW f PROVE AddUp(f, {}, 0)
        <4>1. AddsTo([S \in SUBSET {} |-> 0], f, {}, 0)
          BY DEF AddsTo
        <4>2. QED
          BY <4>1 DEF AddUp
      <3>3. QED
        BY <3>1, <3>2 DEF Balance
    <2>4. QED
      BY <2>2, <2>3 DEF Books
  <1>2. IInv /\ Books /\ [Next]_vars => Books'
    <2>1. SUFFICES ASSUME IInv, Books, [Next]_vars PROVE Books'
      OBVIOUS
    <2>2. CASE Change
      BY <2>1, <2>2, CreateBooks, CancelBooks, RefundBooks, UpdateBooks, ResendBooks, MergeBooks,
         CloseBooks DEF Change
    <2>3. CASE Lapse
      <3>1. Restart(DOMAIN jobs)
        BY <2>3 DEF Lapse
      <3>2. \A j \in DOMAIN jobs : jobs[j] \in Job
        BY <2>1 DEF IInv, TypeOK
      <3>3. QED
        BY <2>1, <3>1, <3>2, RestartBooks
    <2>4. CASE \E j \in DOMAIN jobs : Handle(j)
      BY <2>1, <2>4, HandleBooks
    <2>5. CASE UNCHANGED vars
      BY <2>1, <2>5, UntoldBooks DEF vars, kept, canceling, Known, KnownOf
    <2>6. QED
      BY <2>1, <2>2, <2>3, <2>4, <2>5 DEF Next
  <1>3. QED
    BY <1>1, <1>2, Invariant, PTL DEF Spec

\* Whatever the order in which the handlers of ReceiptSendEventHandler read the
\* orders and publish their receipts: once the events about an order are all
\* handled, the receipts the kitchen got of it add up to the order as it is or,
\* if PosTableActivity.addPayment canceled it for a refund and no other change
\* told of it, as it was before, unless one of them was lost or the order was
\* updated before the receipt of its creation was made.
THEOREM KitchenToldRight == Spec => []KitchenAddsUp
  <1>1. IInv /\ Books => KitchenAddsUp
    <2>0. ASSUME IInv, NEW o \in Orders
          PROVE  Effective(Known, o) = IF orders[o].state = "CANCEL" /\ o \notin refunded
                                         THEN 0 ELSE orders[o].quantity
      BY <2>0 DEF Effective, Known, KnownOf
    <2>1. SUFFICES ASSUME IInv, Books, NEW o \in Orders \ (overtaken \cup missed),
                          \A j \in DOMAIN jobs : o \notin jobs[j].about
                   PROVE  told[o] = Effective(Known, o)
      BY <2>0 DEF KitchenAddsUp, Handled
    <2>2. Pending(jobs, o) = {}
      BY <2>1 DEF Pending
    <2>3. PICK total : total = Effective(Known, o) - told[o] /\ total = 0
      <3>1. PICK total : total = Effective(Known, o) - told[o]
        OBVIOUS
      <3>2. PICK f : AddUp(f, {}, total)
        BY <2>1, <2>2, <3>1 DEF Books, Balance
      <3>3. QED
        BY <3>1, <3>2, AddUpOfNone
    <2>4. told[o] \in Int /\ Effective(Known, o) \in Int
      BY <2>0, <2>1, KitchenAssumption DEF IInv, TypeOK, Quantities
    <2>5. QED
      BY <2>3, <2>4
  <1>2. QED
    BY <1>1, Invariant, BooksKept, PTL

-----------------------------------------------------------------------------
(* The event stream.                                                        *)

\* The emitter of a connection is there, and will not be deleted by the
\* completion of another.
Registered(c, cn, ems, broken, shared) ==
    cn.step # "off" =>
       /\ cn.key \in Times
       /\ cn.key \notin shared => ems[cn.key] = c /\ cn.key \notin broken

\* What the connection owes from before it was registered it will find in
\* Redis, or has found.
WillReplay(cn, due, rows) ==
    /\ cn.step \in {"off", "open"} => due.replayed = {}
    /\ cn.step = "greet" /\ cn.since = 0 => due.replayed = {}
    /\ cn.step \in {"greet", "scan"} =>
         \A e \in due.replayed : \E k \in Times : rows[k] = e /\ cn.since < k
    /\ cn.step = "replay" => \A e \in due.replayed : \E x \in cn.todo : x[1] = e

\* The handler of e will send it to the emitter x.
WillSend(tasks, e, x) ==
    /\ e \in DOMAIN tasks
    /\ tasks[e].step = "find" \/ (tasks[e].step = "send" /\ x \in tasks[e].to)

\* What it owes since then is being sent to it.
WillBring(c, cn, due, shared, tasks) ==
    cn.step # "off" /\ cn.key \notin shared =>
       \A e \in due.live : WillSend(tasks, e, <<c, cn.key>>)

\* The inductive invariant.
StreamInv ==
    /\ StreamTypeOK
    /\ \A k \in ending : k < now
    /\ \A c \in Clients :
         /\ Registered(c, conn[c], emitters, ending, crowded)
         /\ WillReplay(conn[c], owed[c], saved)
         /\ WillBring(c, conn[c], owed[c], crowded, sending)

\* What the invariant says of a client.
ClientOK(c) ==
    /\ Registered(c, conn[c], emitters, ending, crowded)
    /\ WillReplay(conn[c], owed[c], saved)
    /\ WillBring(c, conn[c], owed[c], crowded, sending)

-----------------------------------------------------------------------------
(* Events are handled.                                                      *)

\* The handler of e goes on to send it to the emitters in to, or is done.
LEMMA GoesOn ==
  ASSUME StreamTypeOK, NEW e \in DOMAIN sending, NEW to \in SUBSET (Clients \X Times), GoOn(e, to)
  PROVE  /\ DOMAIN sending' \subseteq Events \ handled' /\ handled' \subseteq Events
         /\ \A d \in DOMAIN sending' : sending'[d] \in Sending
         /\ \A d, x : d # e /\ WillSend(sending, d, x) => WillSend(sending', d, x)
         /\ \A x \in to : WillSend(sending', e, x)
  <1>1. /\ DOMAIN sending \subseteq Events \ handled /\ handled \subseteq Events
        /\ \A d \in DOMAIN sending : sending[d] \in Sending
    BY DEF StreamTypeOK
  <1>2. CASE to = {}
    <2>1. /\ sending' = [d \in DOMAIN sending \ {e} |-> sending[d]]
          /\ handled' = handled \cup {e}
      BY <1>2 DEF GoOn, Without
    <2>2. QED
      BY <1>1, <1>2, <2>1 DEF WillSend
  <1>3. CASE to # {}
    <2>1. /\ sending' = [sending EXCEPT ![e].step = "send", ![e].to = to]
          /\ handled' = handled
      BY <1>3 DEF GoOn
    <2>2. /\ DOMAIN sending' = DOMAIN sending
          /\ \A d \in DOMAIN sending : d # e => sending'[d] = sending[d]
          /\ sending'[e] = [sending[e] EXCEPT !.step = "send", !.to = to]
      BY <2>1
    <2>3. sending'[e] \in Sending /\ sending'[e].step = "send" /\ sending'[e].to = to
      BY <1>1, <2>2 DEF Sending
    <2>4. QED
      BY <1>1, <2>1, <2>2, <2>3 DEF WillSend
  <1>4. QED
    BY <1>2, <1>3

LEMMA SendKeeps ==
  ASSUME StreamInv, NEW e \in Events, Send(e)
  PROVE  StreamInv'
  <1>1. /\ sending' = [x \in DOMAIN sending \cup {e} |->
             IF x = e THEN [step |-> "save", key |-> now, to |-> {}] ELSE sending[x]]
        /\ e \notin DOMAIN sending /\ e \notin handled
        /\ now' = now /\ saved' = saved /\ emitters' = emitters /\ ending' = ending
        /\ handled' = handled /\ conn' = conn /\ opened' = opened /\ owed' = owed
        /\ crowded' = crowded
    BY DEF Send
  <1>2. StreamTypeOK'
    BY <1>1 DEF StreamInv, StreamTypeOK, Sending
  <1>3. \A d, x : WillSend(sending, d, x) => WillSend(sending', d, x)
    BY <1>1 DEF WillSend
  <1>4. QED
    BY <1>1, <1>2, <1>3 DEF StreamInv, WillBring

\* Replacing the event at k takes it from what is to be replayed.
LEMMA SavedLater ==
  ASSUME StreamInv, NEW k \in Times, NEW e, NEW rows, rows = [saved EXCEPT ![k] = e],
         NEW c \in Clients
  PROVE  WillReplay(conn[c], OwedAfter(c, k, e), rows)
  <1>1. WillReplay(conn[c], owed[c], saved) /\ saved \in [Times -> Events \cup {None}]
    BY DEF StreamInv, StreamTypeOK
  <1>2. \A i \in Times : i # k => rows[i] = saved[i]
    BY <1>1
  <1>3. CASE c \in Unscanned
    <2>1. OwedAfter(c, k, e).replayed = owed[c].replayed \ {saved[k]}
      BY <1>3 DEF OwedAfter
    <2>2. QED
      BY <1>1, <1>2, <2>1 DEF WillReplay
  <1>4. CASE c \notin Unscanned
    <2>1. OwedAfter(c, k, e).replayed = owed[c].replayed
      BY <1>4 DEF OwedAfter
    <2>2. QED
      BY <1>1, <1>4, <2>1 DEF WillReplay, Unscanned
  <1>5. QED
    BY <1>3, <1>4

LEMMA SaveKeeps ==
  ASSUME StreamInv, NEW e \in Events, Save(e)
  PROVE  StreamInv'
  <1>1. PICK k : k = sending[e].key
    OBVIOUS
  <1>2. /\ e \in DOMAIN sending /\ sending[e].step = "save"
        /\ saved' = [saved EXCEPT ![k] = e]
        /\ owed' = [c \in Clients |-> OwedAfter(c, k, e)]
        /\ sending' = [sending EXCEPT ![e].step = "find"]
        /\ now' = now /\ emitters' = emitters /\ ending' = ending
        /\ handled' = handled /\ conn' = conn /\ opened' = opened /\ crowded' = crowded
    BY <1>1 DEF Save, Doing
  <1>3. StreamTypeOK /\ sending[e] \in Sending /\ k \in Times
    BY <1>1, <1>2 DEF StreamInv, StreamTypeOK, Sending
  <1>4. sending'[e] \in Sending /\ sending'[e].step = "find"
    BY <1>2, <1>3 DEF Sending
  <1>5. StreamTypeOK'
    <2>1. owed' \in [Clients -> [replayed : SUBSET Events, live : SUBSET Events]]
      BY <1>2, <1>3 DEF StreamTypeOK, OwedAfter
    <2>2. saved' \in [Times -> Events \cup {None}]
      BY <1>2, <1>3 DEF StreamTypeOK
    <2>3. DOMAIN sending' = DOMAIN sending /\ \A d \in DOMAIN sending' : sending'[d] \in Sending
      BY <1>2, <1>3, <1>4 DEF StreamTypeOK
    <2>4. QED
      BY <1>2, <1>3, <2>1, <2>2, <2>3 DEF StreamTypeOK
  <1>6. \A d, x : WillSend(sending, d, x) => WillSend(sending', d, x)
    BY <1>2 DEF WillSend
  <1>7. \A x : WillSend(sending', e, x)
    BY <1>2, <1>4 DEF WillSend
  <1>8. ASSUME NEW c \in Clients
        PROVE  ClientOK(c)'
    <2>1. owed'[c] = OwedAfter(c, k, e)
      BY <1>2
    <2>2. WillReplay(conn'[c], owed'[c], saved')
      BY <1>2, <1>3, <2>1, SavedLater
    <2>3. Connected(c) => owed'[c].live = owed[c].live \cup ({e} \ {None})
      BY <2>1 DEF OwedAfter
    <2>4. WillBring(c, conn'[c], owed'[c], crowded', sending')
      BY <1>2, <1>6, <1>7, <2>3 DEF StreamInv, WillBring, Connected
    <2>5. QED
      BY <1>2, <2>2, <2>4 DEF StreamInv, ClientOK
  <1>9. QED
    BY <1>2, <1>5, <1>8 DEF StreamInv, ClientOK

LEMMA FindKeeps ==
  ASSUME StreamInv, NEW e \in Events, Find(e)
  PROVE  StreamInv'
  <1>1. /\ e \in DOMAIN sending /\ GoOn(e, Found)
        /\ now' = now /\ saved' = saved /\ emitters' = emitters /\ ending' = ending
        /\ conn' = conn /\ opened' = opened /\ owed' = owed /\ crowded' = crowded
    BY DEF Find, Doing
  <1>2. StreamTypeOK
    BY DEF StreamInv
  <1>3. Found \in SUBSET (Clients \X Times)
    BY <1>2 DEF Found, StreamTypeOK
  <1>4. /\ DOMAIN sending' \subseteq Events \ handled' /\ handled' \subseteq Events
        /\ \A d \in DOMAIN sending' : sending'[d] \in Sending
        /\ \A d, x : d # e /\ WillSend(sending, d, x) => WillSend(sending', d, x)
        /\ \A x \in Found : WillSend(sending', e, x)
    BY <1>1, <1>2, <1>3, GoesOn
  <1>5. StreamTypeOK'
    BY <1>1, <1>2, <1>4 DEF StreamTypeOK
  <1>6. ASSUME NEW c \in Clients
        PROVE  WillBring(c, conn[c], owed[c], crowded, sending')
    <2> SUFFICES ASSUME conn[c].step # "off", conn[c].key \notin crowded, NEW d \in owed[c].live
                 PROVE  WillSend(sending', d, <<c, conn[c].key>>)
      BY DEF WillBring
    <2>1. CASE d = e
      <3>1. conn[c].key \in Times /\ emitters[conn[c].key] = c /\ c # None
        BY EventStreamAssumption DEF StreamInv, Registered
      <3>2. <<c, conn[c].key>> \in Found
        BY <3>1 DEF Found
      <3>3. QED
        BY <1>4, <2>1, <3>2
    <2>2. CASE d # e
      BY <1>4, <2>2 DEF StreamInv, WillBring
    <2>3. QED
      BY <2>1, <2>2
  <1>7. QED
    BY <1>1, <1>5, <1>6 DEF StreamInv

LEMMA SendToKeeps ==
  ASSUME StreamInv, NEW e \in Events, NEW x \in Clients \X Times, SendTo(e, x)
  PROVE  StreamInv'
  <1>1. PICK a, n : x = <<a, n>> /\ a \in Clients /\ n \in Times
    OBVIOUS
  <1>2. PICK alive \in BOOLEAN : alive <=> Connected(a) /\ conn[a].key = n
    OBVIOUS
  <1>3. /\ e \in DOMAIN sending /\ sending[e].step = "send" /\ x \in sending[e].to
        /\ GoOn(e, sending[e].to \ {x})
        /\ alive => /\ owed' = [owed EXCEPT ![a] = [replayed |-> @.replayed \ {e},
                                                    live |-> @.live \ {e}]]
                    /\ conn' = [conn EXCEPT ![a].last = sending[e].key]
        /\ ~alive => owed' = owed /\ conn' = conn
        /\ now' = now /\ saved' = saved /\ emitters' = emitters /\ ending' = ending
        /\ opened' = opened /\ crowded' = crowded
    BY <1>1, <1>2 DEF SendTo, Doing, Brought
  <1>4. StreamTypeOK /\ sending[e] \in Sending
    BY <1>3 DEF StreamInv, StreamTypeOK
  <1>5. sending[e].to \ {x} \in SUBSET (Clients \X Times) /\ sending[e].key \in Times
    BY <1>4 DEF Sending
  <1>6. /\ DOMAIN sending' \subseteq Events \ handled' /\ handled' \subseteq Events
        /\ \A d \in DOMAIN sending' : sending'[d] \in Sending
        /\ \A d, y : d # e /\ WillSend(sending, d, y) => WillSend(sending', d, y)
        /\ \A y \in sending[e].to \ {x} : WillSend(sending', e, y)
    BY <1>3, <1>4, <1>5, GoesOn
  <1>7. ASSUME NEW c \in Clients
        PROVE  /\ conn'[c] \in Connection /\ conn'[c].step = conn[c].step
               /\ conn'[c].key = conn[c].key /\ conn'[c].since = conn[c].since
               /\ conn'[c].todo = conn[c].todo
               /\ owed'[c] \in [replayed : SUBSET Events, live : SUBSET Events]
               /\ owed'[c].replayed \subseteq owed[c].replayed
               /\ owed'[c].live \subseteq owed[c].live
               /\ alive /\ c = a => e \notin owed'[c].live
    <2>1. /\ conn[c] \in Connection /\ conn \in [Clients -> Connection]
          /\ owed \in [Clients -> [replayed : SUBSET Events, live : SUBSET Events]]
      BY <1>4 DEF StreamTypeOK
    <2>2. sending[e].key \in 0 .. MaxTime
      BY <1>5, EventStreamAssumption DEF Times
    <2>3. CASE alive /\ c = a
      BY <1>3, <2>1, <2>2, <2>3 DEF Connection
    <2>4. CASE ~(alive /\ c = a)
      BY <1>3, <2>1, <2>4
    <2>5. QED
      BY <2>3, <2>4
  <1>8. StreamTypeOK'
    <2>1. DOMAIN conn' = Clients /\ DOMAIN owed' = Clients
      BY <1>3, <1>4 DEF StreamTypeOK
    <2>2. /\ conn' \in [Clients -> Connection]
          /\ owed' \in [Clients -> [replayed : SUBSET Events, live : SUBSET Events]]
      BY <1>3, <1>4, <1>7, <2>1 DEF StreamTypeOK
    <2>3. QED
      BY <1>3, <1>4, <1>6, <1>7, <2>2 DEF StreamTypeOK
  <1>9. ASSUME NEW c \in Clients
        PROVE  ClientOK(c)'
    <2>1. ClientOK(c)
      BY DEF StreamInv, ClientOK
    <2>2. Registered(c, conn'[c], emitters', ending', crowded')
      BY <1>3, <1>7, <2>1 DEF ClientOK, Registered
    <2>3. WillReplay(conn'[c], owed'[c], saved')
      BY <1>3, <1>7, <2>1 DEF ClientOK, WillReplay
    <2>4. ASSUME conn[c].step # "off", conn[c].key \notin crowded, NEW d \in owed'[c].live
          PROVE  WillSend(sending', d, <<c, conn[c].key>>)
      <3>1. WillSend(sending, d, <<c, conn[c].key>>)
        BY <1>7, <2>1, <2>4 DEF ClientOK, WillBring
      <3>2. CASE d = e
        <4>1. <<c, conn[c].key>> \in sending[e].to
          BY <1>3, <3>1, <3>2 DEF WillSend
        <4>2. <<c, conn[c].key>> # x
          BY <1>1, <1>2, <1>7, <2>4, <3>2 DEF Connected
        <4>3. QED
          BY <1>6, <3>2, <4>1, <4>2
      <3>3. CASE d # e
        BY <1>6, <3>1, <3>3
      <3>4. QED
        BY <3>2, <3>3
    <2>5. WillBring(c, conn'[c], owed'[c], crowded', sending')
      BY <1>3, <1>7, <2>4 DEF WillBring
    <2>6. QED
      BY <2>2, <2>3, <2>5 DEF ClientOK
  <1>10. QED
    BY <1>3, <1>8, <1>9 DEF StreamInv, ClientOK

-----------------------------------------------------------------------------
(* Clients connect.                                                         *)

LEMMA ConnectKeeps ==
  ASSUME StreamInv, NEW a \in Clients, Connect(a)
  PROVE  StreamInv'
  <1>1. /\ conn[a].step = "off" /\ opened < MaxConnections /\ opened' = opened + 1
        /\ conn' = [conn EXCEPT ![a].step = "greet", ![a].key = now, ![a].since = conn[a].last]
        /\ crowded' = IF emitters[now] = None THEN crowded ELSE crowded \cup {now}
        /\ emitters' = [emitters EXCEPT ![now] = a]
        /\ now' = now /\ saved' = saved /\ ending' = ending /\ sending' = sending
        /\ handled' = handled
    BY DEF Connect, Connected
  <1>2. PICK due : due = IF conn[a].last = 0 THEN {}
                                 ELSE {saved[k] : k \in LaterSaved(conn[a].last)}
    OBVIOUS
  <1>3. owed' = [owed EXCEPT ![a] = [replayed |-> due, live |-> {}]]
    BY <1>2 DEF Connect
  <1>4. StreamTypeOK /\ conn[a] \in Connection /\ now \in Times
    BY DEF StreamInv, StreamTypeOK
  <1>5. now \in 0 .. MaxTime /\ now \notin ending
    BY <1>4, EventStreamAssumption DEF StreamInv, Times
  <1>6. /\ conn'[a] \in Connection /\ conn'[a].step = "greet" /\ conn'[a].key = now
        /\ conn'[a].since = conn[a].last /\ conn'[a].todo = conn[a].todo
    <2>1. conn'[a] = [conn[a] EXCEPT !.step = "greet", !.key = now, !.since = conn[a].last]
      BY <1>1, <1>4 DEF StreamTypeOK
    <2>2. QED
      BY <1>4, <1>5, <2>1 DEF Connection
  <1>7. /\ DOMAIN conn' = Clients
        /\ \A c \in Clients : c # a => conn'[c] = conn[c] /\ owed'[c] = owed[c]
        /\ owed'[a] = [replayed |-> due, live |-> {}]
    BY <1>1, <1>3, <1>4 DEF StreamTypeOK
  <1>8. due \subseteq Events
    BY <1>2, <1>4 DEF LaterSaved, StreamTypeOK
  <1>9. StreamTypeOK'
    <2>1. conn' \in [Clients -> Connection]
      BY <1>1, <1>4, <1>6, <1>7 DEF StreamTypeOK
    <2>2. \A c \in Clients : conn'[c].step = "replay" <=> conn'[c].todo # {}
      BY <1>1, <1>4, <1>6, <1>7 DEF StreamTypeOK
    <2>3. owed' \in [Clients -> [replayed : SUBSET Events, live : SUBSET Events]]
      BY <1>3, <1>4, <1>8 DEF StreamTypeOK
    <2>4. emitters' \in [Times -> Clients \cup {None}] /\ crowded' \subseteq Times
      BY <1>1, <1>4 DEF StreamTypeOK
    <2>5. opened' \in 0 .. MaxConnections
      BY <1>1, <1>4, EventStreamAssumption DEF StreamTypeOK
    <2>6. QED
      BY <1>1, <1>4, <2>1, <2>2, <2>3, <2>4, <2>5 DEF StreamTypeOK
  <1>10. ClientOK(a)'
    <2>1. Registered(a, conn'[a], emitters', ending', crowded')
      BY <1>1, <1>4, <1>5, <1>6 DEF Registered, StreamTypeOK
    <2>2. WillReplay(conn'[a], owed'[a], saved')
      BY <1>1, <1>2, <1>6, <1>7 DEF WillReplay, LaterSaved
    <2>3. WillBring(a, conn'[a], owed'[a], crowded', sending')
      BY <1>7 DEF WillBring
    <2>4. QED
      BY <2>1, <2>2, <2>3 DEF ClientOK
  <1>11. ASSUME NEW c \in Clients, c # a
         PROVE  ClientOK(c)'
    <2>1. ClientOK(c) /\ conn'[c] = conn[c] /\ owed'[c] = owed[c]
      BY <1>7, <1>11 DEF StreamInv, ClientOK
    <2>2. crowded \subseteq crowded'
      BY <1>1
    <2>3. ASSUME conn[c].step # "off", conn[c].key \notin crowded'
          PROVE  conn[c].key # now
      <3>1. conn[c].key \notin crowded
        BY <2>2, <2>3
      <3>2. emitters[conn[c].key] = c /\ c # None
        BY <2>1, <2>3, <3>1, EventStreamAssumption DEF ClientOK, Registered
      <3>3. QED
        BY <1>1, <2>3, <3>2
    <2>4. Registered(c, conn'[c], emitters', ending', crowded')
      BY <1>1, <1>4, <2>1, <2>2, <2>3 DEF ClientOK, Registered, StreamTypeOK
    <2>5. WillReplay(conn'[c], owed'[c], saved')
      BY <1>1, <2>1 DEF ClientOK
    <2>6. WillBring(c, conn'[c], owed'[c], crowded', sending')
      BY <1>1, <2>1, <2>2 DEF ClientOK, WillBring
    <2>7. QED
      BY <2>4, <2>5, <2>6 DEF ClientOK
  <1>12. QED
    BY <1>1, <1>9, <1>10, <1>11 DEF StreamInv, ClientOK

\* A step that changes what one client, connected as before, has seen and waits
\* for.
OnlyConn(a) ==
    /\ now' = now /\ saved' = saved /\ emitters' = emitters /\ ending' = ending
    /\ sending' = sending /\ handled' = handled /\ opened' = opened /\ crowded' = crowded
    /\ conn[a].step # "off" /\ conn'[a] \in Connection /\ conn'[a].key = conn[a].key
    /\ conn'[a].step # "off"
    /\ conn'[a].step = "replay" <=> conn'[a].todo # {}
    /\ conn' = [conn EXCEPT ![a] = conn'[a]]
    /\ owed'[a] \in [replayed : SUBSET Events, live : SUBSET Events]
    /\ owed'[a].live \subseteq owed[a].live
    /\ owed' = [owed EXCEPT ![a] = owed'[a]]
    /\ WillReplay(conn'[a], owed'[a], saved)

LEMMA OnlyConnKeeps ==
  ASSUME StreamInv, NEW a \in Clients, OnlyConn(a)
  PROVE  StreamInv'
  <1>1. StreamTypeOK
    BY DEF StreamInv
  <1>2. PICK cn, due : cn = conn'[a] /\ due = owed'[a]
    OBVIOUS
  <1>3. /\ conn' = [conn EXCEPT ![a] = cn] /\ owed' = [owed EXCEPT ![a] = due]
        /\ cn \in Connection /\ due \in [replayed : SUBSET Events, live : SUBSET Events]
    BY <1>2 DEF OnlyConn
  <1>4. StreamTypeOK'
    <2>1. /\ conn' \in [Clients -> Connection]
          /\ owed' \in [Clients -> [replayed : SUBSET Events, live : SUBSET Events]]
      BY <1>1, <1>3 DEF StreamTypeOK
    <2>2. \A c \in Clients : conn'[c].step = "replay" <=> conn'[c].todo # {}
      BY <1>1, <1>2, <1>3 DEF StreamTypeOK, OnlyConn
    <2>3. QED
      BY <1>1, <2>1, <2>2 DEF StreamTypeOK, OnlyConn
  <1>5. ASSUME NEW c \in Clients
        PROVE  ClientOK(c)'
    <2>1. ClientOK(c)
      BY DEF StreamInv, ClientOK
    <2>2. CASE c = a
      BY <2>1, <2>2 DEF ClientOK, OnlyConn, Registered, WillBring
    <2>3. CASE c # a
      <3>1. conn'[c] = conn[c] /\ owed'[c] = owed[c]
        BY <1>1, <1>3, <2>3 DEF StreamTypeOK
      <3>2. QED
        BY <2>1, <3>1 DEF ClientOK, OnlyConn
    <2>4. QED
      BY <2>2, <2>3
  <1>6. QED
    BY <1>4, <1>5 DEF StreamInv, ClientOK, OnlyConn

LEMMA GreetKeeps ==
  ASSUME StreamInv, NEW a \in Clients, Greet(a)
  PROVE  StreamInv'
  <1>1. PICK step : step = IF conn[a].since = 0 THEN "open" ELSE "scan"
    OBVIOUS
  <1>2. /\ conn[a].step = "greet"
        /\ conn' = [conn EXCEPT ![a].step = step, ![a].last = now]
        /\ now' = now /\ saved' = saved /\ emitters' = emitters /\ ending' = ending
        /\ sending' = sending /\ handled' = handled /\ opened' = opened /\ owed' = owed
        /\ crowded' = crowded
    BY <1>1 DEF Greet
  <1>3. /\ StreamTypeOK /\ conn[a] \in Connection /\ now \in 0 .. MaxTime
        /\ owed[a] \in [replayed : SUBSET Events, live : SUBSET Events]
        /\ conn[a].todo = {}
    BY <1>2, EventStreamAssumption DEF StreamInv, StreamTypeOK, Times
  <1>4. conn'[a] = [conn[a] EXCEPT !.step = step, !.last = now]
    BY <1>2, <1>3 DEF StreamTypeOK
  <1>5. /\ conn'[a] \in Connection /\ conn'[a].key = conn[a].key /\ conn'[a].step = step
        /\ conn'[a].todo = {} /\ conn'[a].since = conn[a].since
    BY <1>1, <1>3, <1>4 DEF Connection
  <1>6. conn' = [conn EXCEPT ![a] = conn'[a]] /\ owed' = [owed EXCEPT ![a] = owed'[a]]
    BY <1>2, <1>3, <1>4 DEF StreamTypeOK
  <1>7. WillReplay(conn'[a], owed'[a], saved)
    <2>1. WillReplay(conn[a], owed[a], saved)
      BY DEF StreamInv
    <2>2. owed'[a] = owed[a]
      BY <1>2
    <2>3. CASE conn[a].since = 0
      <3>1. conn'[a].step = "open" /\ owed[a].replayed = {}
        BY <1>1, <1>2, <1>5, <2>1, <2>3 DEF WillReplay
      <3>2. QED
        BY <2>2, <3>1 DEF WillReplay
    <2>4. CASE conn[a].since # 0
      <3>1. /\ conn'[a].step = "scan"
            /\ \A e \in owed[a].replayed : \E k \in Times : saved[k] = e /\ conn[a].since < k
        BY <1>1, <1>2, <1>5, <2>1, <2>4 DEF WillReplay
      <3>2. QED
        BY <1>5, <2>2, <3>1 DEF WillReplay
    <2>5. QED
      BY <2>3, <2>4
  <1>8. OnlyConn(a)
    <2>1. conn'[a].step # "off" /\ conn'[a].step # "replay"
      BY <1>1, <1>5
    <2>2. owed'[a] = owed[a]
      BY <1>2
    <2>3. QED
      BY <1>2, <1>3, <1>5, <1>6, <1>7, <2>1, <2>2 DEF OnlyConn
  <1>9. QED
    BY <1>8, OnlyConnKeeps

\* What a connection that waits for todo is like.
LEMMA ReplayingIs ==
  ASSUME NEW a \in Clients, conn[a] \in Connection, NEW todo \in SUBSET (Events \X Times)
  PROVE  /\ Replaying(a, todo) \in Connection
         /\ Replaying(a, todo).key = conn[a].key /\ Replaying(a, todo).todo = todo
         /\ Replaying(a, todo).step = IF todo = {} THEN "open" ELSE "replay"
  <1>1. 0 \in 0 .. MaxTime
    BY EventStreamAssumption
  <1>2. QED
    BY <1>1 DEF Replaying, Connection

LEMMA ScanKeeps ==
  ASSUME StreamInv, NEW a \in Clients, Scan(a)
  PROVE  StreamInv'
  <1>1. PICK todo : todo = {<<saved[k], k>> : k \in LaterSaved(conn[a].since)}
    OBVIOUS
  <1>2. /\ conn[a].step = "scan"
        /\ conn' = [conn EXCEPT ![a] = Replaying(a, todo)]
        /\ now' = now /\ saved' = saved /\ emitters' = emitters /\ ending' = ending
        /\ sending' = sending /\ handled' = handled /\ opened' = opened /\ owed' = owed
        /\ crowded' = crowded
    BY <1>1 DEF Scan
  <1>3. /\ StreamTypeOK /\ conn[a] \in Connection
        /\ owed[a] \in [replayed : SUBSET Events, live : SUBSET Events]
    BY DEF StreamInv, StreamTypeOK
  <1>4. todo \in SUBSET (Events \X Times)
    BY <1>1, <1>3 DEF LaterSaved, StreamTypeOK
  <1>5. conn'[a] = Replaying(a, todo)
    BY <1>2, <1>3 DEF StreamTypeOK
  <1>6. /\ conn'[a] \in Connection /\ conn'[a].key = conn[a].key /\ conn'[a].todo = todo
        /\ conn'[a].step = IF todo = {} THEN "open" ELSE "replay"
    BY <1>3, <1>4, <1>5, ReplayingIs
  <1>7. conn' = [conn EXCEPT ![a] = conn'[a]] /\ owed' = [owed EXCEPT ![a] = owed'[a]]
    BY <1>2, <1>3, <1>5 DEF StreamTypeOK
  <1>8. \A e \in owed[a].replayed : \E x \in todo : x[1] = e
    <2> SUFFICES ASSUME NEW e \in owed[a].replayed
                 PROVE  \E x \in todo : x[1] = e
      OBVIOUS
    <2>1. PICK k \in Times : saved[k] = e /\ conn[a].since < k
      BY <1>2 DEF StreamInv, WillReplay
    <2>2. e \in Events /\ e # None
      BY <1>3, EventStreamAssumption
    <2>3. k \in LaterSaved(conn[a].since)
      BY <2>1, <2>2 DEF LaterSaved
    <2>4. <<e, k>> \in todo
      BY <1>1, <2>1, <2>3
    <2>5. QED
      BY <2>4
  <1>9. WillReplay(conn'[a], owed'[a], saved)
    BY <1>2, <1>6, <1>8 DEF WillReplay
  <1>10. OnlyConn(a)
    BY <1>2, <1>3, <1>6, <1>7, <1>9 DEF OnlyConn
  <1>11. QED
    BY <1>10, OnlyConnKeeps

LEMMA ReplayKeeps ==
  ASSUME StreamInv, NEW a \in Clients, NEW x \in Events \X Times, Replay(a, x)
  PROVE  StreamInv'
  <1>0. PICK todo : todo = conn[a].todo \ {x}
    OBVIOUS
  <1>1. PICK e \in Events, k \in Times : x = <<e, k>>
    OBVIOUS
  <1>2. /\ conn[a].step = "replay" /\ x \in conn[a].todo
        /\ owed' = [owed EXCEPT ![a] = [replayed |-> @.replayed \ {e}, live |-> @.live \ {e}]]
        /\ conn' = [conn EXCEPT ![a] = [Replaying(a, todo) EXCEPT !.last = k]]
        /\ now' = now /\ saved' = saved /\ emitters' = emitters /\ ending' = ending
        /\ sending' = sending /\ handled' = handled /\ opened' = opened
        /\ crowded' = crowded
    BY <1>0, <1>1 DEF Replay, Brought
  <1>3. /\ StreamTypeOK /\ conn[a] \in Connection
        /\ owed[a] \in [replayed : SUBSET Events, live : SUBSET Events]
    BY DEF StreamInv, StreamTypeOK
  <1>4. todo \in SUBSET (Events \X Times) /\ k \in 0 .. MaxTime
    BY <1>0, <1>3, EventStreamAssumption DEF Connection, Times
  <1>5. conn'[a] = [Replaying(a, todo) EXCEPT !.last = k]
    BY <1>2, <1>3 DEF StreamTypeOK
  <1>6. /\ conn'[a] \in Connection /\ conn'[a].key = conn[a].key /\ conn'[a].todo = todo
        /\ conn'[a].step = IF todo = {} THEN "open" ELSE "replay"
    <2>1. /\ Replaying(a, todo) \in Connection
          /\ Replaying(a, todo).key = conn[a].key /\ Replaying(a, todo).todo = todo
          /\ Replaying(a, todo).step = IF todo = {} THEN "open" ELSE "replay"
      BY <1>3, <1>4, ReplayingIs
    <2>2. QED
      BY <1>4, <1>5, <2>1 DEF Connection
  <1>7. /\ owed'[a] = [replayed |-> owed[a].replayed \ {e}, live |-> owed[a].live \ {e}]
        /\ conn' = [conn EXCEPT ![a] = conn'[a]] /\ owed' = [owed EXCEPT ![a] = owed'[a]]
    BY <1>2, <1>3, <1>5 DEF StreamTypeOK
  <1>8. \A d \in owed'[a].replayed : \E y \in todo : y[1] = d
    BY <1>0, <1>1, <1>2, <1>7 DEF StreamInv, WillReplay
  <1>9. WillReplay(conn'[a], owed'[a], saved)
    BY <1>2, <1>6, <1>8 DEF WillReplay
  <1>10. OnlyConn(a)
    BY <1>2, <1>3, <1>6, <1>7, <1>9 DEF OnlyConn
  <1>11. QED
    BY <1>10, OnlyConnKeeps

-----------------------------------------------------------------------------
(* Connections end, and the rest.                                           *)

\* Closing connections keeps the types and what is said of each client whose
\* emitter stays registered.
LEMMA Disconnected ==
  ASSUME StreamTypeOK, NEW S \in SUBSET Clients, Disconnect(S)
  PROVE  /\ conn' \in [Clients -> Connection]
         /\ \A c \in Clients : conn'[c].step = "replay" <=> conn'[c].todo # {}
         /\ owed' \in [Clients -> [replayed : SUBSET Events, live : SUBSET Events]]
         /\ \A c \in S : conn'[c].step = "off" /\ owed'[c].replayed = {}
         /\ \A c \in Clients \ S : conn'[c] = conn[c] /\ owed'[c] = owed[c]
  <1>1. /\ conn' = [c \in Clients |-> IF c \in S THEN [Off EXCEPT !.last = conn[c].last]
                                                 ELSE conn[c]]
        /\ owed' = [c \in Clients |-> IF c \in S THEN OwedNothing ELSE owed[c]]
    BY DEF Disconnect
  <1>2. ASSUME NEW c \in Clients
        PROVE  /\ [Off EXCEPT !.last = conn[c].last] \in Connection
               /\ [Off EXCEPT !.last = conn[c].last].step = "off"
               /\ [Off EXCEPT !.last = conn[c].last].todo = {}
    <2>1. conn[c].last \in 0 .. MaxTime /\ 0 \in 0 .. MaxTime
      BY EventStreamAssumption DEF StreamTypeOK, Connection
    <2>2. QED
      BY <2>1 DEF Off, Connection
  <1>3. QED
    BY <1>1, <1>2 DEF StreamTypeOK, OwedNothing

\* What holds of a client whose connection is closed.
LEMMA OffIsOK ==
  ASSUME NEW c, NEW cn, NEW due, NEW ems, NEW broken, NEW shared, NEW rows, NEW tasks,
         cn.step = "off", due.replayed = {}
  PROVE  /\ Registered(c, cn, ems, broken, shared) /\ WillReplay(cn, due, rows)
         /\ WillBring(c, cn, due, shared, tasks)
  BY DEF Registered, WillReplay, WillBring

\* Two connections under one name share its millisecond.
LEMMA OneAtATime ==
  ASSUME StreamInv, NEW a \in Clients, NEW c \in Clients, a # c, Connected(a), Connected(c),
         conn[a].key = conn[c].key
  PROVE  conn[c].key \in crowded
  BY DEF StreamInv, Registered, Connected

LEMMA DropKeeps ==
  ASSUME StreamInv, NEW a \in Clients, Drop(a)
  PROVE  StreamInv'
  <1>1. /\ Connected(a) /\ conn[a].key < now /\ Disconnect({a})
        /\ ending' = ending \cup {conn[a].key}
        /\ now' = now /\ saved' = saved /\ emitters' = emitters /\ sending' = sending
        /\ handled' = handled /\ opened' = opened /\ crowded' = crowded
    BY DEF Drop
  <1>2. StreamTypeOK /\ conn[a].key \in Times
    BY <1>1 DEF StreamInv, Registered, Connected
  <1>3. /\ conn' \in [Clients -> Connection]
        /\ \A c \in Clients : conn'[c].step = "replay" <=> conn'[c].todo # {}
        /\ owed' \in [Clients -> [replayed : SUBSET Events, live : SUBSET Events]]
        /\ \A c \in {a} : conn'[c].step = "off" /\ owed'[c].replayed = {}
        /\ \A c \in Clients \ {a} : conn'[c] = conn[c] /\ owed'[c] = owed[c]
    BY <1>1, <1>2, Disconnected
  <1>4. StreamTypeOK'
    BY <1>1, <1>2, <1>3 DEF StreamTypeOK
  <1>5. ASSUME NEW c \in Clients
        PROVE  ClientOK(c)'
    <2>1. CASE c = a
      BY <1>3, <2>1, OffIsOK DEF ClientOK
    <2>2. CASE c # a
      <3>1. ClientOK(c) /\ conn'[c] = conn[c] /\ owed'[c] = owed[c]
        BY <1>3, <2>2 DEF StreamInv, ClientOK
      <3>2. Connected(c) /\ conn[c].key = conn[a].key => conn[c].key \in crowded
        BY <1>1, <2>2, OneAtATime
      <3>3. Registered(c, conn'[c], emitters', ending', crowded')
        BY <1>1, <3>1, <3>2 DEF ClientOK, Registered, Connected
      <3>4. QED
        BY <1>1, <3>1, <3>3 DEF ClientOK
    <2>3. QED
      BY <2>1, <2>2
  <1>6. QED
    BY <1>1, <1>4, <1>5 DEF StreamInv, ClientOK

LEMMA TimeOutKeeps ==
  ASSUME StreamInv, NEW a \in Clients, TimeOut(a)
  PROVE  StreamInv'
  <1>1. /\ conn[a].step = "open" /\ Disconnect({a})
        /\ emitters' = [emitters EXCEPT ![conn[a].key] = None]
        /\ now' = now /\ saved' = saved /\ ending' = ending /\ sending' = sending
        /\ handled' = handled /\ opened' = opened /\ crowded' = crowded
    BY DEF TimeOut
  <1>2. StreamTypeOK /\ conn[a].key \in Times /\ Connected(a)
    BY <1>1 DEF StreamInv, Registered, Connected
  <1>3. /\ conn' \in [Clients -> Connection]
        /\ \A c \in Clients : conn'[c].step = "replay" <=> conn'[c].todo # {}
        /\ owed' \in [Clients -> [replayed : SUBSET Events, live : SUBSET Events]]
        /\ \A c \in {a} : conn'[c].step = "off" /\ owed'[c].replayed = {}
        /\ \A c \in Clients \ {a} : conn'[c] = conn[c] /\ owed'[c] = owed[c]
    BY <1>1, <1>2, Disconnected
  <1>4. StreamTypeOK'
    BY <1>1, <1>2, <1>3 DEF StreamTypeOK
  <1>5. ASSUME NEW c \in Clients
        PROVE  ClientOK(c)'
    <2>1. CASE c = a
      BY <1>3, <2>1, OffIsOK DEF ClientOK
    <2>2. CASE c # a
      <3>1. ClientOK(c) /\ conn'[c] = conn[c] /\ owed'[c] = owed[c]
        BY <1>3, <2>2 DEF StreamInv, ClientOK
      <3>2. Connected(c) /\ conn[c].key = conn[a].key => conn[c].key \in crowded
        BY <1>2, <2>2, OneAtATime
      <3>3. Registered(c, conn'[c], emitters', ending', crowded')
        BY <1>1, <1>2, <3>1, <3>2 DEF ClientOK, Registered, Connected, StreamTypeOK
      <3>4. QED
        BY <1>1, <3>1, <3>3 DEF ClientOK
    <2>3. QED
      BY <2>1, <2>2
  <1>6. QED
    BY <1>1, <1>4, <1>5 DEF StreamInv, ClientOK

LEMMA CompleteKeeps ==
  ASSUME StreamInv, NEW k \in Times, Complete(k)
  PROVE  StreamInv'
  <1>1. /\ k \in ending /\ ending' = ending \ {k} /\ emitters' = [emitters EXCEPT ![k] = None]
        /\ now' = now /\ saved' = saved /\ sending' = sending /\ handled' = handled
        /\ conn' = conn /\ opened' = opened /\ owed' = owed /\ crowded' = crowded
    BY DEF Complete
  <1>2. StreamTypeOK
    BY DEF StreamInv
  <1>3. StreamTypeOK'
    BY <1>1, <1>2 DEF StreamTypeOK
  <1>4. ASSUME NEW c \in Clients
        PROVE  Registered(c, conn'[c], emitters', ending', crowded')
    <2>1. Registered(c, conn[c], emitters, ending, crowded)
      BY DEF StreamInv
    <2>2. QED
      BY <1>1, <1>2, <2>1 DEF Registered, StreamTypeOK
  <1>5. QED
    BY <1>1, <1>3, <1>4 DEF StreamInv

LEMMA TickKeeps ==
  ASSUME StreamInv, Tick
  PROVE  StreamInv'
  <1>1. /\ now < MaxTime /\ now' = now + 1
        /\ saved' = saved /\ emitters' = emitters /\ ending' = ending /\ sending' = sending
        /\ handled' = handled /\ conn' = conn /\ opened' = opened /\ owed' = owed
        /\ crowded' = crowded
    BY DEF Tick
  <1>2. StreamTypeOK'
    BY <1>1, EventStreamAssumption DEF StreamInv, StreamTypeOK, Times
  <1>3. \A k \in ending' : k < now'
    <2>1. ending \subseteq Nat /\ now \in Nat
      BY EventStreamAssumption DEF StreamInv, StreamTypeOK, Times
    <2>2. QED
      BY <1>1, <2>1 DEF StreamInv
  <1>4. QED
    BY <1>1, <1>2, <1>3 DEF StreamInv

LEMMA ForgetKeeps ==
  ASSUME StreamInv, NEW k \in Times, Forget(k)
  PROVE  StreamInv'
  <1>1. /\ saved' = [saved EXCEPT ![k] = None]
        /\ owed' = [c \in Clients |-> OwedAfter(c, k, None)]
        /\ now' = now /\ emitters' = emitters /\ ending' = ending /\ sending' = sending
        /\ handled' = handled /\ conn' = conn /\ opened' = opened /\ crowded' = crowded
    BY DEF Forget
  <1>2. StreamTypeOK
    BY DEF StreamInv
  <1>3. StreamTypeOK'
    <2>1. owed' \in [Clients -> [replayed : SUBSET Events, live : SUBSET Events]]
      BY <1>1, <1>2 DEF StreamTypeOK, OwedAfter
    <2>2. saved' \in [Times -> Events \cup {None}]
      BY <1>1, <1>2 DEF StreamTypeOK
    <2>3. QED
      BY <1>1, <1>2, <2>1, <2>2 DEF StreamTypeOK
  <1>4. ASSUME NEW c \in Clients
        PROVE  ClientOK(c)'
    <2>1. owed'[c] = OwedAfter(c, k, None) /\ ClientOK(c)
      BY <1>1 DEF StreamInv, ClientOK
    <2>2. WillReplay(conn'[c], owed'[c], saved')
      BY <1>1, <2>1, SavedLater
    <2>3. owed'[c].live = owed[c].live
      BY <2>1 DEF OwedAfter
    <2>4. QED
      BY <1>1, <2>1, <2>2, <2>3 DEF ClientOK, WillBring
  <1>5. QED
    BY <1>1, <1>3, <1>4 DEF StreamInv, ClientOK

LEMMA RestartServerKeeps ==
  ASSUME StreamInv, RestartServer
  PROVE  StreamInv'
  <1>1. /\ emitters' = [k \in Times |-> None] /\ ending' = {}
        /\ Disconnect(Clients)
        /\ sending' = [e \in DOMAIN sending \ DOMAIN sending |-> sending[e]]
        /\ handled' = handled \cup DOMAIN sending
        /\ now' = now /\ saved' = saved /\ opened' = opened /\ crowded' = crowded
    BY DEF RestartServer, Without
  <1>2. StreamTypeOK
    BY DEF StreamInv
  <1>3. /\ conn' \in [Clients -> Connection]
        /\ \A c \in Clients : conn'[c].step = "replay" <=> conn'[c].todo # {}
        /\ owed' \in [Clients -> [replayed : SUBSET Events, live : SUBSET Events]]
        /\ \A c \in Clients : conn'[c].step = "off" /\ owed'[c].replayed = {}
    BY <1>1, <1>2, Disconnected
  <1>4. StreamTypeOK'
    BY <1>1, <1>2, <1>3 DEF StreamTypeOK
  <1>5. ASSUME NEW c \in Clients
        PROVE  ClientOK(c)'
    BY <1>3, OffIsOK DEF ClientOK
  <1>6. QED
    BY <1>1, <1>4, <1>5 DEF StreamInv, ClientOK

-----------------------------------------------------------------------------
(* Of the specification.                                                    *)

LEMMA StreamInvInit == StreamInit => StreamInv
  <1> SUFFICES ASSUME StreamInit
               PROVE  StreamInv
    OBVIOUS
  <1>1. Off \in Connection /\ Off.step = "off" /\ Off.todo = {} /\ 1 \in Times
    BY EventStreamAssumption DEF Off, Connection, Times
  <1>2. StreamTypeOK
    BY <1>1, EventStreamAssumption DEF StreamInit, StreamTypeOK, OwedNothing
  <1>3. ASSUME NEW c \in Clients
        PROVE  ClientOK(c)
    <2>1. conn[c].step = "off" /\ owed[c].replayed = {}
      BY <1>1 DEF StreamInit, OwedNothing
    <2>2. QED
      BY <2>1, OffIsOK DEF ClientOK
  <1>4. QED
    BY <1>2, <1>3 DEF StreamInit, StreamInv, ClientOK

LEMMA StreamInvNext == StreamInv /\ [StreamNext]_streamVars => StreamInv'
  <1> SUFFICES ASSUME StreamInv, [StreamNext]_streamVars
               PROVE  StreamInv'
    OBVIOUS
  <1>1. ASSUME NEW e \in Events, HandleEvent(e)
        PROVE  StreamInv'
    BY <1>1, SendKeeps, SaveKeeps, FindKeeps, SendToKeeps DEF HandleEvent
  <1>2. ASSUME NEW c \in Clients, Connect(c) \/ Connecting(c) \/ Drop(c) \/ TimeOut(c)
        PROVE  StreamInv'
    BY <1>2, ConnectKeeps, GreetKeeps, ScanKeeps, ReplayKeeps, DropKeeps, TimeOutKeeps
       DEF Connecting
  <1>3. ASSUME NEW k \in Times, Complete(k) \/ Forget(k)
        PROVE  StreamInv'
    BY <1>3, CompleteKeeps, ForgetKeeps
  <1>4. CASE Tick \/ RestartServer
    BY <1>4, TickKeeps, RestartServerKeeps
  <1>5. CASE UNCHANGED streamVars
    BY <1>5 DEF streamVars, StreamInv, StreamTypeOK
  <1>6. QED
    BY <1>1, <1>2, <1>3, <1>4, <1>5 DEF StreamNext

\* The inductive invariant holds in every state of the event stream.
LEMMA StreamInvariant == StreamSpec => []StreamInv
  BY StreamInvInit, StreamInvNext, PTL DEF StreamSpec

\* The state is well typed, and a connection is replaying as long as it has events
\* to replay and no longer (SseService.connect).
THEOREM StreamTypeCorrect == StreamSpec => []StreamTypeOK
  <1>1. StreamInv => StreamTypeOK
    BY DEF StreamInv
  <1>2. QED
    BY <1>1, StreamInvariant, PTL

\* Between the replay and the live events there is no gap, whenever the client
\* was registered and however the handlers of the events, their saves into Redis,
\* drops, timeouts and restarts interleave with it (SseService.connect,
\* SseSendEventHandler).
THEOREM NoGapLeft == StreamSpec => []NoGap
  <1>1. StreamInv => NoGap
    BY DEF StreamInv, NoGap, WillReplay, WillBring, WillSend
  <1>2. QED
    BY <1>1, StreamInvariant, PTL

\* The late completion of an old emitter never takes the emitter of an open
\* connection from the repository (SimpleSseEmitterRepository.delete).
THEOREM EmittersStay == StreamSpec => []StaysRegistered
  <1>1. StreamInv => StaysRegistered
    BY DEF StreamInv, StaysRegistered, Registered, Connected
  <1>2. QED
    BY <1>1, StreamInvariant, PTL

=============================================================================
