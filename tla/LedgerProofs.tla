---------------------------- MODULE LedgerProofs ----------------------------
(***************************************************************************)
(* Proofs about the ledger of the POS tables, for any tables, prices,        *)
(* amounts, width of long and bounds: with the services run one at a time    *)
(* (PosTables), and with those whose lock keys name their tables run by      *)
(* any number of threads (TableTransactions).                                *)
(*                                                                          *)
(* A service is followed from what it loads to what it saves.  Serial, the   *)
(* invariant of the rows, holds of what is loaded, is kept by every method   *)
(* of the entities, and comes back to the ledger because what is saved Fits  *)
(* it: a service saves the rows it loaded and new ones, never part of an     *)
(* activity, and seats nobody at a table where others sit.                   *)
(***************************************************************************)
EXTENDS TableTransactions, FiniteSetTheorems, TLAPS

(* Induction over finite data, by a minimal counterexample: the library's    *)
(* order of finite sets by inclusion is well founded.                       *)

\* A family of subsets of a finite set has a minimal member.
LEMMA MinimalSet ==
  ASSUME NEW D, NEW F \in SUBSET SUBSET D, IsFiniteSet(D), F # {}
  PROVE  \E A \in F : \A B \in F : B \subseteq A => B = A
  <1> DEFINE R == StrictSubsetOrdering(D)
  <1>1. F \subseteq FiniteSubsetsOf(D)
    BY FS_FiniteSubsetsOfFinite
  <1>2. \E u \in F : \A v \in F : ~ <<v, u>> \in R
    <2> HIDE DEF R
    <2> QED
      BY <1>1, FS_StrictSubsetOrderingWellFounded, WFMin DEF R
  <1>3. QED
    BY <1>2 DEF StrictSubsetOrdering

\* A set of naturals has a least element.
LEMMA LeastNumber ==
  ASSUME NEW S \in SUBSET Nat, S # {}
  PROVE  Min(S) \in S /\ \A x \in S : Min(S) <= x
  <1> DEFINE T == {0 .. x : x \in S}
             R == StrictSubsetOrdering(Nat)
  <1>1. T \subseteq FiniteSubsetsOf(Nat) /\ T # {}
    <2>1. \A x \in Nat : IsFiniteSet(0 .. x) /\ 0 .. x \subseteq Nat
      BY FS_Interval
    <2>2. QED
      BY <2>1 DEF FiniteSubsetsOf
  <1>2. \E u \in T : \A v \in T : ~ <<v, u>> \in R
    <2> HIDE DEF T, R
    <2> QED
      BY <1>1, FS_StrictSubsetOrderingWellFounded, WFMin DEF R
  <1>3. PICK x \in S : \A y \in S : ~ <<0 .. y, 0 .. x>> \in R
    BY <1>2
  <1>4. \A y \in S : x <= y
    <2> SUFFICES ASSUME NEW y \in S, y < x PROVE FALSE
      OBVIOUS
    <2>1. x \in Nat /\ y \in Nat
      OBVIOUS
    <2>2. 0 .. y \subseteq 0 .. x /\ 0 .. y # 0 .. x /\ 0 .. x \subseteq Nat
      <3>1. x \in 0 .. x /\ x \notin 0 .. y
         BY <2>1
      <3>2. QED
        BY <2>1, <3>1
    <2>3. <<0 .. y, 0 .. x>> \in R
      BY <2>2 DEF StrictSubsetOrdering
    <2> QED
      BY <1>3, <2>3
  <1>5. QED
    BY <1>4 DEF Min

\* s gives every subset of A its sum of f.
AdditiveOn(s, f, A) ==
  /\ s \in [SUBSET A -> Int]
  /\ s[{}] = 0
  /\ \A S \in SUBSET A : \A x \in A \ S : s[S \cup {x}] = f[x] + s[S]

\* Finitely many integers have a sum.
LEMMA AdditiveExists ==
  ASSUME NEW f, f \in [DOMAIN f -> Int], IsFiniteSet(DOMAIN f)
  PROVE  \E s : AdditiveOn(s, f, DOMAIN f)
  <1> DEFINE D == DOMAIN f
             F == {A \in SUBSET D : ~ \E s : AdditiveOn(s, f, A)}
  <1>1. SUFFICES ASSUME F # {} PROVE FALSE
    OBVIOUS
  <1>2. PICK A \in F : \A B \in F : B \subseteq A => B = A
    <2> HIDE DEF D
    <2>1. F \in SUBSET SUBSET D
      OBVIOUS
    <2> HIDE DEF F
    <2>2. IsFiniteSet(D)
      BY DEF D
    <2> QED
      BY <1>1, <2>1, <2>2, MinimalSet
  <1>3. A # {}
    <2> SUFFICES ASSUME A = {} PROVE FALSE
      OBVIOUS
    <2> DEFINE s == [S \in SUBSET {} |-> 0]
    <2>1. AdditiveOn(s, f, {})
      BY DEF AdditiveOn
    <2> QED
      BY <1>2, <2>1
  <1>4. PICK x \in A : TRUE
    BY <1>3
  <1>5. PICK s : AdditiveOn(s, f, A \ {x})
    BY <1>2, <1>4
  <1> DEFINE t == [S \in SUBSET A |-> IF x \in S THEN f[x] + s[S \ {x}] ELSE s[S]]
  <1>6. AdditiveOn(t, f, A)
    <2>1. /\ s \in [SUBSET (A \ {x}) -> Int] /\ s[{}] = 0
          /\ \A S \in SUBSET (A \ {x}) : \A y \in (A \ {x}) \ S : s[S \cup {y}] = f[y] + s[S]
      BY <1>5 DEF AdditiveOn
    <2>2. A \in SUBSET D /\ \A y \in A : f[y] \in Int
      BY <1>2
    <2>3. \A S \in SUBSET A : x \notin S => S \in SUBSET (A \ {x})
      OBVIOUS
    <2>4. \A S \in SUBSET A : S \ {x} \in SUBSET (A \ {x})
      OBVIOUS
    <2>5. t \in [SUBSET A -> Int]
      BY <1>4, <2>1, <2>2, <2>3, <2>4
    <2>6. t[{}] = 0
      BY <2>1
    <2>7. ASSUME NEW S \in SUBSET A, NEW y \in A \ S PROVE t[S \cup {y}] = f[y] + t[S]
      <3>0. S \cup {y} \in SUBSET A
        OBVIOUS
      <3>1. CASE y = x
        <4>1. (S \cup {y}) \ {x} = S /\ x \notin S
          BY <3>1
        <4>2. t[S] = s[S] /\ t[S \cup {y}] = f[x] + s[S]
          BY <3>0, <3>1, <4>1
        <4> QED
          BY <3>1, <4>2
      <3>2. CASE y # x /\ x \in S
        <4>1. (S \cup {y}) \ {x} = (S \ {x}) \cup {y} /\ x \in S \cup {y}
          BY <3>2
        <4>2. t[S] = f[x] + s[S \ {x}] /\ t[S \cup {y}] = f[x] + s[(S \ {x}) \cup {y}]
          BY <3>0, <3>2, <4>1
        <4>3. s[(S \ {x}) \cup {y}] = f[y] + s[S \ {x}]
          BY <2>1, <2>4, <3>2
        <4>4. s[S \ {x}] \in Int
          BY <2>1, <2>4
        <4> QED
          BY <1>4, <2>2, <4>2, <4>3, <4>4
      <3>3. CASE y # x /\ x \notin S
        <4>1. t[S] = s[S] /\ t[S \cup {y}] = s[S \cup {y}]
          BY <3>0, <3>3
        <4>2. s[S \cup {y}] = f[y] + s[S]
          BY <2>1, <2>3, <3>3
        <4> QED
          BY <4>1, <4>2
      <3> QED
        BY <3>1, <3>2, <3>3
    <2> HIDE DEF t
    <2> QED
      BY <2>5, <2>6, <2>7 DEF AdditiveOn
  <1>7. QED
    BY <1>2, <1>6

\* It is what SumOf computes, whatever order it takes them in.
LEMMA SumIsAdditive ==
  ASSUME NEW f, f \in [DOMAIN f -> Int], IsFiniteSet(DOMAIN f), NEW s, AdditiveOn(s, f, DOMAIN f)
  PROVE  SumOf(f) = s[DOMAIN f]
  <1> DEFINE D == DOMAIN f
             Body(g) == [S \in SUBSET D |-> IF S = {} THEN 0
                           ELSE f[OneOf(S)] + g[S \ {OneOf(S)}]]
             sum == CHOOSE g : g = Body(g)
  <1>1. SumOf(f) = sum[D]
    BY DEF SumOf
  <1>2. s = Body(s)
    <2>1. ASSUME NEW S \in SUBSET D, S # {}
          PROVE  s[S] = f[OneOf(S)] + s[S \ {OneOf(S)}]
      <3>1. PICK x \in S : x = OneOf(S)
        BY <2>1 DEF OneOf
      <3>2. s[(S \ {x}) \cup {x}] = f[x] + s[S \ {x}] /\ (S \ {x}) \cup {x} = S
        BY DEF AdditiveOn
      <3>3. s[S \ {x}] \in Int /\ f[x] \in Int
        BY DEF AdditiveOn
      <3> QED
        BY <3>1, <3>2, <3>3
    <2> QED
      BY <2>1 DEF AdditiveOn
  <1>3. sum = Body(sum)
    <2> HIDE DEF Body
    <2> QED
      BY <1>2
  <1> HIDE DEF sum
  <1>4. \A S \in SUBSET D : S # {} => \E x \in S : sum[S] = f[x] + sum[S \ {x}]
    BY <1>3 DEF OneOf
  <1>5. sum[{}] = 0
    BY <1>3
  <1> DEFINE F == {S \in SUBSET D : sum[S] # s[S]}
  <1>6. SUFFICES ASSUME F # {} PROVE FALSE
    BY <1>1
  <1>7. PICK A \in F : \A B \in F : B \subseteq A => B = A
    <2>1. F \in SUBSET SUBSET D /\ IsFiniteSet(D)
      OBVIOUS
    <2> HIDE DEF F, D
    <2> QED
      BY <1>6, <2>1, MinimalSet
  <1>8. A # {} /\ A \in SUBSET D
    BY <1>5, <1>7 DEF AdditiveOn
  <1>9. PICK x \in A : sum[A] = f[x] + sum[A \ {x}]
    BY <1>4, <1>8
  <1>10. sum[A \ {x}] = s[A \ {x}]
    BY <1>7, <1>8
  <1>11. s[(A \ {x}) \cup {x}] = f[x] + s[A \ {x}] /\ (A \ {x}) \cup {x} = A
    BY <1>8 DEF AdditiveOn
  <1>12. s[A \ {x}] \in Int /\ f[x] \in Int
    BY <1>8 DEF AdditiveOn
  <1>13. sum[A] = s[A]
    BY <1>9, <1>10, <1>11, <1>12
  <1>14. QED
    BY <1>7, <1>13

\* A sum is an integer, and takes in every element once.
LEMMA SumInsert ==
  ASSUME NEW f, f \in [DOMAIN f -> Int], IsFiniteSet(DOMAIN f)
  PROVE  /\ SumOf(f) \in Int
         /\ \A x \in DOMAIN f :
              SumOf(f) = f[x] + SumOf([y \in DOMAIN f \ {x} |-> f[y]])
  <1>1. PICK s : AdditiveOn(s, f, DOMAIN f)
    BY AdditiveExists
  <1>2. SumOf(f) = s[DOMAIN f]
    BY <1>1, SumIsAdditive
  <1>3. s[DOMAIN f] \in Int
    BY <1>1 DEF AdditiveOn
  <1>4. ASSUME NEW x \in DOMAIN f
        PROVE  SumOf(f) = f[x] + SumOf([y \in DOMAIN f \ {x} |-> f[y]])
    <2> DEFINE A == DOMAIN f \ {x}
               h == [y \in A |-> f[y]]
               t == [S \in SUBSET A |-> s[S]]
    <2>1. h \in [DOMAIN h -> Int] /\ DOMAIN h = A /\ IsFiniteSet(A)
      BY FS_Subset
    <2>2. AdditiveOn(t, h, A)
      BY <1>1 DEF AdditiveOn
    <2> HIDE DEF h, t
    <2>3. SumOf(h) = t[A]
      BY <2>1, <2>2, SumIsAdditive
    <2>4. t[A] = s[A] /\ A \cup {x} = DOMAIN f
      BY DEF t
    <2>5. s[A \cup {x}] = f[x] + s[A]
      BY <1>1 DEF AdditiveOn
    <2>6. QED
      BY <1>2, <2>3, <2>4, <2>5 DEF h
  <1>5. QED
    BY <1>2, <1>3, <1>4

-----------------------------------------------------------------------------
(* The methods of the entities.                                             *)

\* What a column of type long is given is a long.
LEMMA AsLongType == \A x : AsLong(x) \in Long
  BY LedgerAssumption DEF AsLong

\* Canceling orders keeps their rows, and which activity each belongs to.
LEMMA CancelOrdersType ==
  ASSUME NEW f, f \in [DOMAIN f -> Order], NEW S
  PROVE  /\ CancelOrders(f, S) \in [DOMAIN f -> Order]
         /\ \A o \in DOMAIN f : CancelOrders(f, S)[o].activity = f[o].activity
  BY DEF CancelOrders, Order

\* Order.moveTable keeps every order and gives those of a to b.
LEMMA ReassignOrders ==
  ASSUME NEW f, f \in [DOMAIN f -> Order], NEW a, NEW b \in Nat
  PROVE  /\ Reassign(f, a, b) \in [DOMAIN f -> Order]
         /\ \A o \in DOMAIN f : Reassign(f, a, b)[o].activity =
              IF f[o].activity = a THEN b ELSE f[o].activity
  BY DEF Reassign, Order

\* OrderPayment.moveTable keeps every payment and gives those of a to b.
LEMMA ReassignPayments ==
  ASSUME NEW f, f \in [DOMAIN f -> Payment], NEW a, NEW b \in Nat
  PROVE  /\ Reassign(f, a, b) \in [DOMAIN f -> Payment]
         /\ \A p \in DOMAIN f :
              /\ Reassign(f, a, b)[p].state = f[p].state
              /\ Reassign(f, a, b)[p].amount = f[p].amount
              /\ Reassign(f, a, b)[p].cancellable <=> f[p].cancellable
              /\ Reassign(f, a, b)[p].refunds = f[p].refunds
              /\ Reassign(f, a, b)[p].activity =
                   IF f[p].activity = a THEN b ELSE f[p].activity
  <1> DEFINE g == Reassign(f, a, b)
  <1>1. DOMAIN g = DOMAIN f /\ \A p \in DOMAIN f :
          g[p] = IF f[p].activity = a THEN [f[p] EXCEPT !.activity = b] ELSE f[p]
    BY DEF Reassign
  <1>2. g = [p \in DOMAIN f |->
               IF f[p].activity = a THEN [f[p] EXCEPT !.activity = b] ELSE f[p]]
    BY DEF Reassign
  <1>3. \A p \in DOMAIN f : /\ f[p].activity = a => g[p] = [f[p] EXCEPT !.activity = b]
                            /\ f[p].activity # a => g[p] = f[p]
    BY <1>1
  <1>4. g \in [DOMAIN f -> Payment]
    BY <1>2 DEF Payment
  <1> HIDE DEF g
  <1>5. ASSUME NEW p \in DOMAIN f
        PROVE  /\ g[p].state = f[p].state
               /\ g[p].amount = f[p].amount
               /\ g[p].cancellable <=> f[p].cancellable
               /\ g[p].refunds = f[p].refunds
               /\ g[p].activity = IF f[p].activity = a THEN b ELSE f[p].activity
    <2>1. CASE f[p].activity = a
      <3>1. f[p] \in Payment /\ g[p] = [f[p] EXCEPT !.activity = b]
        BY <1>3, <2>1
      <3>2. QED
        BY <2>1, <3>1 DEF Payment
    <2>2. CASE f[p].activity # a
      BY <1>3, <2>2
    <2>3. QED
      BY <2>1, <2>2
  <1>6. QED
    BY <1>4, <1>5 DEF g

\* Opening or closing an activity keeps the type of its row.
LEMMA ActiveType ==
  ASSUME NEW f, f \in [DOMAIN f -> Activity], NEW a \in DOMAIN f, NEW x \in BOOLEAN
  PROVE  [f EXCEPT ![a].active = x] \in [DOMAIN f -> Activity]
  BY DEF Activity

\* All that PosTableActivity.addPayment can do to the rows: cancel orders, and
\* close the activity it is called on.
LEMMA AddPaymentEffect ==
  ASSUME NEW l, NEW n \in Nat, NEW a \in DOMAIN l.activities, NEW p, NEW own, IsLedger(l, n)
  PROVE  \E x \in BOOLEAN, S \in SUBSET DOMAIN l.orders :
           /\ x => l.activities[a].active
           /\ AddPayment(l, a, p, own) =
                [activities |-> [l.activities EXCEPT ![a].active = x],
                 orders |-> CancelOrders(l.orders, S), payments |-> l.payments]
  <1> DEFINE S == RevokedOrders(l, a, p, own)
             k == [l EXCEPT !.orders = CancelOrders(l.orders, S)]
             x == l.activities[a].active /\ ~IsSettled(k, a)
  <1>1. x \in BOOLEAN /\ (x => l.activities[a].active)
    OBVIOUS
  <1>2. AddPayment(l, a, p, own) = [k EXCEPT !.activities[a].active = x]
    BY DEF AddPayment
  <1>3. k = [activities |-> l.activities, orders |-> CancelOrders(l.orders, S),
             payments |-> l.payments]
    BY DEF IsLedger
  <1>4. [k EXCEPT !.activities[a].active = x] = 
             [activities |-> [l.activities EXCEPT ![a].active = x],
              orders |-> CancelOrders(l.orders, S), payments |-> l.payments]
    <2> HIDE DEF k, S, x
    <2> QED BY <1>3
  <1>5. CancelOrders(l.orders, S) = CancelOrders(l.orders, S \cap DOMAIN l.orders)
    BY DEF CancelOrders
  <1>6. QED
    <2> HIDE DEF k, S, x
    <2> QED BY <1>1, <1>2, <1>4, <1>5

-----------------------------------------------------------------------------
\* Whether refunds are paired is read from the payments alone.
LEMMA PairedByPayments ==
  ASSUME NEW l, NEW m, m.payments = l.payments, Paired(l)
  PROVE  Paired(m)
  BY DEF Paired, RefundedOnce, CancellableUnlessRefunded, IsPaired, Refunds, Approvals

\* What every transaction finds and leaves when it runs alone, on rows numbered
\* up to n.
Serial(l, n) == IsLedger(l, n) /\ OneActive(l) /\ Paired(l)

\* No row has number n yet.
Fresh(l, n) ==
    n \notin DOMAIN l.activities /\ n \notin DOMAIN l.orders /\ n \notin DOMAIN l.payments

\* The methods of an entity keep what was loaded: w has the rows of g, with new
\* orders and payments numbered in N, and no activity of w is open that was
\* closed in g or sat at another table.
Keeps(g, w, N) ==
    /\ DOMAIN w.activities = DOMAIN g.activities
    /\ DOMAIN g.orders \subseteq DOMAIN w.orders
    /\ DOMAIN w.orders \subseteq DOMAIN g.orders \cup N
    /\ DOMAIN g.payments \subseteq DOMAIN w.payments
    /\ DOMAIN w.payments \subseteq DOMAIN g.payments \cup N
    /\ \A c \in DOMAIN w.activities : w.activities[c].active =>
         g.activities[c].active /\ w.activities[c].table = g.activities[c].table

LEMMA KeepsTransitive ==
  ASSUME NEW l, NEW g, NEW w, NEW M, NEW N, Keeps(l, g, M), Keeps(g, w, N)
  PROVE  Keeps(l, w, M \cup N)
  BY DEF Keeps

\* A method that leaves the payments alone, moves no activity or order and
\* opens no activity keeps the invariant: the common case of the POS handlers.
LEMMA NarrowedSerial ==
  ASSUME NEW l, NEW n \in Nat, Serial(l, n), NEW a \in DOMAIN l.activities,
         NEW acts, NEW ords,
         acts \in [DOMAIN l.activities -> Activity],
         \A b \in DOMAIN acts : /\ acts[b].table = l.activities[b].table
                                /\ acts[b].active => l.activities[b].active,
         ords \in [DOMAIN l.orders -> Order],
         \A o \in DOMAIN ords : ords[o].activity = l.orders[o].activity
  PROVE  /\ Serial([activities |-> acts, orders |-> ords, payments |-> l.payments], n)
         /\ Keeps(l, [activities |-> acts, orders |-> ords, payments |-> l.payments], {})
  <1> DEFINE m == [activities |-> acts, orders |-> ords, payments |-> l.payments]
  <1>1. IsLedger(m, n)
    BY DEF Serial, IsLedger
  <1>2. OneActive(m)
    BY DEF Serial, OneActive, IsLedger
  <1>3. Paired(m)
    <2>1. m.payments = l.payments /\ Paired(l)
      BY DEF Serial
    <2> HIDE DEF m
    <2>2. QED BY <2>1, PairedByPayments
  <1>4. Keeps(l, m, {})
    BY DEF Keeps, Serial, IsLedger
  <1>5. QED
    BY <1>1, <1>2, <1>3, <1>4 DEF Serial

\* addPayment keeps the invariant.
LEMMA AddPaymentSerial ==
  ASSUME NEW l, NEW n \in Nat, Serial(l, n), NEW a \in DOMAIN l.activities, NEW p, NEW own
  PROVE  /\ Serial(AddPayment(l, a, p, own), n)
         /\ Keeps(l, AddPayment(l, a, p, own), {})
         /\ AddPayment(l, a, p, own).payments = l.payments
  <1>1. PICK x \in BOOLEAN, S \in SUBSET DOMAIN l.orders :
           /\ x => l.activities[a].active
           /\ AddPayment(l, a, p, own) =
                [activities |-> [l.activities EXCEPT ![a].active = x],
                 orders |-> CancelOrders(l.orders, S), payments |-> l.payments]
    BY AddPaymentEffect DEF Serial
  <1> DEFINE acts == [l.activities EXCEPT ![a].active = x]
             ords == CancelOrders(l.orders, S)
  <1>2. /\ l.activities \in [DOMAIN l.activities -> Activity]
        /\ l.orders \in [DOMAIN l.orders -> Order]
    BY DEF Serial, IsLedger
  <1>3. /\ acts \in [DOMAIN l.activities -> Activity]
        /\ \A b \in DOMAIN acts : /\ acts[b].table = l.activities[b].table
                                  /\ acts[b].active => l.activities[b].active
    BY <1>1, <1>2, ActiveType DEF Activity
  <1>4. /\ ords \in [DOMAIN l.orders -> Order]
        /\ \A o \in DOMAIN ords : ords[o].activity = l.orders[o].activity
    BY <1>2, CancelOrdersType
  <1> HIDE DEF acts, ords
  <1>5. /\ Serial([activities |-> acts, orders |-> ords, payments |-> l.payments], n)
        /\ Keeps(l, [activities |-> acts, orders |-> ords, payments |-> l.payments], {})
    BY <1>3, <1>4, NarrowedSerial
  <1>6. QED
    BY <1>1, <1>5 DEF acts, ords

-----------------------------------------------------------------------------
\* Giving out an identifier keeps the invariant.
LEMMA LaterSerial ==
  ASSUME NEW l, NEW n \in Nat, Serial(l, n)
  PROVE  Serial(l, n + 1)
  BY DEF Serial, IsLedger

\* Opening activity a, where none was loaded, as every ordering and approving
\* service may start, keeps the invariant.
LEMMA WithActivitySerial ==
  ASSUME NEW l, NEW n \in Nat, Serial(l, n), NEW t \in Tables, NEW a \in 1 .. n,
         a \notin DOMAIN l.activities => ActiveActivities(l, t) = {}
  PROVE  /\ Serial(WithActivity(l, t, a), n)
         /\ WithActivity(l, t, a).orders = l.orders
         /\ WithActivity(l, t, a).payments = l.payments
         /\ DOMAIN WithActivity(l, t, a).activities = DOMAIN l.activities \cup {a}
         /\ a \notin DOMAIN l.activities => WithActivity(l, t, a).activities[a].table = t
         /\ a \in DOMAIN l.activities => WithActivity(l, t, a) = l
  <1> DEFINE w == WithActivity(l, t, a)
  <1>1. CASE a \in DOMAIN l.activities
    <2>1. w = l
      BY <1>1 DEF WithActivity
    <2>2. QED
      BY <1>1, <2>1
  <1>2. CASE a \notin DOMAIN l.activities
    <2> DEFINE new == [table |-> t, active |-> TRUE, discount |-> 0]
               acts == WithRow(l.activities, a, new)
    <2>1. ActiveActivities(l, t) = {}
      BY <1>2
    <2>2. w = [activities |-> acts, orders |-> l.orders, payments |-> l.payments]
      BY <1>2 DEF WithActivity, Serial, IsLedger
    <2>3. new \in Activity /\ new.table = t
      BY LedgerAssumption DEF Activity
    <2>4. /\ l.activities \in [DOMAIN l.activities -> Activity]
          /\ DOMAIN l.activities \subseteq 1 .. n
      BY DEF Serial, IsLedger
    <2> HIDE DEF new
    <2>5. /\ acts \in [DOMAIN l.activities \cup {a} -> Activity]
          /\ acts[a] = new
          /\ \A b \in DOMAIN l.activities : acts[b] = l.activities[b]
      BY <1>2, <2>3, <2>4 DEF WithRow
    <2> HIDE DEF acts, w
    <2>6. IsLedger(w, n)
      BY <2>2, <2>5 DEF Serial, IsLedger
    <2>7. OneActive(w)
      BY <1>2, <2>1, <2>2, <2>3, <2>5 DEF Serial, OneActive, ActiveActivities
    <2>8. Paired(w)
      BY <2>2, PairedByPayments DEF Serial
    <2>9. QED
      BY <1>2, <2>2, <2>3, <2>5, <2>6, <2>7, <2>8 DEF Serial, w
  <1>3. QED
    BY <1>1, <1>2

\* OrderModifyService.create keeps the invariant.
LEMMA OrderCreatedSerial ==
  ASSUME NEW l, NEW k \in Nat, Serial(l, k), NEW t \in Tables, NEW a \in 1 .. k,
         a \notin DOMAIN l.activities => ActiveActivities(l, t) = {},
         NEW n \in 1 .. k, Fresh(l, n), NEW type \in OrderTypes, NEW price \in Prices
  PROVE  /\ Serial(OrderCreated(l, t, a, n, type, price), k)
         /\ Keeps(WithActivity(l, t, a), OrderCreated(l, t, a, n, type, price), {n})
  <1> DEFINE w == WithActivity(l, t, a)
             category == IF OrdersOf(w, a) = {} THEN "INITIAL" ELSE "ADDITIONAL"
             order == [activity |-> a, type |-> type, price |-> price,
                       category |-> category, state |-> "ORDER"]
             ords == WithRow(w.orders, n, order)
             m == [activities |-> w.activities, orders |-> ords, payments |-> w.payments]
  <1>1. Serial(w, k) /\ a \in DOMAIN w.activities /\ n \notin DOMAIN w.orders
    BY WithActivitySerial DEF Fresh
  <1>2. order \in Order /\ order.activity = a
    <2>1. category \in {"INITIAL", "ADDITIONAL"}
      OBVIOUS
    <2> HIDE DEF category
    <2>2. QED
      BY <1>1, <2>1, LedgerAssumption DEF Order
  <1>3. OrderCreated(l, t, a, n, type, price) = m
    <2>1. w = [activities |-> w.activities, orders |-> w.orders, payments |-> w.payments]
      BY <1>1 DEF Serial, IsLedger
    <2>2. OrderCreated(l, t, a, n, type, price) = [w EXCEPT !.orders = ords]
      BY DEF OrderCreated
    <2> HIDE DEF w, ords
    <2>3. QED
      BY <2>1, <2>2
  <1> HIDE DEF order, w
  <1>4. /\ ords \in [DOMAIN w.orders \cup {n} -> Order]
        /\ \A o \in DOMAIN ords : ords[o].activity \in DOMAIN w.activities
    BY <1>1, <1>2 DEF Serial, IsLedger, WithRow
  <1> HIDE DEF ords
  <1>5. IsLedger(m, k)
    BY <1>1, <1>4 DEF Serial, IsLedger
  <1>6. OneActive(m)
    BY <1>1 DEF Serial, OneActive
  <1>7. Paired(m)
    <2>1. m.payments = w.payments /\ Paired(w)
      BY <1>1 DEF Serial
    <2> HIDE DEF m
    <2>2. QED
      BY <2>1, PairedByPayments
  <1>8. Keeps(w, m, {n})
    BY <1>4 DEF Keeps
  <1>9. QED
    BY <1>3, <1>5, <1>6, <1>7, <1>8 DEF Serial, w

\* OrderPaymentModifyService.approve keeps the invariant: the new approval is
\* cancellable and nothing refunds it yet.
LEMMA PaymentApprovedSerial ==
  ASSUME NEW l, NEW k \in Nat, Serial(l, k), NEW t \in Tables, NEW a \in 1 .. k,
         a \notin DOMAIN l.activities => ActiveActivities(l, t) = {},
         NEW n \in 1 .. k, Fresh(l, n),
         NEW amount \in Amounts, NEW no \in ApprovalNos \cup {Cash}
  PROVE  /\ Serial(PaymentApproved(l, t, a, n, amount, no), k)
         /\ Keeps(WithActivity(l, t, a), PaymentApproved(l, t, a, n, amount, no), {n})
  <1> DEFINE w == WithActivity(l, t, a)
             payment == [activity |-> a, state |-> "APPROVE", amount |-> amount,
                         approvalNo |-> no, cancellable |-> TRUE, refunds |-> 0]
             pays == WithRow(w.payments, n, payment)
             m == [activities |-> w.activities, orders |-> w.orders, payments |-> pays]
  <1>1. /\ Serial(w, k) /\ a \in DOMAIN w.activities
        /\ w.payments = l.payments /\ n \notin DOMAIN l.payments
    BY WithActivitySerial DEF Fresh
  <1>2. WithPayment(w, n, payment) = m
    <2>1. w = [activities |-> w.activities, orders |-> w.orders, payments |-> w.payments]
      BY <1>1 DEF Serial, IsLedger
    <2> HIDE DEF w, payment
    <2>2. QED
      BY <2>1 DEF WithPayment
  <1>3. payment \in Payment
    BY <1>1 DEF Payment
  <1>4. /\ payment.activity = a /\ payment.state = "APPROVE"
        /\ payment.cancellable /\ payment.refunds = 0
    OBVIOUS
  <1> HIDE DEF payment, w
  <1>5. /\ pays \in [DOMAIN w.payments \cup {n} -> Payment]
        /\ pays[n] = payment
        /\ \A q \in DOMAIN w.payments : pays[q] = w.payments[q]
    BY <1>1, <1>3 DEF Serial, IsLedger, WithRow
  <1> HIDE DEF pays
  <1>6. IsLedger(m, k)
    BY <1>1, <1>4, <1>5 DEF Serial, IsLedger
  <1>7. OneActive(m)
    BY <1>1 DEF Serial, OneActive
  <1>8. Paired(m)
    <2>1. /\ Refunds(m) = Refunds(w)
          /\ Approvals(m) = Approvals(w) \cup {n}
          /\ n \notin Refunds(w) /\ n \notin Approvals(w)
      BY <1>1, <1>4, <1>5 DEF Refunds, Approvals
    <2>2. \A q \in Refunds(w) \cup Approvals(w) : m.payments[q] = w.payments[q]
      BY <1>5 DEF Refunds, Approvals
    <2>3. Paired(w)
      BY <1>1 DEF Serial
    <2> HIDE DEF m
    <2>4. \A r \in Refunds(m) : IsPaired(m, r)
      BY <2>1, <2>2, <2>3 DEF Paired, IsPaired
    <2>5. RefundedOnce(m)
      BY <2>1, <2>2, <2>3 DEF Paired, RefundedOnce
    <2>6. CancellableUnlessRefunded(m)
      <3>1. m.payments[n] = payment
        BY <1>5 DEF m
      <3>2. \A r \in Refunds(w) : w.payments[r].refunds # n
        BY <2>1, <2>3 DEF Paired, IsPaired
      <3>3. QED
        BY <1>4, <2>1, <2>2, <2>3, <3>1, <3>2 DEF Paired, CancellableUnlessRefunded
    <2>7. QED
      BY <2>4, <2>5, <2>6 DEF Paired
  <1>9. PaymentApproved(l, t, a, n, amount, no) = AddPayment(m, a, n, Sorted(m))
    BY <1>2 DEF PaymentApproved, w, payment
  <1>10. Serial(m, k) /\ a \in DOMAIN m.activities
    BY <1>1, <1>6, <1>7, <1>8 DEF Serial
  <1>11. Keeps(w, m, {n})
    BY <1>1, <1>5 DEF Keeps, Serial, IsLedger
  <1> HIDE DEF m
  <1>12. QED
    BY <1>9, <1>10, <1>11, AddPaymentSerial, KeepsTransitive DEF w

\* Clearing the flag of an approval changes nothing else among the payments.
LEMMA UncancellablePays ==
  ASSUME NEW l, NEW n \in Nat, Serial(l, n), NEW p \in DOMAIN l.payments
  PROVE  \E pays \in [DOMAIN l.payments -> Payment] :
           /\ Uncancellable(l, p) =
                [activities |-> l.activities, orders |-> l.orders, payments |-> pays]
           /\ pays[p].state = l.payments[p].state
           /\ pays[p].activity = l.payments[p].activity
           /\ pays[p].amount = l.payments[p].amount
           /\ ~pays[p].cancellable
           /\ \A q \in DOMAIN l.payments \ {p} : pays[q] = l.payments[q]
  <1> DEFINE pays == [l.payments EXCEPT ![p].cancellable = FALSE]
  <1>1. /\ l = [activities |-> l.activities, orders |-> l.orders, payments |-> l.payments]
        /\ l.payments \in [DOMAIN l.payments -> Payment]
    BY DEF Serial, IsLedger
  <1>2. /\ pays \in [DOMAIN l.payments -> Payment]
        /\ pays[p].state = l.payments[p].state
        /\ pays[p].activity = l.payments[p].activity
        /\ pays[p].amount = l.payments[p].amount
        /\ ~pays[p].cancellable
        /\ \A q \in DOMAIN l.payments \ {p} : pays[q] = l.payments[q]
    BY <1>1 DEF Payment
  <1>3. Uncancellable(l, p) = [l EXCEPT !.payments = pays]
    BY DEF Uncancellable
  <1> HIDE DEF pays
  <1>4. Uncancellable(l, p) =
          [activities |-> l.activities, orders |-> l.orders, payments |-> pays]
    BY <1>1, <1>3
  <1>5. QED
    BY <1>2, <1>4

\* n is later than every payment.
Latest(l, n) == \A q \in DOMAIN l.payments : q < n

\* OrderPaymentModifyService.cancel keeps the invariant: by canCancel the
\* approval had not been refunded, and the flag it clears keeps that from
\* happening again.
LEMMA PaymentCanceledSerial ==
  ASSUME NEW l, NEW k \in Nat, Serial(l, k), NEW p, CanCancelPayment(l, p),
         NEW n \in 1 .. k, Latest(l, n), NEW no \in ApprovalNos
  PROVE  /\ Serial(PaymentCanceled(l, p, n, no), k)
         /\ Keeps(l, PaymentCanceled(l, p, n, no), {n})
  <1> DEFINE approved == l.payments[p]
             a == approved.activity
             refund == [activity |-> a, state |-> "CANCEL", amount |-> approved.amount,
                        approvalNo |-> IF approved.approvalNo = Cash THEN Cash ELSE no,
                        cancellable |-> FALSE, refunds |-> p]
  <1>1. /\ p \in DOMAIN l.payments /\ p \in Approvals(l) /\ l.payments[p].cancellable
        /\ approved \in Payment /\ a \in DOMAIN l.activities /\ a \in Nat
        /\ p \in 1 .. k /\ p < n /\ n \notin DOMAIN l.payments
    BY DEF CanCancelPayment, Approvals, Serial, IsLedger, Latest
  <1>2. PICK pays \in [DOMAIN l.payments -> Payment] :
           /\ Uncancellable(l, p) =
                [activities |-> l.activities, orders |-> l.orders, payments |-> pays]
           /\ pays[p].state = l.payments[p].state
           /\ pays[p].activity = l.payments[p].activity
           /\ pays[p].amount = l.payments[p].amount
           /\ ~pays[p].cancellable
           /\ \A q \in DOMAIN l.payments \ {p} : pays[q] = l.payments[q]
    BY <1>1, UncancellablePays
  <1> DEFINE final == WithRow(pays, n, refund)
             m == [activities |-> l.activities, orders |-> l.orders, payments |-> final]
  <1>3. WithPayment(Uncancellable(l, p), n, refund) = m
    <2> HIDE DEF refund
    <2> QED BY <1>2 DEF WithPayment
  <1>4. /\ refund \in Payment /\ refund.activity = a /\ refund.state = "CANCEL"
        /\ refund.amount = approved.amount /\ refund.refunds = p
    BY <1>1 DEF Payment
  <1> HIDE DEF refund
  <1>5. /\ final \in [DOMAIN l.payments \cup {n} -> Payment]
        /\ final[n] = refund
        /\ \A q \in DOMAIN l.payments : final[q] = pays[q]
    BY <1>1, <1>2, <1>4 DEF WithRow
  <1> HIDE DEF final
  <1>6. IsLedger(m, k) /\ OneActive(m)
    <2>1. \A q \in DOMAIN final : final[q].activity \in DOMAIN l.activities
      BY <1>1, <1>2, <1>4, <1>5 DEF Serial, IsLedger
    <2>2. QED
      BY <1>1, <1>5, <2>1 DEF Serial, IsLedger, OneActive
  <1>7. Paired(m)
    <2>1. Refunds(m) = Refunds(l) \cup {n} /\ Approvals(m) = Approvals(l)
      BY <1>1, <1>2, <1>4, <1>5 DEF Refunds, Approvals, Serial, IsLedger
    <2>2. p \notin Refunds(l)
      BY <1>1 DEF Refunds, Approvals
    <2>3. \A q \in DOMAIN l.payments :
            /\ m.payments[q].activity = l.payments[q].activity
            /\ m.payments[q].amount = l.payments[q].amount
            /\ q # p => m.payments[q] = l.payments[q]
      BY <1>2, <1>5
    <2>4. /\ m.payments[n].refunds = p /\ m.payments[n].activity = a
          /\ m.payments[n].amount = approved.amount
      BY <1>4, <1>5
    <2>5. Paired(l)
      BY DEF Serial
    <2>6. \A r \in Refunds(l) : l.payments[r].refunds # p
      BY <1>1, <2>5 DEF Paired, CancellableUnlessRefunded
    <2>7. Refunds(l) \subseteq DOMAIN l.payments /\ Approvals(l) \subseteq DOMAIN l.payments
      BY DEF Refunds, Approvals
    <2>8. ~m.payments[p].cancellable
      BY <1>1, <1>2, <1>5
    <2> HIDE DEF m, a
    <2>9. \A r \in Refunds(m) : IsPaired(m, r)
      <3>1. ASSUME NEW r \in Refunds(l) PROVE IsPaired(m, r)
        BY <2>1, <2>2, <2>3, <2>5, <2>7 DEF Paired, IsPaired
      <3>2. IsPaired(m, n)
        BY <1>1, <2>1, <2>3, <2>4 DEF IsPaired, a
      <3>3. QED
        BY <2>1, <3>1, <3>2
    <2>10. RefundedOnce(m)
      BY <2>1, <2>2, <2>3, <2>4, <2>5, <2>6, <2>7 DEF Paired, RefundedOnce
    <2>11. CancellableUnlessRefunded(m)
      <3>1. ASSUME NEW q \in Approvals(l)
            PROVE  ~m.payments[q].cancellable <=>
                     \E r \in Refunds(m) : m.payments[r].refunds = q
        <4>1. ~l.payments[q].cancellable <=> \E r \in Refunds(l) : l.payments[r].refunds = q
          BY <2>5 DEF Paired, CancellableUnlessRefunded
        <4>2. (\E r \in Refunds(m) : m.payments[r].refunds = q)
                <=> (q = p \/ \E r \in Refunds(l) : l.payments[r].refunds = q)
          BY <2>1, <2>2, <2>3, <2>4, <2>7
        <4>3. CASE q = p
          <5>1. ~m.payments[q].cancellable
            BY <2>8, <4>3
          <5>2. \E r \in Refunds(m) : m.payments[r].refunds = q
            BY <4>2, <4>3
          <5>3. QED
            BY <5>1, <5>2
        <4>4. CASE q # p
          <5>1. m.payments[q] = l.payments[q]
            BY <2>3, <2>7, <4>4
          <5>2. QED
            BY <4>1, <4>2, <4>4, <5>1
        <4>5. QED
          BY <4>3, <4>4
      <3>2. QED
        BY <2>1, <3>1 DEF CancellableUnlessRefunded
    <2>12. QED
      BY <2>9, <2>10, <2>11 DEF Paired
  <1>8. PaymentCanceled(l, p, n, no) = AddPayment(m, a, n, Sorted(m))
    BY <1>3 DEF PaymentCanceled, refund
  <1>9. Serial(m, k) /\ a \in DOMAIN m.activities
    BY <1>1, <1>6, <1>7 DEF Serial
  <1>10. Keeps(l, m, {n})
    BY <1>5 DEF Keeps
  <1> HIDE DEF m, a
  <1>11. QED
    BY <1>8, <1>9, <1>10, AddPaymentSerial, KeepsTransitive

-----------------------------------------------------------------------------
\* Rewriting orders in place keeps the invariant.
LEMMA OrdersReplacedSerial ==
  ASSUME NEW l, NEW n \in Nat, Serial(l, n), NEW a \in DOMAIN l.activities, NEW ords,
         ords \in [DOMAIN l.orders -> Order],
         \A o \in DOMAIN ords : ords[o].activity = l.orders[o].activity
  PROVE  /\ Serial([l EXCEPT !.orders = ords], n)
         /\ Keeps(l, [l EXCEPT !.orders = ords], {})
         /\ [l EXCEPT !.orders = ords].activities = l.activities
         /\ [l EXCEPT !.orders = ords].orders = ords
  <1>1. /\ l = [activities |-> l.activities, orders |-> l.orders, payments |-> l.payments]
        /\ l.activities \in [DOMAIN l.activities -> Activity]
    BY DEF Serial, IsLedger
  <1>2. [l EXCEPT !.orders = ords] =
          [activities |-> l.activities, orders |-> ords, payments |-> l.payments]
    BY <1>1
  <1>3. /\ Serial([activities |-> l.activities, orders |-> ords, payments |-> l.payments], n)
        /\ Keeps(l, [activities |-> l.activities, orders |-> ords, payments |-> l.payments], {})
    BY <1>1, NarrowedSerial
  <1>4. QED
    BY <1>2, <1>3

\* PosTableActivity.setDiscountPrice keeps the invariant.
LEMMA ClampDiscountSerial ==
  ASSUME NEW l, NEW n \in Nat, Serial(l, n), NEW a \in DOMAIN l.activities, NEW d
  PROVE  /\ Serial(ClampDiscount(l, a, d), n)
         /\ Keeps(l, ClampDiscount(l, a, d), {})
  <1> DEFINE z == AsLong(Min({d, RemainingPaymentPrice(l, a)}))
             acts == [l.activities EXCEPT ![a].discount = z]
             k == [activities |-> acts, orders |-> l.orders, payments |-> l.payments]
  <1>1. z \in Long
    BY AsLongType
  <1> HIDE DEF z
  <1>2. /\ l = [activities |-> l.activities, orders |-> l.orders, payments |-> l.payments]
        /\ l.activities \in [DOMAIN l.activities -> Activity]
        /\ l.orders \in [DOMAIN l.orders -> Order]
    BY DEF Serial, IsLedger
  <1>3. ClampDiscount(l, a, d) = k
    <2>1. ClampDiscount(l, a, d) = [l EXCEPT !.activities[a].discount = z]
      BY DEF ClampDiscount, z
    <2>2. QED
      BY <1>2, <2>1
  <1>4. /\ acts \in [DOMAIN l.activities -> Activity]
        /\ \A b \in DOMAIN acts : /\ acts[b].table = l.activities[b].table
                                  /\ acts[b].active => l.activities[b].active
    BY <1>1, <1>2 DEF Activity
  <1> HIDE DEF acts
  <1>5. Serial(k, n) /\ Keeps(l, k, {})
    BY <1>2, <1>4, NarrowedSerial
  <1>6. QED
    BY <1>3, <1>5

\* PosTableActivity.tryInactivate keeps the invariant.
LEMMA TryInactivateSerial ==
  ASSUME NEW l, NEW n \in Nat, Serial(l, n), NEW a \in DOMAIN l.activities
  PROVE  /\ Serial(TryInactivate(l, a), n)
         /\ Keeps(l, TryInactivate(l, a), {})
  <1> DEFINE x == l.activities[a].active /\ HasOrderedOrder(l, a)
             acts == [l.activities EXCEPT ![a].active = x]
             k == [activities |-> acts, orders |-> l.orders, payments |-> l.payments]
  <1>1. x \in BOOLEAN /\ (x => l.activities[a].active)
    OBVIOUS
  <1>2. TryInactivate(l, a) = [l EXCEPT !.activities[a].active = x]
    BY DEF TryInactivate
  <1> HIDE DEF x
  <1>3. /\ l = [activities |-> l.activities, orders |-> l.orders, payments |-> l.payments]
        /\ l.activities \in [DOMAIN l.activities -> Activity]
        /\ l.orders \in [DOMAIN l.orders -> Order]
    BY DEF Serial, IsLedger
  <1>4. TryInactivate(l, a) = k
    BY <1>2, <1>3
  <1>5. /\ acts \in [DOMAIN l.activities -> Activity]
        /\ \A b \in DOMAIN acts : /\ acts[b].table = l.activities[b].table
                                  /\ acts[b].active => l.activities[b].active
    BY <1>1, <1>3, ActiveType DEF Activity
  <1> HIDE DEF acts
  <1>6. Serial(k, n) /\ Keeps(l, k, {})
    BY <1>3, <1>5, NarrowedSerial
  <1>7. QED
    BY <1>4, <1>6

\* PosTableActivity.cancelOrder keeps the invariant.
LEMMA OrderCanceledSerial ==
  ASSUME NEW l, NEW n \in Nat, Serial(l, n), NEW a \in DOMAIN l.activities, NEW o
  PROVE  /\ Serial(OrderCanceled(l, a, o), n)
         /\ Keeps(l, OrderCanceled(l, a, o), {})
  <1> DEFINE m == [l EXCEPT !.orders = CancelOrders(l.orders, {o})]
  <1>1. /\ CancelOrders(l.orders, {o}) \in [DOMAIN l.orders -> Order]
        /\ \A x \in DOMAIN l.orders :
             CancelOrders(l.orders, {o})[x].activity = l.orders[x].activity
    BY CancelOrdersType DEF Serial, IsLedger
  <1>2. Serial(m, n) /\ Keeps(l, m, {}) /\ a \in DOMAIN m.activities
    BY <1>1, OrdersReplacedSerial
  <1>3. OrderCanceled(l, a, o) = TryInactivate(ClampDiscount(m, a, l.activities[a].discount), a)
    BY DEF OrderCanceled
  <1> DEFINE d == ClampDiscount(m, a, l.activities[a].discount)
  <1> HIDE DEF m
  <1>4. Serial(d, n) /\ Keeps(m, d, {}) /\ a \in DOMAIN d.activities
    BY <1>2, ClampDiscountSerial DEF Keeps
  <1> HIDE DEF d
  <1>5. Serial(TryInactivate(d, a), n) /\ Keeps(d, TryInactivate(d, a), {})
    BY <1>4, TryInactivateSerial
  <1>6. QED
    BY <1>2, <1>3, <1>4, <1>5 DEF Keeps, d

\* PosTableActivity.updateOrder keeps the invariant.
LEMMA OrderUpdatedSerial ==
  ASSUME NEW l, NEW n \in Nat, Serial(l, n), NEW a \in DOMAIN l.activities,
         NEW o \in DOMAIN l.orders, NEW price \in Prices \cup {Emptied}
  PROVE  /\ Serial(OrderUpdated(l, a, o, price), n)
         /\ Keeps(l, OrderUpdated(l, a, o, price), {})
  <1> DEFINE order == IF price = Emptied
                        THEN [l.orders[o] EXCEPT !.price = 0, !.state = "CANCEL"]
                        ELSE [l.orders[o] EXCEPT !.price = price]
             ords == [l.orders EXCEPT ![o] = order]
             m == [l EXCEPT !.orders = ords]
  <1>1. l.orders \in [DOMAIN l.orders -> Order]
    BY DEF Serial, IsLedger
  <1>2. order \in Order /\ order.activity = l.orders[o].activity
    BY <1>1, LedgerAssumption DEF Order
  <1> HIDE DEF order
  <1>3. /\ ords \in [DOMAIN l.orders -> Order]
        /\ \A x \in DOMAIN ords : ords[x].activity = l.orders[x].activity
    BY <1>1, <1>2
  <1>4. OrderUpdated(l, a, o, price) =
          TryInactivate(ClampDiscount(m, a, l.activities[a].discount), a)
    <2>1. m = [l EXCEPT !.orders[o] = order]
      OBVIOUS
    <2>2. QED
      BY <2>1 DEF OrderUpdated, order
  <1> HIDE DEF ords
  <1>5. Serial(m, n) /\ Keeps(l, m, {}) /\ a \in DOMAIN m.activities
    BY <1>3, OrdersReplacedSerial
  <1> DEFINE d == ClampDiscount(m, a, l.activities[a].discount)
  <1> HIDE DEF m
  <1>6. Serial(d, n) /\ Keeps(m, d, {}) /\ a \in DOMAIN d.activities
    BY <1>5, ClampDiscountSerial DEF Keeps
  <1> HIDE DEF d
  <1>7. Serial(TryInactivate(d, a), n) /\ Keeps(d, TryInactivate(d, a), {})
    BY <1>6, TryInactivateSerial
  <1>8. QED
    BY <1>4, <1>5, <1>6, <1>7 DEF Keeps, d

\* PosTableActivity.complete keeps the invariant.
LEMMA CompletedSerial ==
  ASSUME NEW l, NEW n \in Nat, Serial(l, n), NEW a \in DOMAIN l.activities
  PROVE  Serial(Completed(l, a), n) /\ Keeps(l, Completed(l, a), {})
  <1> DEFINE x == FALSE
             acts == [l.activities EXCEPT ![a].active = x]
             k == [activities |-> acts, orders |-> l.orders, payments |-> l.payments]
  <1>1. x \in BOOLEAN /\ ~x
    OBVIOUS
  <1>2. Completed(l, a) = [l EXCEPT !.activities[a].active = x]
    BY DEF Completed
  <1> HIDE DEF x
  <1>3. /\ l = [activities |-> l.activities, orders |-> l.orders, payments |-> l.payments]
        /\ l.activities \in [DOMAIN l.activities -> Activity]
        /\ l.orders \in [DOMAIN l.orders -> Order]
    BY DEF Serial, IsLedger
  <1>4. Completed(l, a) = k
    BY <1>2, <1>3
  <1>5. /\ acts \in [DOMAIN l.activities -> Activity]
        /\ \A b \in DOMAIN acts : /\ acts[b].table = l.activities[b].table
                                  /\ acts[b].active => l.activities[b].active
    BY <1>1, <1>3, ActiveType DEF Activity
  <1> HIDE DEF acts
  <1>6. Serial(k, n) /\ Keeps(l, k, {})
    BY <1>3, <1>5, NarrowedSerial
  <1>7. QED
    BY <1>4, <1>6

\* A move to a table without an active activity keeps the invariant.
LEMMA MovedSerial ==
  ASSUME NEW l, NEW n \in Nat, Serial(l, n), NEW a \in DOMAIN l.activities,
         NEW t \in Tables, ActiveActivities(l, t) = {}
  PROVE  /\ Serial(Moved(l, a, t), n)
         /\ Moved(l, a, t).orders = l.orders /\ Moved(l, a, t).payments = l.payments
         /\ DOMAIN Moved(l, a, t).activities = DOMAIN l.activities
         /\ Moved(l, a, t).activities[a].table = t
  <1> DEFINE acts == [l.activities EXCEPT ![a].table = t]
             k == [activities |-> acts, orders |-> l.orders, payments |-> l.payments]
  <1>1. /\ l = [activities |-> l.activities, orders |-> l.orders, payments |-> l.payments]
        /\ l.activities \in [DOMAIN l.activities -> Activity]
        /\ l.orders \in [DOMAIN l.orders -> Order]
    BY DEF Serial, IsLedger
  <1>2. Moved(l, a, t) = k
    BY <1>1 DEF Moved
  <1>3. /\ acts \in [DOMAIN l.activities -> Activity]
        /\ acts[a].table = t
        /\ \A b \in DOMAIN acts \ {a} : acts[b] = l.activities[b]
    BY <1>1 DEF Activity
  <1> HIDE DEF acts
  <1>4. IsLedger(k, n)
    BY <1>1, <1>3 DEF Serial, IsLedger
  <1>5. OneActive(k)
    <2>1. \A b \in DOMAIN acts \ {a} : acts[b].active => acts[b].table # t
      BY <1>3 DEF ActiveActivities
    <2>2. \A b, c \in DOMAIN acts \ {a} :
            acts[b].active /\ acts[c].active /\ acts[b].table = acts[c].table => b = c
      BY <1>3 DEF Serial, OneActive
    <2>3. QED
      BY <1>3, <2>1, <2>2 DEF OneActive
  <1>6. Paired(k)
    <2>1. k.payments = l.payments /\ Paired(l)
      BY DEF Serial
    <2> HIDE DEF k
    <2>2. QED
      BY <2>1, PairedByPayments
  <1>7. QED
    BY <1>2, <1>3, <1>4, <1>5, <1>6 DEF Serial

\* A merge takes a refund along with the approval it undoes.
LEMMA ReassignPaired ==
  ASSUME NEW l, NEW n \in Nat, Serial(l, n), NEW a, NEW b \in Nat,
         NEW m, m.payments = Reassign(l.payments, a, b)
  PROVE  Paired(m)
  <1>1. /\ l.payments \in [DOMAIN l.payments -> Payment] /\ Paired(l)
    BY DEF Serial, IsLedger
  <1>2. /\ m.payments \in [DOMAIN l.payments -> Payment]
        /\ \A p \in DOMAIN l.payments :
             /\ m.payments[p].state = l.payments[p].state
             /\ m.payments[p].amount = l.payments[p].amount
             /\ m.payments[p].cancellable <=> l.payments[p].cancellable
             /\ m.payments[p].refunds = l.payments[p].refunds
             /\ m.payments[p].activity =
                  IF l.payments[p].activity = a THEN b ELSE l.payments[p].activity
    BY <1>1, ReassignPayments
  <1>3. \A p \in DOMAIN l.payments :
          /\ m.payments[p].state = l.payments[p].state
          /\ m.payments[p].amount = l.payments[p].amount
          /\ m.payments[p].cancellable <=> l.payments[p].cancellable
          /\ m.payments[p].refunds = l.payments[p].refunds
          /\ m.payments[p].activity =
               IF l.payments[p].activity = a THEN b ELSE l.payments[p].activity
    BY <1>2
  <1>4. Refunds(m) = Refunds(l) /\ Approvals(m) = Approvals(l)
    BY <1>2, <1>3 DEF Refunds, Approvals
  <1>5. Refunds(l) \subseteq DOMAIN l.payments /\ Approvals(l) \subseteq DOMAIN l.payments
    BY DEF Refunds, Approvals
  <1>6. \A r \in Refunds(m) : IsPaired(m, r)
    BY <1>1, <1>3, <1>4, <1>5 DEF Paired, IsPaired
  <1>7. RefundedOnce(m)
    BY <1>1, <1>3, <1>4, <1>5 DEF Paired, RefundedOnce
  <1>8. CancellableUnlessRefunded(m)
    BY <1>1, <1>3, <1>4, <1>5 DEF Paired, CancellableUnlessRefunded
  <1>9. QED
    BY <1>6, <1>7, <1>8 DEF Paired

\* PosTableActivity.merge keeps the invariant: of the two active activities
\* the source closes.
LEMMA MergedSerial ==
  ASSUME NEW l, NEW n \in Nat, Serial(l, n), NEW a \in DOMAIN l.activities,
         NEW b \in DOMAIN l.activities, a # b
  PROVE  Serial(Merged(l, a, b), n) /\ Keeps(l, Merged(l, a, b), {})
  <1> DEFINE replayed == ReplayPayments(l, a, b)
             revoked == {o \in DOMAIN l.orders : replayed.orders[o].state = "CANCEL"}
             x == l.activities[b].active /\ replayed.activities[b].active
             z == AsLong(l.activities[b].discount + l.activities[a].discount)
             moved == Reassign(l.orders, a, b)
             acts == [l.activities EXCEPT
                        ![a].discount = 0, ![a].active = FALSE,
                        ![b].discount = z, ![b].active = x]
             ords == CancelOrders(moved, revoked)
             pays == Reassign(l.payments, a, b)
             k == [activities |-> acts, orders |-> ords, payments |-> pays]
  <1>1. /\ l = [activities |-> l.activities, orders |-> l.orders, payments |-> l.payments]
        /\ l.activities \in [DOMAIN l.activities -> Activity]
        /\ l.orders \in [DOMAIN l.orders -> Order]
        /\ l.payments \in [DOMAIN l.payments -> Payment]
        /\ b \in Nat
    BY DEF Serial, IsLedger
  <1>2. x \in BOOLEAN /\ (x => l.activities[b].active) /\ z \in Long /\ 0 \in Long
    BY AsLongType, LedgerAssumption
  <1>3. Merged(l, a, b) = k
    <2>1. Merged(l, a, b) = [l EXCEPT !.activities = acts, !.orders = ords, !.payments = pays]
      BY DEF Merged
    <2> HIDE DEF acts, ords, pays
    <2>2. QED
      BY <1>1, <2>1
  <1> HIDE DEF x, z, revoked
  <1>4. /\ acts \in [DOMAIN l.activities -> Activity]
        /\ acts[b].active => l.activities[b].active
        /\ ~acts[a].active
        /\ \A c \in DOMAIN acts : acts[c].table = l.activities[c].table
        /\ \A c \in DOMAIN acts \ {a, b} : acts[c] = l.activities[c]
    <2> DEFINE y == FALSE
               closed == [l.activities EXCEPT ![a].discount = 0, ![a].active = y]
    <2>1. /\ closed \in [DOMAIN l.activities -> Activity]
          /\ closed[a].table = l.activities[a].table
          /\ closed[a].active <=> y
          /\ \A c \in DOMAIN l.activities \ {a} : closed[c] = l.activities[c]
      <3>1. y \in BOOLEAN /\ closed = [l.activities EXCEPT ![a].discount = 0, ![a].active = y]
        OBVIOUS
      <3> HIDE DEF y, closed
      <3>2. QED
        BY <1>1, <1>2, <3>1 DEF Activity
    <2>2. acts = [closed EXCEPT ![b].discount = z, ![b].active = x]
      OBVIOUS
    <2> HIDE DEF closed, acts
    <2>3. /\ acts \in [DOMAIN closed -> Activity]
          /\ acts[b].table = closed[b].table
          /\ acts[b].active <=> x
          /\ \A c \in DOMAIN closed \ {b} : acts[c] = closed[c]
      <3>1. DOMAIN closed = DOMAIN l.activities
        BY <2>1
      <3>2. QED
        BY <1>2, <2>1, <2>2, <3>1 DEF Activity
    <2>4. QED
      BY <1>2, <2>1, <2>3
  <1> HIDE DEF acts
  <1>5. /\ moved \in [DOMAIN l.orders -> Order]
        /\ \A o \in DOMAIN l.orders : moved[o].activity \in DOMAIN l.activities
    BY <1>1, ReassignOrders DEF Serial, IsLedger
  <1>6. /\ pays \in [DOMAIN l.payments -> Payment]
        /\ \A p \in DOMAIN l.payments : pays[p].activity \in DOMAIN l.activities
    BY <1>1, ReassignPayments DEF Serial, IsLedger
  <1> HIDE DEF moved
  <1>7. /\ ords \in [DOMAIN l.orders -> Order]
        /\ \A o \in DOMAIN l.orders : ords[o].activity \in DOMAIN l.activities
    BY <1>5, CancelOrdersType
  <1>8. k.payments = Reassign(l.payments, a, b)
    OBVIOUS
  <1> HIDE DEF ords, pays
  <1>9. IsLedger(k, n)
    BY <1>1, <1>4, <1>6, <1>7 DEF Serial, IsLedger
  <1>10. OneActive(k)
    BY <1>4 DEF Serial, OneActive
  <1>11. Paired(k)
    BY <1>1, <1>8, ReassignPaired
  <1>12. Keeps(l, k, {})
    BY <1>4, <1>6, <1>7 DEF Keeps
  <1>13. QED
    BY <1>3, <1>9, <1>10, <1>11, <1>12 DEF Serial

-----------------------------------------------------------------------------
(* From what is loaded to what is saved.                                    *)

\* What is loaded is typed.
LEMMA LoadedLedger ==
  ASSUME NEW l, NEW n, IsLedger(l, n), NEW S
  PROVE  IsLedger(Loaded(l, S), n)
  <1> DEFINE g == Loaded(l, S)
  <1>1. /\ DOMAIN g.activities = DOMAIN l.activities \cap S
        /\ DOMAIN g.orders = {o \in DOMAIN l.orders : l.orders[o].activity \in S}
        /\ \A o \in DOMAIN g.orders : g.orders[o] = l.orders[o]
        /\ DOMAIN g.payments = {p \in DOMAIN l.payments : l.payments[p].activity \in S}
        /\ \A p \in DOMAIN g.payments : g.payments[p] = l.payments[p]
    BY DEF Loaded
  <1>2. /\ g.activities = [c \in DOMAIN l.activities \cap S |-> l.activities[c]]
        /\ g.orders = [o \in {o \in DOMAIN l.orders : l.orders[o].activity \in S} |->
                         l.orders[o]]
        /\ g.payments = [p \in {p \in DOMAIN l.payments : l.payments[p].activity \in S} |->
                           l.payments[p]]
        /\ g = [activities |-> g.activities, orders |-> g.orders, payments |-> g.payments]
    BY DEF Loaded
  <1> HIDE DEF g
  <1>3. /\ g.activities \in [DOMAIN g.activities -> Activity]
        /\ g.orders \in [DOMAIN g.orders -> Order]
        /\ g.payments \in [DOMAIN g.payments -> Payment]
    BY <1>2 DEF IsLedger
  <1>4. QED
    BY <1>1, <1>2, <1>3 DEF IsLedger, g

\* What a service loads is a ledger of its own, with the invariant: a refund
\* is loaded with the approval it undoes.
LEMMA LoadedSerial ==
  ASSUME NEW l, NEW n \in Nat, Serial(l, n), NEW S
  PROVE  /\ Serial(Loaded(l, S), n)
         /\ DOMAIN Loaded(l, S).activities = DOMAIN l.activities \cap S
         /\ \A c \in DOMAIN l.activities \cap S : Loaded(l, S).activities[c] = l.activities[c]
         /\ DOMAIN Loaded(l, S).orders = {o \in DOMAIN l.orders : l.orders[o].activity \in S}
         /\ \A o \in DOMAIN Loaded(l, S).orders : Loaded(l, S).orders[o] = l.orders[o]
         /\ DOMAIN Loaded(l, S).payments =
              {p \in DOMAIN l.payments : l.payments[p].activity \in S}
         /\ \A p \in DOMAIN Loaded(l, S).payments : Loaded(l, S).payments[p] = l.payments[p]
  <1> DEFINE g == Loaded(l, S)
  <1>1. /\ DOMAIN g.activities = DOMAIN l.activities \cap S
        /\ \A c \in DOMAIN l.activities \cap S : g.activities[c] = l.activities[c]
        /\ DOMAIN g.orders = {o \in DOMAIN l.orders : l.orders[o].activity \in S}
        /\ \A o \in DOMAIN g.orders : g.orders[o] = l.orders[o]
        /\ DOMAIN g.payments = {p \in DOMAIN l.payments : l.payments[p].activity \in S}
        /\ \A p \in DOMAIN g.payments : g.payments[p] = l.payments[p]
    BY DEF Loaded
  <1>2. IsLedger(g, n)
    BY LoadedLedger DEF Serial
  <1> HIDE DEF g
  <1>3. OneActive(g)
    BY <1>1 DEF Serial, OneActive
  <1>4. Paired(g)
    <2>1. Paired(l)
      BY DEF Serial
    <2>2. /\ Refunds(g) = {r \in Refunds(l) : l.payments[r].activity \in S}
          /\ Approvals(g) = {p \in Approvals(l) : l.payments[p].activity \in S}
      BY <1>1 DEF Refunds, Approvals
    <2>3. \A p \in Refunds(g) \cup Approvals(g) : g.payments[p] = l.payments[p]
      BY <1>1 DEF Refunds, Approvals
    <2>4. \A r \in Refunds(g) : IsPaired(g, r)
      BY <2>1, <2>2, <2>3 DEF Paired, IsPaired
    <2>5. RefundedOnce(g)
      BY <2>1, <2>2, <2>3 DEF Paired, RefundedOnce
    <2>6. CancellableUnlessRefunded(g)
      BY <2>1, <2>2, <2>3 DEF Paired, CancellableUnlessRefunded, IsPaired
    <2>7. QED
      BY <2>4, <2>5, <2>6 DEF Paired
  <1>5. QED
    BY <1>1, <1>2, <1>3, <1>4 DEF Serial, g

\* What a service saves fits the ledger it loaded from: it has all orders and
\* payments of the activities it has, what it adds is numbered in N, and its
\* open activities sit at tables of K, where no other activity is open.
Fits(l, w, N, K) ==
    /\ DOMAIN w.activities \subseteq DOMAIN l.activities \cup N
    /\ DOMAIN w.orders \subseteq DOMAIN l.orders \cup N
    /\ DOMAIN w.payments \subseteq DOMAIN l.payments \cup N
    /\ \A o \in DOMAIN l.orders :
         o \in DOMAIN w.orders <=> l.orders[o].activity \in DOMAIN w.activities
    /\ \A p \in DOMAIN l.payments :
         p \in DOMAIN w.payments <=> l.payments[p].activity \in DOMAIN w.activities
    /\ \A c \in DOMAIN w.activities : w.activities[c].active =>
         /\ w.activities[c].table \in K
         /\ ActiveActivities(l, w.activities[c].table) \subseteq DOMAIN w.activities

\* Ledger m is l with the entities w saved, row by row.
IsSaved(m, l, w) ==
    /\ DOMAIN m.activities = DOMAIN l.activities \cup DOMAIN w.activities
    /\ DOMAIN m.orders = DOMAIN l.orders \cup DOMAIN w.orders
    /\ DOMAIN m.payments = DOMAIN l.payments \cup DOMAIN w.payments
    /\ \A c \in DOMAIN m.activities :
         m.activities[c] = IF c \in DOMAIN w.activities THEN w.activities[c]
                                                       ELSE l.activities[c]
    /\ \A o \in DOMAIN m.orders :
         m.orders[o] = IF o \in DOMAIN w.orders THEN w.orders[o] ELSE l.orders[o]
    /\ \A p \in DOMAIN m.payments :
         m.payments[p] = IF p \in DOMAIN w.payments THEN w.payments[p] ELSE l.payments[p]

LEMMA SavedRowsOf ==
  ASSUME NEW l, NEW w
  PROVE  /\ IsSaved(Saved(l, w), l, w)
         /\ Saved(l, w) = [activities |-> Saved(l, w).activities,
                            orders |-> Saved(l, w).orders,
                            payments |-> Saved(l, w).payments]
         /\ Saved(l, w).activities =
              [c \in DOMAIN Saved(l, w).activities |-> Saved(l, w).activities[c]]
         /\ Saved(l, w).orders =
              [o \in DOMAIN Saved(l, w).orders |-> Saved(l, w).orders[o]]
         /\ Saved(l, w).payments =
              [p \in DOMAIN Saved(l, w).payments |-> Saved(l, w).payments[p]]
  <1>1. IsSaved(Saved(l, w), l, w)
    BY DEF IsSaved, Saved, SavedRows
  <1>2. QED
    BY <1>1 DEF Saved, SavedRows

\* Saving what fits keeps the invariant.
LEMMA SavedSerial ==
  ASSUME NEW l, NEW n \in Nat, Serial(l, n), NEW w, Serial(w, n),
         NEW N, NEW K, Fits(l, w, N, K)
  PROVE  Serial(Saved(l, w), n)
  <1> DEFINE m == Saved(l, w)
  <1>1. /\ IsSaved(m, l, w)
        /\ m = [activities |-> m.activities, orders |-> m.orders, payments |-> m.payments]
    BY SavedRowsOf
  <1>2. /\ m.activities = [c \in DOMAIN m.activities |-> m.activities[c]]
        /\ m.orders = [o \in DOMAIN m.orders |-> m.orders[o]]
        /\ m.payments = [p \in DOMAIN m.payments |-> m.payments[p]]
    BY SavedRowsOf
  <1> HIDE DEF m
  <1>3. IsLedger(l, n) /\ IsLedger(w, n)
    BY DEF Serial
  <1>4. IsLedger(m, n)
    <2>1. m.activities \in [DOMAIN m.activities -> Activity]
      BY <1>1, <1>2, <1>3 DEF IsSaved, IsLedger
    <2>2. m.orders \in [DOMAIN m.orders -> Order]
      BY <1>1, <1>2, <1>3 DEF IsSaved, IsLedger
    <2>3. m.payments \in [DOMAIN m.payments -> Payment]
      BY <1>1, <1>2, <1>3 DEF IsSaved, IsLedger
    <2>4. DOMAIN m.activities \cup DOMAIN m.orders \cup DOMAIN m.payments \subseteq 1 .. n
      BY <1>1, <1>3 DEF IsSaved, IsLedger
    <2>5. \A o \in DOMAIN m.orders : m.orders[o].activity \in DOMAIN m.activities
      BY <1>1, <1>3 DEF IsSaved, IsLedger
    <2>6. \A p \in DOMAIN m.payments : m.payments[p].activity \in DOMAIN m.activities
      BY <1>1, <1>3 DEF IsSaved, IsLedger
    <2>7. QED
      BY <1>1, <2>1, <2>2, <2>3, <2>4, <2>5, <2>6 DEF IsSaved, IsLedger
  <1>5. OneActive(m)
    <2> SUFFICES ASSUME NEW c \in DOMAIN m.activities, NEW d \in DOMAIN m.activities,
                        m.activities[c].active, m.activities[d].active,
                        m.activities[c].table = m.activities[d].table
                 PROVE  c = d
      BY DEF OneActive
    <2>1. ASSUME NEW x \in DOMAIN w.activities, NEW y \in DOMAIN l.activities \ DOMAIN w.activities,
                 w.activities[x].active, l.activities[y].active
          PROVE  w.activities[x].table # l.activities[y].table
      BY <2>1 DEF Fits, ActiveActivities
    <2>2. CASE c \in DOMAIN w.activities /\ d \in DOMAIN w.activities
      BY <1>1, <2>2 DEF IsSaved, Serial, OneActive
    <2>3. CASE c \notin DOMAIN w.activities /\ d \notin DOMAIN w.activities
      BY <1>1, <2>3 DEF IsSaved, Serial, OneActive
    <2>4. CASE c \in DOMAIN w.activities /\ d \notin DOMAIN w.activities
      BY <1>1, <2>1, <2>4 DEF IsSaved
    <2>5. CASE c \notin DOMAIN w.activities /\ d \in DOMAIN w.activities
      BY <1>1, <2>1, <2>5 DEF IsSaved
    <2>6. QED
      BY <2>2, <2>3, <2>4, <2>5
  <1>6. Paired(m)
    <2>1. Paired(l) /\ Paired(w)
      BY DEF Serial
    <2>2. \A p \in DOMAIN m.payments :
            m.payments[p] = IF p \in DOMAIN w.payments THEN w.payments[p] ELSE l.payments[p]
      BY <1>1 DEF IsSaved
    <2>3. /\ \A p : p \in Refunds(m) <=>
               \/ p \in Refunds(w)
               \/ p \in Refunds(l) /\ p \notin DOMAIN w.payments
          /\ \A p : p \in Approvals(m) <=>
               \/ p \in Approvals(w)
               \/ p \in Approvals(l) /\ p \notin DOMAIN w.payments
      BY <1>1, <2>2 DEF IsSaved, Refunds, Approvals
    <2>4. /\ Refunds(w) \cup Approvals(w) \subseteq DOMAIN w.payments
          /\ Refunds(l) \cup Approvals(l) \subseteq DOMAIN l.payments
      BY DEF Refunds, Approvals
    <2>5. \A r \in Refunds(l) \ DOMAIN w.payments :
            l.payments[r].refunds \in Approvals(l) \ DOMAIN w.payments
      BY <2>1, <2>4 DEF Paired, IsPaired, Fits
    <2>6. \A r \in Refunds(w) : w.payments[r].refunds \in Approvals(w)
      BY <2>1 DEF Paired, IsPaired
    <2>7. ASSUME NEW r \in Refunds(m) PROVE IsPaired(m, r)
      <3>1. CASE r \in Refunds(w)
        BY <1>1, <2>1, <2>3, <2>4, <2>6, <3>1 DEF IsSaved, Paired, IsPaired
      <3>2. CASE r \in Refunds(l) \ DOMAIN w.payments
        BY <1>1, <2>1, <2>3, <2>4, <2>5, <3>2 DEF IsSaved, Paired, IsPaired
      <3>3. QED
        BY <2>3, <3>1, <3>2
    <2>8. RefundedOnce(m)
      <3> SUFFICES ASSUME NEW r \in Refunds(m), NEW s \in Refunds(m),
                          m.payments[r].refunds = m.payments[s].refunds
                   PROVE  r = s
        BY DEF RefundedOnce
      <3>1. CASE r \in Refunds(w) /\ s \in Refunds(w)
        BY <1>1, <2>1, <2>4, <3>1 DEF IsSaved, Paired, RefundedOnce
      <3>2. CASE r \in Refunds(l) \ DOMAIN w.payments /\ s \in Refunds(l) \ DOMAIN w.payments
        BY <1>1, <2>1, <2>4, <3>2 DEF IsSaved, Paired, RefundedOnce
      <3>3. CASE r \in Refunds(w) /\ s \in Refunds(l) \ DOMAIN w.payments
        BY <1>1, <2>4, <2>5, <2>6, <3>3 DEF IsSaved
      <3>4. CASE s \in Refunds(w) /\ r \in Refunds(l) \ DOMAIN w.payments
        BY <1>1, <2>4, <2>5, <2>6, <3>4 DEF IsSaved
      <3>5. QED
        BY <2>3, <3>1, <3>2, <3>3, <3>4
    <2>9. CancellableUnlessRefunded(m)
      <3> SUFFICES ASSUME NEW p \in Approvals(m)
                   PROVE  ~m.payments[p].cancellable <=>
                            \E r \in Refunds(m) : m.payments[r].refunds = p
        BY DEF CancellableUnlessRefunded
      <3>1. CASE p \in Approvals(w)
        <4>1. ~w.payments[p].cancellable <=> \E r \in Refunds(w) : w.payments[r].refunds = p
          BY <2>1, <3>1 DEF Paired, CancellableUnlessRefunded
        <4>2. (\E r \in Refunds(m) : m.payments[r].refunds = p)
                <=> \E r \in Refunds(w) : w.payments[r].refunds = p
          BY <1>1, <2>3, <2>4, <2>5, <3>1 DEF IsSaved
        <4>3. m.payments[p] = w.payments[p]
          BY <1>1, <2>4, <3>1 DEF IsSaved
        <4>4. QED
          BY <4>1, <4>2, <4>3
      <3>2. CASE p \in Approvals(l) \ DOMAIN w.payments
        <4>1. ~l.payments[p].cancellable <=> \E r \in Refunds(l) : l.payments[r].refunds = p
          BY <2>1, <3>2 DEF Paired, CancellableUnlessRefunded
        <4>2. \A r \in Refunds(l) \cap DOMAIN w.payments : l.payments[r].refunds # p
          BY <2>1, <2>4, <3>2 DEF Paired, IsPaired, Fits
        <4>3. (\E r \in Refunds(m) : m.payments[r].refunds = p)
                <=> \E r \in Refunds(l) : l.payments[r].refunds = p
          BY <1>1, <2>3, <2>4, <2>6, <3>2, <4>2 DEF IsSaved
        <4>4. m.payments[p] = l.payments[p]
          BY <1>1, <2>4, <3>2 DEF IsSaved
        <4>5. QED
          BY <4>1, <4>3, <4>4
      <3>3. QED
        BY <2>3, <3>1, <3>2
    <2>10. QED
      BY <2>7, <2>8, <2>9 DEF Paired
  <1>7. QED
    BY <1>4, <1>5, <1>6 DEF Serial, m

-----------------------------------------------------------------------------
(* The money of an activity, and what closes it.                            *)

\* m has of activity a the orders and payments that l has.
SameMoney(l, m, a) ==
    /\ OrdersOf(m, a) = OrdersOf(l, a)
    /\ \A o \in OrdersOf(l, a) : m.orders[o] = l.orders[o]
    /\ PaymentsOf(m, a) = PaymentsOf(l, a)
    /\ \A p \in PaymentsOf(l, a) : m.payments[p] = l.payments[p]

\* Then all that is computed of them is the same.
LEMMA SameSums ==
  ASSUME NEW l, NEW m, NEW a, SameMoney(l, m, a)
  PROVE  /\ OrderedOrders(m, a) = OrderedOrders(l, a)
         /\ OrderSum(m, a) = OrderSum(l, a)
         /\ PaymentSum(m, a) = PaymentSum(l, a)
         /\ RemainingPaymentPrice(m, a) = RemainingPaymentPrice(l, a)
         /\ m.activities[a].discount = l.activities[a].discount =>
              RemainingPaymentPriceWithDiscount(m, a) = RemainingPaymentPriceWithDiscount(l, a)
  <1>1. OrderedOrders(m, a) = OrderedOrders(l, a)
    BY DEF SameMoney, OrderedOrders
  <1>2. [o \in OrderedOrders(m, a) |-> m.orders[o].price] =
          [o \in OrderedOrders(l, a) |-> l.orders[o].price]
    BY <1>1 DEF SameMoney, OrderedOrders
  <1>3. [p \in PaymentsOf(m, a) |-> PaymentPrice(m.payments[p])] =
          [p \in PaymentsOf(l, a) |-> PaymentPrice(l.payments[p])]
    BY DEF SameMoney
  <1>4. OrderSum(m, a) = OrderSum(l, a) /\ PaymentSum(m, a) = PaymentSum(l, a)
    BY <1>2, <1>3 DEF OrderSum, PaymentSum
  <1>5. RemainingPaymentPrice(m, a) = RemainingPaymentPrice(l, a)
    BY <1>4 DEF RemainingPaymentPrice, TotalOrderPrice, TotalPaymentPrice
  <1>6. QED
    BY <1>1, <1>4, <1>5 DEF RemainingPaymentPriceWithDiscount

\* A service loads all the money of its activities.
LEMMA LoadedMoney ==
  ASSUME NEW l, NEW S, NEW a \in S
  PROVE  SameMoney(l, Loaded(l, S), a)
  BY DEF SameMoney, Loaded, OrdersOf, PaymentsOf

\* It saves all the money of the activities it has.
LEMMA SavedMoney ==
  ASSUME NEW l, NEW n, IsLedger(l, n), NEW w, IsLedger(w, n), NEW N, NEW K, Fits(l, w, N, K),
         NEW a \in DOMAIN w.activities
  PROVE  /\ SameMoney(w, Saved(l, w), a)
         /\ Saved(l, w).activities[a] = w.activities[a]
  <1> DEFINE m == Saved(l, w)
  <1>1. IsSaved(m, l, w)
    BY SavedRowsOf
  <1> HIDE DEF m
  <1>2. /\ \A o \in DOMAIN m.orders : o \notin DOMAIN w.orders => m.orders[o].activity # a
        /\ \A p \in DOMAIN m.payments : p \notin DOMAIN w.payments => m.payments[p].activity # a
    BY <1>1 DEF IsSaved, Fits
  <1>3. OrdersOf(m, a) = OrdersOf(w, a) /\ PaymentsOf(m, a) = PaymentsOf(w, a)
    BY <1>1, <1>2 DEF IsSaved, OrdersOf, PaymentsOf
  <1>4. SameMoney(w, m, a)
    BY <1>1, <1>3 DEF IsSaved, SameMoney, OrdersOf, PaymentsOf
  <1>5. QED
    BY <1>1, <1>4 DEF IsSaved, m

\* And it leaves the others alone.
LEMMA SavedElsewhere ==
  ASSUME NEW l, NEW n, IsLedger(l, n), NEW w, IsLedger(w, n), NEW N, NEW K, Fits(l, w, N, K),
         NEW a \in DOMAIN l.activities, a \notin DOMAIN w.activities
  PROVE  /\ SameMoney(l, Saved(l, w), a)
         /\ Saved(l, w).activities[a] = l.activities[a]
  <1> DEFINE m == Saved(l, w)
  <1>1. IsSaved(m, l, w)
    BY SavedRowsOf
  <1> HIDE DEF m
  <1>2. /\ \A o \in DOMAIN w.orders : w.orders[o].activity # a
        /\ \A p \in DOMAIN w.payments : w.payments[p].activity # a
    BY DEF IsLedger
  <1>3. /\ \A o \in OrdersOf(l, a) : o \notin DOMAIN w.orders
        /\ \A p \in PaymentsOf(l, a) : p \notin DOMAIN w.payments
    BY DEF Fits, OrdersOf, PaymentsOf
  <1>4. OrdersOf(m, a) = OrdersOf(l, a) /\ PaymentsOf(m, a) = PaymentsOf(l, a)
    BY <1>1, <1>2, <1>3 DEF IsSaved, OrdersOf, PaymentsOf
  <1>5. SameMoney(l, m, a)
    BY <1>1, <1>3, <1>4 DEF IsSaved, SameMoney, OrdersOf, PaymentsOf
  <1>6. QED
    BY <1>1, <1>5 DEF IsSaved, m

\* At most one order is revoked, prepaid with the amount of the refund.
LEMMA RevokedIsPaid ==
  ASSUME NEW l, DOMAIN l.orders \subseteq Nat, NEW a, NEW n, NEW own
  PROVE  \/ RevokedOrders(l, a, n, own) = {}
         \/ \E o \in OrderedOrders(l, a) :
              /\ RevokedOrders(l, a, n, own) = {o}
              /\ l.orders[o].type = "PREPAID" /\ l.orders[o].price = l.payments[n].amount
              /\ l.payments[n].state = "CANCEL"
  <1> DEFINE refund == l.payments[n]
             approved == FirstOf({p \in PaymentsOf(l, a) :
                                    l.payments[p].approvalNo = refund.approvalNo}, own)
             paid == {o \in OrderedOrders(l, a) :
                        /\ l.orders[o].type = "PREPAID"
                        /\ l.orders[o].price = refund.amount
                        /\ approved < o /\ o < n}
  <1>1. RevokedOrders(l, a, n, own) =
          IF refund.state = "CANCEL" /\ paid # {} THEN {FirstOf(paid, own)} ELSE {}
    BY DEF RevokedOrders
  <1>2. paid \subseteq Nat
    BY DEF OrderedOrders, OrdersOf
  <1>3. \A o \in paid : /\ o \in OrderedOrders(l, a) /\ l.orders[o].type = "PREPAID"
                        /\ l.orders[o].price = refund.amount
    OBVIOUS
  <1> HIDE DEF paid
  <1>4. paid # {} => FirstOf(paid, own) \in paid
    <2>1. paid # {} => Min(paid) \in paid
      BY <1>2, LeastNumber
    <2>2. paid \cap own \in SUBSET Nat
      BY <1>2
    <2>3. paid \cap own # {} => Min(paid \cap own) \in paid \cap own
      BY <2>2, LeastNumber
    <2>4. QED
      BY <2>1, <2>3 DEF FirstOf
  <1>5. QED
    BY <1>1, <1>3, <1>4

\* Three tables, of which the activities D are well typed.
HasRows(l, D) ==
    /\ l = [activities |-> l.activities, orders |-> l.orders, payments |-> l.payments]
    /\ l.activities \in [D -> Activity]

\* addPayment cancels the revoked orders, and closes only what is paid for.
LEMMA AddPaymentRows ==
  ASSUME NEW l, NEW D, HasRows(l, D), NEW a \in D, NEW p, NEW own,
         NEW w, w = AddPayment(l, a, p, own)
  PROVE  /\ DOMAIN w.activities = D
         /\ \A c \in D \ {a} : w.activities[c] = l.activities[c]
         /\ w.activities[a].discount = l.activities[a].discount
         /\ ~l.activities[a].active => w.activities[a] = l.activities[a]
         /\ w.orders = CancelOrders(l.orders, RevokedOrders(l, a, p, own))
         /\ w.payments = l.payments
         /\ l.activities[a].active /\ ~w.activities[a].active =>
              RemainingPaymentPriceWithDiscount(w, a) <= 0
  <1> DEFINE S == RevokedOrders(l, a, p, own)
             k == [l EXCEPT !.orders = CancelOrders(l.orders, S)]
             x == l.activities[a].active /\ ~IsSettled(k, a)
  <1>1. x \in BOOLEAN /\ (x <=> l.activities[a].active /\ ~IsSettled(k, a))
    OBVIOUS
  <1>2. w = [k EXCEPT !.activities[a].active = x]
    BY DEF AddPayment
  <1>3. k = [activities |-> l.activities, orders |-> CancelOrders(l.orders, S),
             payments |-> l.payments]
    BY DEF HasRows
  <1>0. l.activities \in [D -> Activity]
    BY DEF HasRows
  <1> HIDE DEF k, S, x
  <1>4. /\ w.activities = [l.activities EXCEPT ![a].active = x]
        /\ w.orders = CancelOrders(l.orders, S) /\ w.payments = l.payments
    BY <1>2, <1>3
  <1>5. /\ DOMAIN w.activities = D
        /\ \A c \in D \ {a} : w.activities[c] = l.activities[c]
        /\ w.activities[a].discount = l.activities[a].discount
        /\ w.activities[a].active <=> x
    BY <1>0, <1>1, <1>4 DEF Activity
  <1>6. ~l.activities[a].active => w.activities[a] = l.activities[a]
    <2> SUFFICES ASSUME ~l.activities[a].active PROVE w.activities[a] = l.activities[a]
      OBVIOUS
    <2>1. l.activities[a] \in Activity /\ w.activities[a] = [l.activities[a] EXCEPT !.active = x]
      BY <1>0, <1>4
    <2>2. l.activities[a].active = x
      BY <1>1, <2>1 DEF Activity
    <2>3. QED
      BY <2>1, <2>2 DEF Activity
  <1>7. SameMoney(k, w, a) /\ w.activities[a].discount = k.activities[a].discount
    BY <1>3, <1>4, <1>5 DEF SameMoney, OrdersOf, PaymentsOf
  <1>8. RemainingPaymentPriceWithDiscount(w, a) = RemainingPaymentPriceWithDiscount(k, a)
    BY <1>7, SameSums
  <1>9. l.activities[a].active /\ ~w.activities[a].active =>
          RemainingPaymentPriceWithDiscount(w, a) <= 0
    BY <1>1, <1>5, <1>8 DEF IsSettled
  <1>10. QED
    BY <1>4, <1>5, <1>6, <1>9 DEF S

\* What a refund n of an amount on activity a leaves: it adds the refund and
\* cancels at most one order, prepaid with that amount; a closed activity stays
\* as it is, and an open one closes only if it is paid for.
IsRefund(l, w, a, n, amount, S) ==
    /\ S = {} \/ \E o \in OrderedOrders(l, a) :
         S = {o} /\ l.orders[o].type = "PREPAID" /\ l.orders[o].price = amount
    /\ w.orders = CancelOrders(l.orders, S)
    /\ DOMAIN w.payments = DOMAIN l.payments \cup {n} /\ n \notin DOMAIN l.payments
    /\ w.payments[n].activity = a /\ w.payments[n].state = "CANCEL"
    /\ w.payments[n].amount = amount
    /\ \A q \in DOMAIN l.payments : /\ w.payments[q].activity = l.payments[q].activity
                                    /\ w.payments[q].state = l.payments[q].state
                                    /\ w.payments[q].amount = l.payments[q].amount
    /\ ~l.activities[a].active => w.activities[a] = l.activities[a]
    /\ l.activities[a].active /\ ~w.activities[a].active =>
         RemainingPaymentPriceWithDiscount(w, a) <= 0

Refunded(l, w, a, n, amount) == \E S : IsRefund(l, w, a, n, amount, S)

LEMMA PaymentCanceledRows ==
  ASSUME NEW l, NEW k \in Nat, Serial(l, k), NEW p, CanCancelPayment(l, p),
         NEW n \in Nat, Latest(l, n), NEW no \in ApprovalNos,
         NEW a, a = l.payments[p].activity, NEW w, w = PaymentCanceled(l, p, n, no)
  PROVE  Refunded(l, w, a, n, l.payments[p].amount)
  <1> DEFINE approved == l.payments[p]
             refund == [activity |-> a, state |-> "CANCEL", amount |-> approved.amount,
                        approvalNo |-> IF approved.approvalNo = Cash THEN Cash ELSE no,
                        cancellable |-> FALSE, refunds |-> p]
  <1>1. /\ p \in DOMAIN l.payments /\ approved \in Payment /\ a \in DOMAIN l.activities
        /\ n \notin DOMAIN l.payments
        /\ l.activities \in [DOMAIN l.activities -> Activity]
        /\ DOMAIN l.orders \subseteq Nat
    BY DEF CanCancelPayment, Serial, IsLedger, Latest
  <1>2. PICK pays \in [DOMAIN l.payments -> Payment] :
           /\ Uncancellable(l, p) =
                [activities |-> l.activities, orders |-> l.orders, payments |-> pays]
           /\ pays[p].state = l.payments[p].state
           /\ pays[p].activity = l.payments[p].activity
           /\ pays[p].amount = l.payments[p].amount
           /\ ~pays[p].cancellable
           /\ \A q \in DOMAIN l.payments \ {p} : pays[q] = l.payments[q]
    BY <1>1, UncancellablePays
  <1> DEFINE final == WithRow(pays, n, refund)
             m == [activities |-> l.activities, orders |-> l.orders, payments |-> final]
  <1>3. WithPayment(Uncancellable(l, p), n, refund) = m
    <2> HIDE DEF refund
    <2> QED BY <1>2 DEF WithPayment
  <1>4. refund.activity = a /\ refund.state = "CANCEL" /\ refund.amount = approved.amount
    OBVIOUS
  <1>5. w = AddPayment(m, a, n, Sorted(m))
    BY <1>3 DEF PaymentCanceled
  <1> HIDE DEF refund
  <1>6. /\ DOMAIN final = DOMAIN l.payments \cup {n}
        /\ final[n] = refund
        /\ \A q \in DOMAIN l.payments : final[q] = pays[q]
    BY <1>1, <1>2 DEF WithRow
  <1>7. /\ m = [activities |-> m.activities, orders |-> m.orders, payments |-> m.payments]
        /\ m.activities = l.activities /\ m.orders = l.orders /\ m.payments = final
        /\ OrderedOrders(m, a) = OrderedOrders(l, a)
    BY DEF OrderedOrders, OrdersOf
  <1> HIDE DEF final, m
  <1> DEFINE S == RevokedOrders(m, a, n, Sorted(m))
  <1>12. PICK D, own : D = DOMAIN l.activities /\ own = Sorted(m)
    OBVIOUS
  <1>13. HasRows(m, D) /\ a \in D /\ w = AddPayment(m, a, n, own)
    BY <1>1, <1>5, <1>7, <1>12 DEF HasRows
  <1>8. /\ ~l.activities[a].active => w.activities[a] = l.activities[a]
        /\ w.orders = CancelOrders(l.orders, S)
        /\ w.payments = final
        /\ l.activities[a].active /\ ~w.activities[a].active =>
             RemainingPaymentPriceWithDiscount(w, a) <= 0
    <2>1. /\ ~m.activities[a].active => w.activities[a] = m.activities[a]
          /\ w.orders = CancelOrders(m.orders, RevokedOrders(m, a, n, own))
          /\ w.payments = m.payments
          /\ m.activities[a].active /\ ~w.activities[a].active =>
               RemainingPaymentPriceWithDiscount(w, a) <= 0
      BY <1>13, AddPaymentRows
    <2>2. QED
      BY <1>7, <1>12, <2>1
  <1>9. \/ S = {}
        \/ \E o \in OrderedOrders(l, a) :
             S = {o} /\ l.orders[o].type = "PREPAID" /\ l.orders[o].price = approved.amount
    BY <1>1, <1>4, <1>6, <1>7, RevokedIsPaid
  <1> HIDE DEF S
  <1>10. \A q \in DOMAIN l.payments : /\ w.payments[q].activity = l.payments[q].activity
                                      /\ w.payments[q].state = l.payments[q].state
                                      /\ w.payments[q].amount = l.payments[q].amount
    BY <1>2, <1>6, <1>8
  <1>11. QED
    BY <1>1, <1>4, <1>6, <1>8, <1>9, <1>10 DEF IsRefund, Refunded

\* A refund leaves one activity with the orders it had, less the revoked one,
\* and owed its amount again, less the price of that order.
LEMMA RefundMoney ==
  ASSUME NEW l, NEW k \in Nat, IsLedger(l, k), NEW a, NEW w, NEW n, NEW amount \in Amounts,
         NEW S, IsRefund(l, w, a, n, amount, S)
  PROVE  /\ OrdersOf(w, a) = OrdersOf(l, a)
         /\ OrderedOrders(w, a) = OrderedOrders(l, a) \ S
         /\ OrderSum(l, a) \in Int /\ PaymentSum(l, a) \in Int
         /\ OrderSum(w, a) = IF S = {} THEN OrderSum(l, a) ELSE OrderSum(l, a) - amount
         /\ PaymentSum(w, a) = PaymentSum(l, a) - amount
  <1> DEFINE f == [o \in OrderedOrders(l, a) |-> l.orders[o].price]
             g == [o \in OrderedOrders(w, a) |-> w.orders[o].price]
             h == [q \in PaymentsOf(l, a) |-> PaymentPrice(l.payments[q])]
             j == [q \in PaymentsOf(w, a) |-> PaymentPrice(w.payments[q])]
  <1>1. /\ l.orders \in [DOMAIN l.orders -> Order]
        /\ l.payments \in [DOMAIN l.payments -> Payment]
        /\ amount \in Int
        /\ IsFiniteSet(1 .. k)
        /\ DOMAIN l.orders \subseteq 1 .. k /\ DOMAIN l.payments \subseteq 1 .. k
    <2>1. 1 \in Int /\ k \in Int /\ amount \in Int
      BY LedgerAssumption
    <2>2. IsFiniteSet(1 .. k)
      BY <2>1, FS_Interval
    <2>3. QED
      BY <2>1, <2>2 DEF IsLedger
  <1>2. /\ DOMAIN w.orders = DOMAIN l.orders
        /\ \A o \in DOMAIN l.orders : /\ w.orders[o].activity = l.orders[o].activity
                                      /\ w.orders[o].price = l.orders[o].price
                                      /\ o \in S => w.orders[o].state = "CANCEL"
                                      /\ o \notin S => w.orders[o] = l.orders[o]
    BY <1>1 DEF IsRefund, CancelOrders, Order
  <1>3. OrdersOf(w, a) = OrdersOf(l, a) /\ OrderedOrders(w, a) = OrderedOrders(l, a) \ S
    BY <1>2 DEF OrdersOf, OrderedOrders
  <1>4. f \in [OrderedOrders(l, a) -> Int] /\ IsFiniteSet(OrderedOrders(l, a))
    <2>1. OrderedOrders(l, a) \subseteq DOMAIN l.orders
      BY DEF OrderedOrders, OrdersOf
    <2>2. IsFiniteSet(OrderedOrders(l, a))
      BY <1>1, <2>1, FS_Subset
    <2>3. \A o \in DOMAIN l.orders : l.orders[o].price \in Int
      BY <1>1, LedgerAssumption DEF Order
    <2>4. QED
      BY <2>1, <2>2, <2>3
  <1>5. SumOf(f) \in Int /\ \A o \in DOMAIN f : SumOf(f) = f[o] + SumOf([y \in DOMAIN f \ {o} |-> f[y]])
    <2> HIDE DEF f
    <2>1. f \in [DOMAIN f -> Int] /\ IsFiniteSet(DOMAIN f)
      BY <1>4
    <2>2. QED
      BY <2>1, SumInsert
  <1>6. SumOf(g) = IF S = {} THEN SumOf(f) ELSE SumOf(f) - amount
    <2>1. CASE S = {}
      <3>1. g = f
        BY <1>2, <1>3, <2>1 DEF OrderedOrders, OrdersOf
      <3>2. QED
        BY <2>1, <3>1
    <2>2. ASSUME NEW o \in OrderedOrders(l, a), S = {o}, l.orders[o].price = amount
          PROVE  SumOf(g) = SumOf(f) - amount
      <3>1. g = [y \in DOMAIN f \ {o} |-> f[y]]
        BY <1>2, <1>3, <2>2 DEF OrderedOrders, OrdersOf
      <3>2. SumOf(f) = amount + SumOf(g)
        BY <1>5, <2>2, <3>1
      <3>3. SumOf(g) \in Int
        <4>1. g \in [DOMAIN f \ {o} -> Int] /\ IsFiniteSet(DOMAIN f \ {o})
          BY <1>4, <3>1, FS_Subset
        <4> HIDE DEF f, g
        <4>2. g \in [DOMAIN g -> Int] /\ IsFiniteSet(DOMAIN g)
          BY <4>1
        <4>3. QED
          BY <4>2, SumInsert
      <3> HIDE DEF f, g
      <3>4. QED
        BY <1>1, <1>5, <3>2, <3>3
    <2>3. S # {} => \E o \in OrderedOrders(l, a) : S = {o} /\ l.orders[o].price = amount
      BY DEF IsRefund
    <2> HIDE DEF f, g
    <2>4. QED
      BY <2>1, <2>2, <2>3
  <1>7. PaymentsOf(w, a) = PaymentsOf(l, a) \cup {n} /\ n \notin PaymentsOf(l, a)
    BY DEF IsRefund, PaymentsOf
  <1>8. /\ j \in [PaymentsOf(w, a) -> Int] /\ IsFiniteSet(PaymentsOf(w, a))
        /\ h \in [PaymentsOf(l, a) -> Int] /\ IsFiniteSet(PaymentsOf(l, a))
        /\ \A q \in PaymentsOf(l, a) : j[q] = h[q]
        /\ j[n] = -amount
    <2>1. PaymentsOf(l, a) \subseteq DOMAIN l.payments
      BY DEF PaymentsOf
    <2>2. IsFiniteSet(PaymentsOf(l, a)) /\ IsFiniteSet(PaymentsOf(w, a))
      BY <1>1, <1>7, <2>1, FS_Subset, FS_AddElement
    <2>3. \A q \in DOMAIN l.payments :
            /\ PaymentPrice(w.payments[q]) = PaymentPrice(l.payments[q])
            /\ PaymentPrice(l.payments[q]) \in Int
      <3> SUFFICES ASSUME NEW q \in DOMAIN l.payments
                   PROVE  /\ PaymentPrice(w.payments[q]) = PaymentPrice(l.payments[q])
                          /\ PaymentPrice(l.payments[q]) \in Int
        OBVIOUS
      <3>1. l.payments[q].amount \in Int
        BY <1>1, LedgerAssumption DEF Payment
      <3>2. QED
        BY <3>1 DEF IsRefund, PaymentPrice
    <2>4. PaymentPrice(w.payments[n]) = -amount
      BY DEF IsRefund, PaymentPrice
    <2>5. -amount \in Int
      BY <1>1
    <2>6. QED
      BY <1>7, <2>1, <2>2, <2>3, <2>4, <2>5
  <1>9. SumOf(h) \in Int /\ SumOf(j) = j[n] + SumOf(h)
    <2>1. n \in DOMAIN j /\ [y \in DOMAIN j \ {n} |-> j[y]] = h
      BY <1>7, <1>8
    <2> HIDE DEF h, j
    <2>2. /\ j \in [DOMAIN j -> Int] /\ IsFiniteSet(DOMAIN j)
          /\ h \in [DOMAIN h -> Int] /\ IsFiniteSet(DOMAIN h)
      BY <1>8
    <2>3. SumOf(h) \in Int
      BY <2>2, SumInsert
    <2>4. \A x \in DOMAIN j : SumOf(j) = j[x] + SumOf([y \in DOMAIN j \ {x} |-> j[y]])
      BY <2>2, SumInsert
    <2>5. QED
      BY <2>1, <2>3, <2>4
  <1> HIDE DEF f, g, h, j
  <1>10. SumOf(j) = SumOf(h) - amount
    BY <1>1, <1>8, <1>9
  <1>11. QED
    BY <1>3, <1>5, <1>6, <1>9, <1>10 DEF OrderSum, PaymentSum, f, g, h, j

\* An activity without payments gives none to replay.
LEMMA NothingReplayed ==
  ASSUME NEW l, NEW a, NEW b, PaymentsOf(l, a) = {}
  PROVE  ReplayPayments(l, a, b) =
           [l EXCEPT !.activities[b].discount =
                       AsLong(l.activities[b].discount + l.activities[a].discount),
                     !.orders = Reassign(l.orders, a, b)]
  <1> DEFINE own == Sorted(l) \ (OrdersOf(l, a) \cup PaymentsOf(l, a))
             joined == [l EXCEPT
                 !.activities[b].discount =
                     AsLong(l.activities[b].discount + l.activities[a].discount),
                 !.orders = Reassign(l.orders, a, b)]
             Take(n, m) == AddPayment([m EXCEPT !.payments[n].activity = b], b, n, own)
  <1>1. ReplayPayments(l, a, b) = MapThenFoldSet(Take, joined, LAMBDA n : n, Max, {})
    BY DEF ReplayPayments
  <1> HIDE DEF joined, Take
  <1> DEFINE Body(g) == [s \in SUBSET {} |-> IF s = {} THEN joined
                           ELSE LET x == Max(s) IN Take(x, g[s \ {x}])]
  <1>2. MapThenFoldSet(Take, joined, LAMBDA n : n, Max, {}) =
          (CHOOSE g : g = Body(g))[{}]
    BY DEF MapThenFoldSet
  <1>3. [s \in {{}} |-> joined] = Body([s \in {{}} |-> joined])
    OBVIOUS
  <1>4. (CHOOSE g : g = Body(g)) = Body(CHOOSE g : g = Body(g))
    <2> HIDE DEF Body
    <2>1. QED
      BY <1>3
  <1>5. \A g : Body(g)[{}] = joined
    OBVIOUS
  <1> HIDE DEF Body
  <1>6. QED
    BY <1>1, <1>2, <1>4, <1>5 DEF joined

\* An approval or a refund of l is on another activity in w.
Takes(l, w) ==
    \E p \in DOMAIN w.payments \cap DOMAIN l.payments :
        w.payments[p].activity # l.payments[p].activity

\* A service that leaves w of l refunds nothing, and an activity it closes with
\* orders standing is paid for, unless it took over the payments of another.
Careful(l, w) ==
    /\ \A r \in DOMAIN w.payments \ DOMAIN l.payments : w.payments[r].state = "APPROVE"
    /\ \A c \in DOMAIN w.activities \cap DOMAIN l.activities :
         /\ l.activities[c].active /\ ~w.activities[c].active
         /\ HasOrderedOrder(w, c) /\ ~Takes(l, w)
         => RemainingPaymentPriceWithDiscount(w, c) <= 0

\* It is careful if it is careful with what it loaded.
LEMMA LoadedCareful ==
  ASSUME NEW l, NEW S, NEW w, DOMAIN w.activities \subseteq S, Careful(Loaded(l, S), w),
         NEW N, NEW K, Fits(l, w, N, K)
  PROVE  Careful(l, w)
  <1> DEFINE g == Loaded(l, S)
  <1>1. /\ DOMAIN g.activities = DOMAIN l.activities \cap S
        /\ \A c \in DOMAIN l.activities \cap S : g.activities[c] = l.activities[c]
        /\ DOMAIN g.payments = {p \in DOMAIN l.payments : l.payments[p].activity \in S}
        /\ \A p \in DOMAIN g.payments : g.payments[p] = l.payments[p]
    BY DEF Loaded
  <1>2. Careful(g, w)
    OBVIOUS
  <1> HIDE DEF g
  <1>3. Takes(g, w) => Takes(l, w)
    BY <1>1 DEF Takes
  <1>0. \A p \in DOMAIN l.payments : p \in DOMAIN w.payments => l.payments[p].activity \in S
    BY DEF Fits
  <1>4. \A r \in DOMAIN w.payments \ DOMAIN l.payments : w.payments[r].state = "APPROVE"
    BY <1>0, <1>1, <1>2 DEF Careful
  <1>5. ASSUME NEW c \in DOMAIN w.activities \cap DOMAIN l.activities,
               l.activities[c].active, ~w.activities[c].active,
               HasOrderedOrder(w, c), ~Takes(l, w)
        PROVE  RemainingPaymentPriceWithDiscount(w, c) <= 0
    BY <1>1, <1>2, <1>3, <1>5 DEF Careful
  <1>6. QED
    BY <1>4, <1>5 DEF Careful

\* What records no payment and closes nothing is careful.
LEMMA OpenCareful ==
  ASSUME NEW l, NEW w, w.payments = l.payments,
         \A c \in DOMAIN w.activities \cap DOMAIN l.activities :
           l.activities[c].active => w.activities[c].active
  PROVE  Careful(l, w)
  BY DEF Careful

LEMMA OrderCreatedCareful ==
  ASSUME NEW l, NEW k, IsLedger(l, k), NEW t, NEW a, NEW n, NEW type, NEW price
  PROVE  Careful(l, OrderCreated(l, t, a, n, type, price))
  <1> DEFINE w == OrderCreated(l, t, a, n, type, price)
             m == WithActivity(l, t, a)
  <1>1. /\ m.payments = l.payments
        /\ \A c \in DOMAIN m.activities \cap DOMAIN l.activities :
             m.activities[c] = l.activities[c]
        /\ m = [activities |-> m.activities, orders |-> m.orders, payments |-> m.payments]
    BY DEF WithActivity, IsLedger, WithRow
  <1> HIDE DEF m
  <1>2. PICK ords : w = [m EXCEPT !.orders = ords]
    BY DEF OrderCreated, m
  <1>3. w.activities = m.activities /\ w.payments = m.payments
    BY <1>1, <1>2
  <1> HIDE DEF w
  <1>4. QED
    BY <1>1, <1>3, OpenCareful DEF w

LEMMA PaymentApprovedCareful ==
  ASSUME NEW l, NEW k \in Nat, Serial(l, k), NEW t \in Tables, NEW a \in 1 .. k,
         a \notin DOMAIN l.activities => ActiveActivities(l, t) = {},
         NEW n, NEW amount, NEW no
  PROVE  Careful(l, PaymentApproved(l, t, a, n, amount, no))
  <1> DEFINE w == PaymentApproved(l, t, a, n, amount, no)
             v == WithActivity(l, t, a)
             payment == [activity |-> a, state |-> "APPROVE", amount |-> amount,
                         approvalNo |-> no, cancellable |-> TRUE, refunds |-> 0]
             m == WithPayment(v, n, payment)
  <1>1. /\ Serial(v, k) /\ a \in DOMAIN v.activities /\ v.payments = l.payments
        /\ DOMAIN v.activities = DOMAIN l.activities \cup {a}
    BY WithActivitySerial
  <1>2. \A c \in DOMAIN l.activities : v.activities[c] = l.activities[c]
    BY DEF WithActivity, WithRow, Serial, IsLedger
  <1>3. payment.state = "APPROVE"
    OBVIOUS
  <1> HIDE DEF v, payment
  <1>4. HasRows(v, DOMAIN v.activities)
    BY <1>1 DEF Serial, IsLedger, HasRows
  <1>5. /\ HasRows(m, DOMAIN v.activities) /\ m.activities = v.activities
        /\ DOMAIN m.payments = DOMAIN l.payments \cup {n}
        /\ m.payments[n].state = "APPROVE"
        /\ \A q \in DOMAIN l.payments \ {n} : m.payments[q] = l.payments[q]
    BY <1>1, <1>3, <1>4 DEF WithPayment, WithRow, HasRows
  <1> HIDE DEF m
  <1>6. PICK own : w = AddPayment(m, a, n, own)
    BY DEF PaymentApproved, m, v, payment
  <1> HIDE DEF w
  <1>7. /\ DOMAIN w.activities = DOMAIN v.activities
        /\ \A c \in DOMAIN v.activities \ {a} : w.activities[c] = m.activities[c]
        /\ w.payments = m.payments
        /\ m.activities[a].active /\ ~w.activities[a].active =>
             RemainingPaymentPriceWithDiscount(w, a) <= 0
    BY <1>1, <1>5, <1>6, AddPaymentRows
  <1>8. Careful(l, w)
    BY <1>1, <1>2, <1>5, <1>7 DEF Careful
  <1>9. QED
    BY <1>8 DEF w

\* PosTableActivity.setDiscountPrice closes nothing.
LEMMA ClampDiscountRows ==
  ASSUME NEW l, NEW k, IsLedger(l, k), NEW a \in DOMAIN l.activities, NEW d
  PROVE  /\ ClampDiscount(l, a, d).orders = l.orders
         /\ ClampDiscount(l, a, d).payments = l.payments
         /\ DOMAIN ClampDiscount(l, a, d).activities = DOMAIN l.activities
         /\ \A c \in DOMAIN l.activities :
              ClampDiscount(l, a, d).activities[c].active <=> l.activities[c].active
  <1> DEFINE z == AsLong(Min({d, RemainingPaymentPrice(l, a)}))
             w == ClampDiscount(l, a, d)
  <1>1. w = [l EXCEPT !.activities[a].discount = z]
    BY DEF ClampDiscount
  <1> HIDE DEF z, w
  <1>2. /\ w.activities = [l.activities EXCEPT ![a].discount = z]
        /\ w.orders = l.orders /\ w.payments = l.payments
    BY <1>1 DEF IsLedger
  <1>3. QED
    BY <1>2 DEF IsLedger, Activity, w

\* PosTableActivity.tryInactivate closes what has no orders standing.
LEMMA TryInactivateRows ==
  ASSUME NEW l, NEW k, IsLedger(l, k), NEW a \in DOMAIN l.activities
  PROVE  /\ TryInactivate(l, a).orders = l.orders
         /\ TryInactivate(l, a).payments = l.payments
         /\ DOMAIN TryInactivate(l, a).activities = DOMAIN l.activities
         /\ \A c \in DOMAIN l.activities :
              TryInactivate(l, a).activities[c].active <=>
                l.activities[c].active /\ (c = a => HasOrderedOrder(l, a))
  <1> DEFINE x == l.activities[a].active /\ HasOrderedOrder(l, a)
             w == TryInactivate(l, a)
  <1>1. x \in BOOLEAN /\ (x <=> l.activities[a].active /\ HasOrderedOrder(l, a))
    OBVIOUS
  <1>2. w = [l EXCEPT !.activities[a].active = x]
    BY DEF TryInactivate
  <1> HIDE DEF x, w
  <1>3. /\ w.activities = [l.activities EXCEPT ![a].active = x]
        /\ w.orders = l.orders /\ w.payments = l.payments
    BY <1>2 DEF IsLedger
  <1>4. QED
    BY <1>1, <1>3 DEF IsLedger, Activity, w

\* What every update and cancellation of an order ends with: activity a closes
\* if it has no order standing.
Reckoned(l, w, a) ==
    /\ w.payments = l.payments
    /\ DOMAIN w.activities = DOMAIN l.activities
    /\ \A c \in DOMAIN l.activities :
         w.activities[c].active <=> l.activities[c].active /\ (c = a => HasOrderedOrder(w, a))

LEMMA ReckonedRows ==
  ASSUME NEW l, NEW k \in Nat, Serial(l, k), NEW a \in DOMAIN l.activities, NEW d,
         NEW ords, ords \in [DOMAIN l.orders -> Order],
         \A o \in DOMAIN ords : ords[o].activity = l.orders[o].activity
  PROVE  Reckoned(l, TryInactivate(ClampDiscount([l EXCEPT !.orders = ords], a, d), a), a)
  <1> DEFINE m == [l EXCEPT !.orders = ords]
             v == ClampDiscount(m, a, d)
             w == TryInactivate(v, a)
  <1>1. Serial(m, k) /\ m.activities = l.activities
    BY OrdersReplacedSerial
  <1>2. m.payments = l.payments
    BY DEF Serial, IsLedger
  <1> HIDE DEF m
  <1>3. /\ IsLedger(v, k) /\ v.payments = l.payments /\ DOMAIN v.activities = DOMAIN l.activities
        /\ \A c \in DOMAIN l.activities : v.activities[c].active <=> l.activities[c].active
    BY <1>1, <1>2, ClampDiscountRows, ClampDiscountSerial DEF Serial
  <1> HIDE DEF v
  <1>4. /\ w.orders = v.orders /\ w.payments = v.payments
        /\ DOMAIN w.activities = DOMAIN v.activities
        /\ \A c \in DOMAIN v.activities :
             w.activities[c].active <=>
               v.activities[c].active /\ (c = a => HasOrderedOrder(v, a))
    BY <1>3, TryInactivateRows
  <1> HIDE DEF w
  <1>5. HasOrderedOrder(w, a) <=> HasOrderedOrder(v, a)
    BY <1>4 DEF HasOrderedOrder, OrderedOrders, OrdersOf
  <1>6. QED
    BY <1>3, <1>4, <1>5 DEF Reckoned, m, v, w

LEMMA ReckonedCareful ==
  ASSUME NEW l, NEW w, NEW a, Reckoned(l, w, a)
  PROVE  Careful(l, w)
  BY DEF Reckoned, Careful

\* Canceling an order, and updating one, end with the reckoning.
LEMMA OrderCanceledReckoned ==
  ASSUME NEW l, NEW k \in Nat, Serial(l, k), NEW a \in DOMAIN l.activities, NEW o
  PROVE  Reckoned(l, OrderCanceled(l, a, o), a)
  <1>1. PICK ords : ords = CancelOrders(l.orders, {o})
    OBVIOUS
  <1>2. /\ ords \in [DOMAIN l.orders -> Order]
        /\ \A x \in DOMAIN ords : ords[x].activity = l.orders[x].activity
    BY <1>1, CancelOrdersType DEF Serial, IsLedger
  <1>3. OrderCanceled(l, a, o) =
          TryInactivate(ClampDiscount([l EXCEPT !.orders = ords], a, l.activities[a].discount), a)
    BY <1>1 DEF OrderCanceled
  <1>4. QED
    BY <1>2, <1>3, ReckonedRows

LEMMA OrderUpdatedReckoned ==
  ASSUME NEW l, NEW k \in Nat, Serial(l, k), NEW a \in DOMAIN l.activities,
         NEW o \in DOMAIN l.orders, NEW price \in Prices \cup {Emptied}
  PROVE  Reckoned(l, OrderUpdated(l, a, o, price), a)
  <1> DEFINE order == IF price = Emptied
                        THEN [l.orders[o] EXCEPT !.price = 0, !.state = "CANCEL"]
                        ELSE [l.orders[o] EXCEPT !.price = price]
             ords == [l.orders EXCEPT ![o] = order]
             m == [l EXCEPT !.orders = ords]
  <1>1. l.orders \in [DOMAIN l.orders -> Order]
    BY DEF Serial, IsLedger
  <1>2. order \in Order /\ order.activity = l.orders[o].activity
    BY <1>1, LedgerAssumption DEF Order
  <1> HIDE DEF order
  <1>3. /\ ords \in [DOMAIN l.orders -> Order]
        /\ \A x \in DOMAIN ords : ords[x].activity = l.orders[x].activity
    BY <1>1, <1>2
  <1>4. OrderUpdated(l, a, o, price) =
          TryInactivate(ClampDiscount(m, a, l.activities[a].discount), a)
    <2>1. m = [l EXCEPT !.orders[o] = order]
      OBVIOUS
    <2>2. QED
      BY <2>1 DEF OrderUpdated, order
  <1> HIDE DEF ords
  <1>5. QED
    BY <1>3, <1>4, ReckonedRows

\* So does updating two, one after the other.
LEMMA ReckonedTwice ==
  ASSUME NEW l, NEW v, NEW w, NEW a, Reckoned(l, v, a), HasOrderedOrder(v, a), Reckoned(v, w, a)
  PROVE  Reckoned(l, w, a)
  BY DEF Reckoned

\* PosTable.complete closes what has been paid for.
LEMMA CompletedCareful ==
  ASSUME NEW l, NEW k, IsLedger(l, k), NEW a \in DOMAIN l.activities, CanComplete(l, a)
  PROVE  Careful(l, Completed(l, a))
  <1> DEFINE x == FALSE
             w == Completed(l, a)
  <1>1. w = [l EXCEPT !.activities[a].active = x]
    BY DEF Completed
  <1> HIDE DEF x, w
  <1>2. /\ w.activities = [l.activities EXCEPT ![a].active = x]
        /\ w.orders = l.orders /\ w.payments = l.payments
    BY <1>1 DEF IsLedger
  <1>3. /\ w.activities[a].discount = l.activities[a].discount
        /\ \A c \in DOMAIN l.activities \ {a} : w.activities[c] = l.activities[c]
        /\ DOMAIN w.activities = DOMAIN l.activities
    BY <1>2 DEF IsLedger, Activity
  <1>4. SameMoney(l, w, a)
    BY <1>2 DEF SameMoney, OrdersOf, PaymentsOf
  <1>5. RemainingPaymentPriceWithDiscount(w, a) <= 0
    BY <1>3, <1>4, SameSums DEF CanComplete
  <1>6. QED
    BY <1>2, <1>3, <1>5 DEF Careful, w

LEMMA MovedCareful ==
  ASSUME NEW l, NEW k, IsLedger(l, k), NEW a \in DOMAIN l.activities, NEW t
  PROVE  Careful(l, Moved(l, a, t))
  <1> DEFINE w == Moved(l, a, t)
  <1>1. w = [l EXCEPT !.activities[a].table = t]
    BY DEF Moved
  <1> HIDE DEF w
  <1>2. /\ w.activities = [l.activities EXCEPT ![a].table = t]
        /\ w.payments = l.payments
    BY <1>1 DEF IsLedger
  <1>3. \A c \in DOMAIN l.activities : w.activities[c].active <=> l.activities[c].active
    BY <1>2 DEF IsLedger, Activity
  <1>4. QED
    BY <1>2, <1>3, OpenCareful DEF w

\* A merge that has no payments to take leaves the target open, and the source
\* without orders.
LEMMA MergedCareful ==
  ASSUME NEW l, NEW n \in Nat, Serial(l, n), NEW a \in DOMAIN l.activities,
         NEW b \in DOMAIN l.activities, a # b
  PROVE  Careful(l, Merged(l, a, b))
  <1> DEFINE w == Merged(l, a, b)
             replayed == ReplayPayments(l, a, b)
             revoked == {o \in DOMAIN l.orders : replayed.orders[o].state = "CANCEL"}
             x == l.activities[b].active /\ replayed.activities[b].active
             z == AsLong(l.activities[b].discount + l.activities[a].discount)
             moved == Reassign(l.orders, a, b)
             acts == [l.activities EXCEPT
                        ![a].discount = 0, ![a].active = FALSE,
                        ![b].discount = z, ![b].active = x]
             ords == CancelOrders(moved, revoked)
             pays == Reassign(l.payments, a, b)
  <1>1. /\ l = [activities |-> l.activities, orders |-> l.orders, payments |-> l.payments]
        /\ l.activities \in [DOMAIN l.activities -> Activity]
        /\ l.orders \in [DOMAIN l.orders -> Order]
        /\ l.payments \in [DOMAIN l.payments -> Payment]
        /\ b \in Nat
    BY DEF Serial, IsLedger
  <1>2. w = [activities |-> acts, orders |-> ords, payments |-> pays]
    <2>1. w = [l EXCEPT !.activities = acts, !.orders = ords, !.payments = pays]
      BY DEF Merged
    <2> HIDE DEF acts, ords, pays, w
    <2>2. QED
      BY <1>1, <2>1
  <1>3. /\ DOMAIN acts = DOMAIN l.activities
        /\ \A c \in DOMAIN acts \ {a, b} : acts[c] = l.activities[c]
        /\ acts[b].active <=> x
    <2>1. x \in BOOLEAN
      OBVIOUS
    <2> HIDE DEF x, z
    <2>2. QED
      BY <1>1, <2>1 DEF Activity
  <1>4. DOMAIN pays = DOMAIN l.payments
        /\ \A p \in PaymentsOf(l, a) : pays[p].activity = b
    BY <1>1, ReassignPayments DEF PaymentsOf
  <1>5. OrdersOf(w, a) = {}
    <2>1. /\ moved \in [DOMAIN l.orders -> Order]
          /\ \A o \in DOMAIN l.orders : moved[o].activity # a
      BY <1>1, ReassignOrders
    <2> HIDE DEF moved, revoked, w, pays, acts
    <2>2. /\ DOMAIN ords = DOMAIN l.orders
          /\ \A o \in DOMAIN l.orders : ords[o].activity # a
      BY <2>1, CancelOrdersType
    <2>3. QED
      BY <1>2, <2>2 DEF OrdersOf
  <1>6. PaymentsOf(l, a) = {} => (x <=> l.activities[b].active)
    <2> SUFFICES ASSUME PaymentsOf(l, a) = {} PROVE x <=> l.activities[b].active
      OBVIOUS
    <2>1. replayed = [l EXCEPT !.activities[b].discount = z, !.orders = moved]
      BY NothingReplayed
    <2> HIDE DEF replayed, z, moved
    <2>2. replayed.activities = [l.activities EXCEPT ![b].discount = z]
      BY <1>1, <2>1
    <2>3. QED
      BY <1>1, <2>2 DEF Activity
  <1> HIDE DEF acts, ords, pays, x, w
  <1>7. PaymentsOf(l, a) # {} => Takes(l, w)
    BY <1>2, <1>4 DEF Takes, PaymentsOf
  <1>8. ~HasOrderedOrder(w, a)
    BY <1>5 DEF HasOrderedOrder, OrderedOrders
  <1>9. w.payments = pays /\ w.activities = acts
    BY <1>2
  <1>10. Careful(l, w)
    BY <1>3, <1>4, <1>6, <1>7, <1>8, <1>9 DEF Careful
  <1>11. QED
    BY <1>10 DEF w

-----------------------------------------------------------------------------
(* The changes of the services.                                            *)

\* A service changes activities that are open at tables of K, if not new ones.
OnOpen(l, w, K) ==
    \A c \in DOMAIN w.activities \cap DOMAIN l.activities :
        l.activities[c].active /\ l.activities[c].table \in K

\* What a service with its lock keys on the tables K leaves of what it loaded.
Change(l, w, n, N, K) ==
    Serial(w, n) /\ Fits(l, w, N, K) /\ OnOpen(l, w, K) /\ Careful(l, w)

\* A ledger after one change, numbered further.
LEMMA ChangeSerial ==
  ASSUME NEW l, NEW n \in Nat, Serial(l, n), NEW w, NEW N, NEW K, Change(l, w, n, N, K)
  PROVE  Serial(Saved(l, w), n)
  BY SavedSerial DEF Change

\* What keeps the rows of activities S fits.
LEMMA KeptFits ==
  ASSUME NEW l, NEW n \in Nat, Serial(l, n), NEW S \in SUBSET DOMAIN l.activities,
         NEW w, NEW N, Keeps(Loaded(l, S), w, N), \A x \in N : Fresh(l, x), NEW K,
         \A c \in S : l.activities[c].active => l.activities[c].table \in K
  PROVE  Fits(l, w, N, K)
  <1> DEFINE g == Loaded(l, S)
  <1>0. /\ DOMAIN g.activities = DOMAIN l.activities \cap S
        /\ \A c \in DOMAIN l.activities \cap S : g.activities[c] = l.activities[c]
        /\ DOMAIN g.orders = {o \in DOMAIN l.orders : l.orders[o].activity \in S}
        /\ DOMAIN g.payments = {p \in DOMAIN l.payments : l.payments[p].activity \in S}
    BY LoadedSerial
  <1>1. /\ DOMAIN g.activities = S
        /\ \A c \in S : g.activities[c] = l.activities[c]
    BY <1>0
  <1>2. Keeps(g, w, N)
    OBVIOUS
  <1> HIDE DEF g
  <1>3. DOMAIN w.activities = S
    BY <1>1, <1>2 DEF Keeps
  <1>4. /\ \A o \in DOMAIN l.orders : o \in DOMAIN w.orders <=> l.orders[o].activity \in S
        /\ \A p \in DOMAIN l.payments :
             p \in DOMAIN w.payments <=> l.payments[p].activity \in S
    BY <1>0, <1>2 DEF Keeps, Fresh
  <1>5. ASSUME NEW c \in S, w.activities[c].active
        PROVE  /\ w.activities[c].table \in K
               /\ ActiveActivities(l, w.activities[c].table) \subseteq S
    <2>1. l.activities[c].active /\ w.activities[c].table = l.activities[c].table
      BY <1>1, <1>2, <1>3, <1>5 DEF Keeps
    <2>2. \A d \in ActiveActivities(l, l.activities[c].table) : d = c
      BY <2>1 DEF ActiveActivities, Serial, OneActive
    <2>3. QED
      BY <2>1, <2>2
  <1>6. /\ DOMAIN w.activities \subseteq DOMAIN l.activities \cup N
        /\ DOMAIN w.orders \subseteq DOMAIN l.orders \cup N
        /\ DOMAIN w.payments \subseteq DOMAIN l.payments \cup N
    BY <1>0, <1>2, <1>3 DEF Keeps
  <1>7. QED
    BY <1>3, <1>4, <1>5, <1>6 DEF Fits

\* w keeps the rows of activity a, found or opened for table t.
Opened(l, t, m, a, w) ==
    Keeps(WithActivity(Loaded(l, {a}), t, a), w, {m}) /\ Careful(Loaded(l, {a}), w)

\* So does what keeps the rows of the activity of a table found or opened.
LEMMA OpenedFits ==
  ASSUME NEW l, NEW n \in Nat, Serial(l, n), NEW t \in Tables, NEW m \in 1 .. n, Fresh(l, m),
         NEW a \in FindOrCreate(l, t, m), NEW w, Opened(l, t, m, a, w)
  PROVE  Fits(l, w, {m}, {t}) /\ OnOpen(l, w, {t}) /\ DOMAIN w.activities = {a}
  <1> DEFINE g == Loaded(l, {a})
  <1>1. /\ Serial(g, n)
        /\ DOMAIN g.activities = DOMAIN l.activities \cap {a}
        /\ DOMAIN g.orders = {o \in DOMAIN l.orders : l.orders[o].activity = a}
        /\ DOMAIN g.payments = {p \in DOMAIN l.payments : l.payments[p].activity = a}
    BY LoadedSerial
  <1>2. CASE a \in DOMAIN l.activities
    <2>1. l.activities[a].active /\ l.activities[a].table = t
      BY <1>2 DEF FindOrCreate, ActiveActivities, Fresh
    <2>2. Keeps(Loaded(l, {a}), w, {m})
      BY <1>1, <1>2 DEF Opened, WithActivity
    <2>3. {a} \in SUBSET DOMAIN l.activities
      BY <1>2
    <2>4. Fits(l, w, {m}, {t})
      BY <2>1, <2>2, <2>3, KeptFits
    <2>5. DOMAIN w.activities = {a}
      BY <1>1, <1>2, <2>2 DEF Keeps
    <2>6. QED
      BY <2>1, <2>4, <2>5 DEF OnOpen
  <1>3. CASE a \notin DOMAIN l.activities
    <2>1. a = m /\ ActiveActivities(l, t) = {}
      BY <1>3 DEF FindOrCreate, ActiveActivities
    <2>2. /\ DOMAIN g.activities = {} /\ DOMAIN g.orders = {} /\ DOMAIN g.payments = {}
          /\ \A o \in DOMAIN l.orders : l.orders[o].activity # a
          /\ \A p \in DOMAIN l.payments : l.payments[p].activity # a
      BY <1>1, <1>3 DEF Serial, IsLedger
    <2>3. a \in 1 .. n /\ ActiveActivities(g, t) = {}
      BY <2>1, <2>2 DEF ActiveActivities
    <2> DEFINE k == WithActivity(g, t, a)
    <2>4. Keeps(k, w, {m})
      BY DEF Opened
    <2> HIDE DEF g
    <2>5. /\ DOMAIN k.activities = {a} /\ k.orders = g.orders /\ k.payments = g.payments
          /\ k.activities[a].table = t
      BY <1>1, <2>2, <2>3, WithActivitySerial
    <2> HIDE DEF k
    <2>6. /\ DOMAIN w.activities = {a}
          /\ DOMAIN w.orders \subseteq {m} /\ DOMAIN w.payments \subseteq {m}
          /\ w.activities[a].active => w.activities[a].table = t
      BY <2>2, <2>4, <2>5 DEF Keeps
    <2>7. Fits(l, w, {m}, {t})
      BY <2>1, <2>2, <2>6 DEF Fits, Fresh
    <2>8. QED
      BY <1>3, <2>6, <2>7 DEF OnOpen
  <1>4. QED
    BY <1>2, <1>3

\* The activity a service loads for a table, found or to be opened.
LEMMA LoadedForTable ==
  ASSUME NEW l, NEW n \in Nat, Serial(l, n), NEW t \in Tables, NEW m \in 1 .. n, Fresh(l, m),
         NEW a \in FindOrCreate(l, t, m)
  PROVE  /\ Serial(Loaded(l, {a}), n) /\ Fresh(Loaded(l, {a}), m)
         /\ a \in 1 .. n
         /\ a \notin DOMAIN Loaded(l, {a}).activities =>
              ActiveActivities(Loaded(l, {a}), t) = {}
  <1>1. /\ Serial(Loaded(l, {a}), n)
        /\ DOMAIN Loaded(l, {a}).activities = DOMAIN l.activities \cap {a}
        /\ DOMAIN Loaded(l, {a}).orders \subseteq DOMAIN l.orders
        /\ DOMAIN Loaded(l, {a}).payments \subseteq DOMAIN l.payments
    BY LoadedSerial
  <1>2. a \in 1 .. n
    BY DEF FindOrCreate, ActiveActivities, Serial, IsLedger
  <1>3. QED
    BY <1>1, <1>2 DEF Fresh, ActiveActivities

\* What keeps the rows of an activity found or opened is a change.
LEMMA OpenedChange ==
  ASSUME NEW l, NEW n \in Nat, Serial(l, n), NEW t \in Tables, NEW m \in 1 .. n, Fresh(l, m),
         NEW a \in FindOrCreate(l, t, m), NEW w, Opened(l, t, m, a, w), Serial(w, n)
  PROVE  Change(l, w, n, {m}, {t})
  <1>1. Fits(l, w, {m}, {t}) /\ OnOpen(l, w, {t}) /\ DOMAIN w.activities = {a}
    BY OpenedFits
  <1>2. Careful(l, w)
    BY <1>1, LoadedCareful DEF Opened
  <1>3. QED
    BY <1>1, <1>2 DEF Change

\* Each service leaves such a change: OrderModifyService.create.
LEMMA CreateChange ==
  ASSUME NEW l, NEW n \in Nat, Serial(l, n), NEW t \in Tables, NEW m \in 1 .. n, Fresh(l, m),
         NEW a \in FindOrCreate(l, t, m), NEW type \in OrderTypes, NEW price \in Prices
  PROVE  Change(l, OrderCreated(Loaded(l, {a}), t, a, m, type, price), n, {m}, {t})
  <1> DEFINE g == Loaded(l, {a})
  <1>1. /\ Serial(g, n) /\ Fresh(g, m) /\ a \in 1 .. n
        /\ a \notin DOMAIN g.activities => ActiveActivities(g, t) = {}
    BY LoadedForTable
  <1> HIDE DEF g
  <1>2. /\ Serial(OrderCreated(g, t, a, m, type, price), n)
        /\ Keeps(WithActivity(g, t, a), OrderCreated(g, t, a, m, type, price), {m})
        /\ Careful(g, OrderCreated(g, t, a, m, type, price))
    BY <1>1, OrderCreatedSerial, OrderCreatedCareful DEF Serial
  <1>3. Opened(l, t, m, a, OrderCreated(g, t, a, m, type, price))
    BY <1>2 DEF Opened, g
  <1>4. QED
    BY <1>2, <1>3, OpenedChange DEF g

\* OrderPaymentModifyService.approve.
LEMMA ApproveChange ==
  ASSUME NEW l, NEW n \in Nat, Serial(l, n), NEW t \in Tables, NEW m \in 1 .. n, Fresh(l, m),
         NEW a \in FindOrCreate(l, t, m), NEW amount \in Amounts,
         NEW no \in ApprovalNos \cup {Cash}
  PROVE  Change(l, PaymentApproved(Loaded(l, {a}), t, a, m, amount, no), n, {m}, {t})
  <1> DEFINE g == Loaded(l, {a})
  <1>1. /\ Serial(g, n) /\ Fresh(g, m) /\ a \in 1 .. n
        /\ a \notin DOMAIN g.activities => ActiveActivities(g, t) = {}
    BY LoadedForTable
  <1> HIDE DEF g
  <1>2. /\ Serial(PaymentApproved(g, t, a, m, amount, no), n)
        /\ Keeps(WithActivity(g, t, a), PaymentApproved(g, t, a, m, amount, no), {m})
        /\ Careful(g, PaymentApproved(g, t, a, m, amount, no))
    BY <1>1, PaymentApprovedSerial, PaymentApprovedCareful
  <1>3. Opened(l, t, m, a, PaymentApproved(g, t, a, m, amount, no))
    BY <1>2 DEF Opened, g
  <1>4. QED
    BY <1>2, <1>3, OpenedChange DEF g

\* A refund numbered m of payment p of activity a, saved as w.
Refunding(l, n, p, m, no, a, w, amount) ==
  /\ Serial(l, n) /\ CanCancelPayment(l, p) /\ Fresh(l, m) /\ Latest(l, m)
  /\ a = l.payments[p].activity /\ amount = l.payments[p].amount
  /\ w = PaymentCanceled(Loaded(l, {a}), p, m, no)

\* OrderPaymentModifyService.cancel, on an activity that may be closed.
LEMMA RefundFits ==
  ASSUME NEW l, NEW n \in Nat, NEW p, NEW m \in 1 .. n, NEW no \in ApprovalNos, NEW a, NEW w,
         NEW amount, Refunding(l, n, p, m, no, a, w, amount)
  PROVE  /\ Serial(w, n) /\ Fits(l, w, {m}, Tables) /\ DOMAIN w.activities = {a}
         /\ Refunded(Loaded(l, {a}), w, a, m, amount)
  <1> DEFINE g == Loaded(l, {a})
  <1>a. /\ Serial(l, n) /\ CanCancelPayment(l, p) /\ Fresh(l, m) /\ Latest(l, m)
         /\ a = l.payments[p].activity /\ w = PaymentCanceled(Loaded(l, {a}), p, m, no)
         /\ amount = l.payments[p].amount
    BY DEF Refunding
  <1> USE <1>a
  <1>1. p \in DOMAIN l.payments /\ a \in DOMAIN l.activities
    BY DEF CanCancelPayment, Serial, IsLedger
  <1>2. /\ Serial(g, n) /\ DOMAIN g.activities = {a}
        /\ DOMAIN g.payments = {q \in DOMAIN l.payments : l.payments[q].activity = a}
        /\ \A q \in DOMAIN g.payments : g.payments[q] = l.payments[q]
    BY <1>1, LoadedSerial
  <1>3. l.activities \in [DOMAIN l.activities -> Activity]
    BY DEF Serial, IsLedger
  <1>0. w = PaymentCanceled(g, p, m, no)
    OBVIOUS
  <1> HIDE DEF g
  <1>4. CanCancelPayment(g, p) /\ Latest(g, m)
    BY <1>1, <1>2 DEF CanCancelPayment, Latest
  <1>5. Serial(w, n) /\ Keeps(g, w, {m})
    BY <1>0, <1>2, <1>4, PaymentCanceledSerial
  <1>6. Fits(l, w, {m}, Tables)
    BY <1>1, <1>3, <1>5, KeptFits DEF g, Activity
  <1>7. DOMAIN w.activities = {a}
    BY <1>2, <1>5 DEF Keeps
  <1>8. Refunded(g, w, a, m, amount)
    <2>1. p \in DOMAIN g.payments /\ g.payments[p] = l.payments[p]
      BY <1>1, <1>2
    <2>2. m \in Nat /\ Latest(g, m) /\ a = g.payments[p].activity
      BY <1>4, <2>1
    <2>3. QED
      BY <1>0, <1>2, <1>4, <2>1, <2>2, PaymentCanceledRows
  <1>9. QED
    BY <1>5, <1>6, <1>7, <1>8 DEF g

\* What keeps the rows of an open activity of table t is a change.
LEMMA KeptChange ==
  ASSUME NEW l, NEW n \in Nat, Serial(l, n), NEW t, NEW a \in ActiveActivities(l, t),
         NEW w, Serial(w, n), Keeps(Loaded(l, {a}), w, {}), Careful(Loaded(l, {a}), w)
  PROVE  Change(l, w, n, {}, {t})
  <1>1. a \in DOMAIN l.activities /\ l.activities[a].active /\ l.activities[a].table = t
    BY DEF ActiveActivities
  <1>2. Fits(l, w, {}, {t})
    BY <1>1, KeptFits
  <1>3. DOMAIN w.activities = {a}
    BY <1>1, LoadedSerial DEF Keeps
  <1>4. Careful(l, w)
    BY <1>2, <1>3, LoadedCareful
  <1>5. QED
    BY <1>1, <1>2, <1>3, <1>4 DEF Change, OnOpen

\* OrderModifyService.cancel.
LEMMA CancelChange ==
  ASSUME NEW l, NEW n \in Nat, Serial(l, n), NEW t, NEW a \in ActiveActivities(l, t), NEW o
  PROVE  Change(l, OrderCanceled(Loaded(l, {a}), a, o), n, {}, {t})
  <1>1. Serial(Loaded(l, {a}), n) /\ a \in DOMAIN Loaded(l, {a}).activities
    BY LoadedSerial DEF ActiveActivities
  <1>2. QED
    BY <1>1, OrderCanceledSerial, OrderCanceledReckoned, ReckonedCareful, KeptChange

\* OrderModifyService.update, of one order and of two.
LEMMA UpdateChange ==
  ASSUME NEW l, NEW n \in Nat, Serial(l, n), NEW t, NEW a \in ActiveActivities(l, t),
         NEW o \in OrderedOrders(Loaded(l, {a}), a), NEW price \in Prices \cup {Emptied}
  PROVE  LET once == OrderUpdated(Loaded(l, {a}), a, o, price)
         IN  /\ Change(l, once, n, {}, {t})
             /\ \A o2 \in OrderedOrders(once, a), price2 \in Prices \cup {Emptied} :
                  Change(l, OrderUpdated(once, a, o2, price2), n, {}, {t})
  <1> DEFINE g == Loaded(l, {a})
             once == OrderUpdated(g, a, o, price)
  <1>1. Serial(g, n) /\ a \in DOMAIN g.activities /\ o \in DOMAIN g.orders
    BY LoadedSerial DEF ActiveActivities, OrderedOrders, OrdersOf
  <1> HIDE DEF g
  <1>2. Serial(once, n) /\ Keeps(g, once, {}) /\ Reckoned(g, once, a)
    BY <1>1, OrderUpdatedSerial, OrderUpdatedReckoned
  <1>3. a \in DOMAIN once.activities
    BY <1>1, <1>2 DEF Keeps
  <1> HIDE DEF once
  <1>4. ASSUME NEW o2 \in OrderedOrders(once, a), NEW price2 \in Prices \cup {Emptied}
        PROVE  Change(l, OrderUpdated(once, a, o2, price2), n, {}, {t})
    <2>1. o2 \in DOMAIN once.orders /\ HasOrderedOrder(once, a)
      BY DEF OrderedOrders, OrdersOf, HasOrderedOrder
    <2> DEFINE twice == OrderUpdated(once, a, o2, price2)
    <2>2. Serial(twice, n) /\ Keeps(once, twice, {}) /\ Reckoned(once, twice, a)
      BY <1>2, <1>3, <2>1, OrderUpdatedSerial, OrderUpdatedReckoned
    <2> HIDE DEF twice
    <2>3. Keeps(g, twice, {}) /\ Careful(g, twice)
      BY <1>2, <2>1, <2>2, ReckonedTwice, ReckonedCareful DEF Keeps
    <2>4. QED
      BY <2>2, <2>3, KeptChange DEF g, twice
  <1>5. Change(l, once, n, {}, {t})
    BY <1>2, ReckonedCareful, KeptChange DEF g
  <1>6. QED
    BY <1>4, <1>5 DEF once, g

\* PosTableModifyService.discount and complete.
LEMMA DiscountChange ==
  ASSUME NEW l, NEW n \in Nat, Serial(l, n), NEW t, NEW a \in ActiveActivities(l, t), NEW d
  PROVE  Change(l, Discounted(Loaded(l, {a}), a, d), n, {}, {t})
  <1>1. Serial(Loaded(l, {a}), n) /\ a \in DOMAIN Loaded(l, {a}).activities
    BY LoadedSerial DEF ActiveActivities
  <1>2. QED
    <2>1. Careful(Loaded(l, {a}), ClampDiscount(Loaded(l, {a}), a, d))
      BY <1>1, ClampDiscountRows, OpenCareful DEF Serial
    <2>2. QED
      BY <1>1, <2>1, ClampDiscountSerial, KeptChange DEF Discounted

LEMMA CompleteChange ==
  ASSUME NEW l, NEW n \in Nat, Serial(l, n), NEW t, NEW a \in ActiveActivities(l, t),
         CanComplete(Loaded(l, {a}), a)
  PROVE  Change(l, Completed(Loaded(l, {a}), a), n, {}, {t})
  <1>1. Serial(Loaded(l, {a}), n) /\ a \in DOMAIN Loaded(l, {a}).activities
    BY LoadedSerial DEF ActiveActivities
  <1>2. QED
    BY <1>1, CompletedSerial, CompletedCareful, KeptChange DEF Serial

\* PosTableModifyService.move to a table without an open activity.
LEMMA MoveChange ==
  ASSUME NEW l, NEW n \in Nat, Serial(l, n), NEW s \in Tables, NEW t \in Tables, s # t,
         NEW a \in ActiveActivities(l, s), ActiveActivities(l, t) = {}
  PROVE  Change(l, Moved(Loaded(l, {a}), a, t), n, {}, {s, t})
  <1> DEFINE g == Loaded(l, {a})
             w == Moved(g, a, t)
  <1>1. a \in DOMAIN l.activities /\ l.activities[a].active /\ l.activities[a].table = s
    BY DEF ActiveActivities
  <1>2. /\ Serial(g, n) /\ DOMAIN g.activities = {a} /\ g.activities[a] = l.activities[a]
        /\ DOMAIN g.orders = {o \in DOMAIN l.orders : l.orders[o].activity = a}
        /\ DOMAIN g.payments = {p \in DOMAIN l.payments : l.payments[p].activity = a}
    BY <1>1, LoadedSerial
  <1> HIDE DEF g
  <1>3. a \in DOMAIN g.activities /\ ActiveActivities(g, t) = {}
    BY <1>1, <1>2 DEF ActiveActivities
  <1>4. /\ Serial(w, n) /\ w.orders = g.orders /\ w.payments = g.payments
        /\ DOMAIN w.activities = {a} /\ w.activities[a].table = t
    BY <1>2, <1>3, MovedSerial
  <1>0. Careful(g, w)
    BY <1>2, <1>3, MovedCareful DEF Serial
  <1> HIDE DEF w
  <1>5. Fits(l, w, {}, {s, t})
    BY <1>1, <1>2, <1>4 DEF Fits
  <1>6. OnOpen(l, w, {s, t})
    BY <1>1, <1>4 DEF OnOpen
  <1>7. Careful(l, w)
    BY <1>0, <1>4, <1>5, LoadedCareful DEF g
  <1>8. QED
    BY <1>4, <1>5, <1>6, <1>7 DEF Change, w, g

\* PosTableModifyService.move to a table with one, which merges the two.
LEMMA MergeChange ==
  ASSUME NEW l, NEW n \in Nat, Serial(l, n), NEW s \in Tables, NEW t \in Tables, s # t,
         NEW a \in ActiveActivities(l, s), NEW b \in ActiveActivities(l, t)
  PROVE  Change(l, Merged(Loaded(l, {a, b}), a, b), n, {}, {s, t})
  <1> DEFINE g == Loaded(l, {a, b})
             w == Merged(g, a, b)
  <1>1. /\ a \in DOMAIN l.activities /\ l.activities[a].active /\ l.activities[a].table = s
        /\ b \in DOMAIN l.activities /\ l.activities[b].active /\ l.activities[b].table = t
        /\ a # b
    BY DEF ActiveActivities
  <1>2. Serial(g, n) /\ DOMAIN g.activities = {a, b}
    BY <1>1, LoadedSerial
  <1> HIDE DEF g
  <1>3. Serial(w, n) /\ Keeps(g, w, {}) /\ Careful(g, w)
    BY <1>1, <1>2, MergedSerial, MergedCareful
  <1> HIDE DEF w
  <1>4. Fits(l, w, {}, {s, t})
    BY <1>1, <1>3, KeptFits DEF g
  <1>5. DOMAIN w.activities = {a, b}
    BY <1>2, <1>3 DEF Keeps
  <1>6. OnOpen(l, w, {s, t})
    BY <1>1, <1>5 DEF OnOpen
  <1>7. Careful(l, w)
    BY <1>3, <1>4, <1>5, LoadedCareful DEF g
  <1>8. QED
    BY <1>3, <1>4, <1>6, <1>7 DEF Change, w, g

LEMMA WiderChange ==
  ASSUME NEW l, NEW w, NEW n, NEW N, NEW K, NEW L, K \subseteq L, Change(l, w, n, N, K)
  PROVE  Change(l, w, n, N, L)
  BY DEF Change, Fits, OnOpen

-----------------------------------------------------------------------------
(* The services one at a time.                                              *)

\* The inductive invariant.
IInv == clock \in 0 .. MaxClock /\ Serial(ledger, clock)

\* An evening that starts has the invariant.
LEMMA InitIInv == Init => IInv
  <1> SUFFICES ASSUME Init PROVE IInv
    OBVIOUS
  <1>1. DOMAIN NoRows = {}
    BY DEF NoRows
  <1>2. /\ ledger.activities = NoRows /\ ledger.orders = NoRows /\ ledger.payments = NoRows
        /\ ledger = [activities |-> ledger.activities, orders |-> ledger.orders,
                     payments |-> ledger.payments]
    BY DEF Init, EmptyLedger
  <1>3. NoRows = [x \in {} |-> x]
    BY DEF NoRows
  <1>4. IsLedger(ledger, clock)
    BY <1>1, <1>2, <1>3 DEF IsLedger
  <1>5. OneActive(ledger)
    BY <1>1, <1>2 DEF OneActive
  <1>6. Paired(ledger)
    BY <1>1, <1>2 DEF Paired, RefundedOnce, CancellableUnlessRefunded, Refunds, Approvals
  <1>7. QED
    BY <1>4, <1>5, <1>6, BoundsAssumption DEF IInv, Serial, Init

\* What the invariant gives a service that starts: rows to work on, and with
\* the tick of the clock a number no row has.
LEMMA Started ==
  ASSUME IInv
  PROVE  /\ clock \in Nat /\ Serial(ledger, clock)
         /\ Tick => /\ clock' \in 0 .. MaxClock /\ clock' \in Nat /\ clock' \in 1 .. clock'
                    /\ Serial(ledger, clock') /\ Fresh(ledger, clock')
                    /\ Latest(ledger, clock')
         /\ \A t : ActiveActivities(ledger, t) \subseteq DOMAIN ledger.activities
         /\ \A t, a : a \in Seat(t) => a \in FindOrCreate(ledger, t, clock')
  <1>1. clock \in Nat /\ MaxClock \in Nat /\ clock \in 0 .. MaxClock /\ Serial(ledger, clock)
    BY BoundsAssumption DEF IInv
  <1>2. ASSUME Tick
        PROVE  /\ clock' \in 0 .. MaxClock /\ clock' \in Nat /\ clock' \in 1 .. clock'
               /\ Serial(ledger, clock') /\ Fresh(ledger, clock')
               /\ Latest(ledger, clock')
    <2>1. clock' = clock + 1 /\ clock < MaxClock
      BY <1>2 DEF Tick
    <2>2. /\ DOMAIN ledger.activities \subseteq 1 .. clock
          /\ DOMAIN ledger.orders \subseteq 1 .. clock
          /\ DOMAIN ledger.payments \subseteq 1 .. clock
      BY <1>1 DEF Serial, IsLedger
    <2>3. QED
      BY <1>1, <2>1, <2>2, LaterSerial DEF Fresh, Latest
  <1>3. QED
    BY <1>1, <1>2 DEF ActiveActivities, Seat

\* Every service but the refund leaves the ledger with a change saved.
LEMMA NextChanges ==
  ASSUME IInv, Next
  PROVE  \/ /\ clock' \in 0 .. MaxClock /\ Serial(ledger, clock')
            /\ \E w, N : Change(ledger, w, clock', N, Tables) /\ ledger' = Saved(ledger, w)
         \/ \E p \in DOMAIN ledger.payments : CancelPayment(p)
  <1> DEFINE Goal == /\ clock' \in 0 .. MaxClock /\ Serial(ledger, clock')
                     /\ \E w, N : /\ Change(ledger, w, clock', N, Tables)
                                  /\ ledger' = Saved(ledger, w)
  <1>1. /\ clock \in Nat /\ clock \in 0 .. MaxClock /\ Serial(ledger, clock)
        /\ Tick => /\ clock' \in 0 .. MaxClock /\ clock' \in Nat /\ clock' \in 1 .. clock'
                   /\ Serial(ledger, clock') /\ Fresh(ledger, clock')
        /\ \A t, a : a \in Seat(t) => a \in FindOrCreate(ledger, t, clock')
    BY Started DEF IInv
  <1>2. ASSUME NEW K \in SUBSET Tables, NEW w, NEW N, Change(ledger, w, clock', N, K),
               ledger' = Saved(ledger, w), Tick \/ clock' = clock
        PROVE  Goal
    <2>1. Change(ledger, w, clock', N, Tables)
      BY <1>2, WiderChange
    <2>2. QED
      BY <1>1, <1>2, <2>1
  <1> HIDE DEF Goal
  <1>3. ASSUME NEW t \in Tables, CreateOrder(t) PROVE Goal
    <2>1. PICK a \in Seat(t), type \in OrderTypes, price \in Prices :
            ledger' = Saved(ledger,
                        OrderCreated(Loaded(ledger, {a}), t, a, clock', type, price))
      BY <1>3 DEF CreateOrder
    <2>2. Change(ledger, OrderCreated(Loaded(ledger, {a}), t, a, clock', type, price),
                 clock', {clock'}, {t})
      BY <1>1, <1>3, CreateChange DEF CreateOrder
    <2>3. QED
      BY <1>2, <1>3, <2>1, <2>2 DEF CreateOrder
  <1>4. ASSUME NEW t \in Tables, ApprovePayment(t) PROVE Goal
    <2>1. PICK a \in Seat(t), amount \in Amounts, no \in ApprovalNos \cup {Cash} :
            ledger' = Saved(ledger,
                        PaymentApproved(Loaded(ledger, {a}), t, a, clock', amount, no))
      BY <1>4 DEF ApprovePayment
    <2>2. Change(ledger, PaymentApproved(Loaded(ledger, {a}), t, a, clock', amount, no),
                 clock', {clock'}, {t})
      BY <1>1, <1>4, ApproveChange DEF ApprovePayment
    <2>3. QED
      BY <1>2, <1>4, <2>1, <2>2 DEF ApprovePayment
  <1>5. ASSUME NEW t \in Tables, CancelOrder(t) PROVE Goal
    <2>1. PICK a \in ActiveActivities(ledger, t) : \E o \in OrderedOrders(ledger, a) :
            ledger' = Saved(ledger, OrderCanceled(Loaded(ledger, {a}), a, o))
      BY <1>5 DEF CancelOrder
    <2>2. \A o : Change(ledger, OrderCanceled(Loaded(ledger, {a}), a, o), clock, {}, {t})
      BY <1>1, CancelChange
    <2>3. QED
      BY <1>2, <1>5, <2>1, <2>2 DEF CancelOrder
  <1>6. ASSUME NEW t \in Tables, UpdateOrder(t) PROVE Goal
    <2>0. PICK a \in ActiveActivities(ledger, t) :
            \E o \in OrderedOrders(ledger, a), price \in Prices \cup {Emptied} :
              LET once == OrderUpdated(Loaded(ledger, {a}), a, o, price)
              IN  \/ ledger' = Saved(ledger, once)
                  \/ \E o2 \in OrderedOrders(once, a), price2 \in Prices \cup {Emptied} :
                       ledger' = Saved(ledger, OrderUpdated(once, a, o2, price2))
      BY <1>6 DEF UpdateOrder
    <2>1. PICK o \in OrderedOrders(ledger, a), price \in Prices \cup {Emptied} :
            LET once == OrderUpdated(Loaded(ledger, {a}), a, o, price)
            IN  \/ ledger' = Saved(ledger, once)
                \/ \E o2 \in OrderedOrders(once, a), price2 \in Prices \cup {Emptied} :
                     ledger' = Saved(ledger, OrderUpdated(once, a, o2, price2))
      BY <2>0
    <2> DEFINE once == OrderUpdated(Loaded(ledger, {a}), a, o, price)
    <2>2. o \in OrderedOrders(Loaded(ledger, {a}), a)
      BY <1>1, LoadedSerial DEF OrderedOrders, OrdersOf
    <2>3. /\ Change(ledger, once, clock, {}, {t})
          /\ \A o2 \in OrderedOrders(once, a), price2 \in Prices \cup {Emptied} :
               Change(ledger, OrderUpdated(once, a, o2, price2), clock, {}, {t})
      BY <1>1, <2>2, UpdateChange
    <2> HIDE DEF once
    <2>4. CASE ledger' = Saved(ledger, once)
      BY <1>2, <1>6, <2>3, <2>4 DEF UpdateOrder
    <2>5. ASSUME NEW o2 \in OrderedOrders(once, a), NEW price2 \in Prices \cup {Emptied},
                 ledger' = Saved(ledger, OrderUpdated(once, a, o2, price2))
          PROVE  Goal
      BY <1>2, <1>6, <2>3, <2>5 DEF UpdateOrder
    <2>6. QED
      BY <2>1, <2>4, <2>5 DEF once
  <1>7. ASSUME NEW t \in Tables, DiscountTable(t) PROVE Goal
    <2>1. PICK a \in ActiveActivities(ledger, t), d \in Discounts :
            ledger' = Saved(ledger, Discounted(Loaded(ledger, {a}), a, d))
      BY <1>7 DEF DiscountTable
    <2>2. Change(ledger, Discounted(Loaded(ledger, {a}), a, d), clock, {}, {t})
      BY <1>1, DiscountChange
    <2>3. QED
      BY <1>2, <1>7, <2>1, <2>2 DEF DiscountTable
  <1>8. ASSUME NEW t \in Tables, CompleteActivity(t) PROVE Goal
    <2>1. PICK a \in ActiveActivities(ledger, t) :
            /\ CanComplete(Loaded(ledger, {a}), a)
            /\ ledger' = Saved(ledger, Completed(Loaded(ledger, {a}), a))
      BY <1>8 DEF CompleteActivity
    <2>2. Change(ledger, Completed(Loaded(ledger, {a}), a), clock, {}, {t})
      BY <1>1, <2>1, CompleteChange
    <2>3. QED
      BY <1>2, <1>8, <2>1, <2>2 DEF CompleteActivity
  <1>9. ASSUME NEW s \in Tables, NEW t \in Tables, MoveTable(s, t) PROVE Goal
    <2>1. s # t /\ clock' = clock /\ {s, t} \in SUBSET Tables
      BY <1>9 DEF MoveTable
    <2>2. PICK a \in ActiveActivities(ledger, s) :
            IF ActiveActivities(ledger, t) = {}
              THEN ledger' = Saved(ledger, Moved(Loaded(ledger, {a}), a, t))
              ELSE \E b \in ActiveActivities(ledger, t) :
                     ledger' = Saved(ledger, Merged(Loaded(ledger, {a, b}), a, b))
      BY <1>9 DEF MoveTable
    <2>3. CASE ActiveActivities(ledger, t) = {}
      <3>1. Change(ledger, Moved(Loaded(ledger, {a}), a, t), clock, {}, {s, t})
        BY <1>1, <2>1, <2>3, MoveChange
      <3>2. QED
        BY <1>2, <2>1, <2>2, <2>3, <3>1
    <2>4. CASE ActiveActivities(ledger, t) # {}
      <3>1. PICK b \in ActiveActivities(ledger, t) :
              ledger' = Saved(ledger, Merged(Loaded(ledger, {a, b}), a, b))
        BY <2>2, <2>4
      <3>2. Change(ledger, Merged(Loaded(ledger, {a, b}), a, b), clock, {}, {s, t})
        BY <1>1, <2>1, MergeChange
      <3>3. QED
        BY <1>2, <2>1, <3>1, <3>2
    <2>5. QED
      BY <2>3, <2>4
  <1>10. QED
    BY <1>3, <1>4, <1>5, <1>6, <1>7, <1>8, <1>9 DEF Next, Goal

\* The refund does, on an activity that may be closed.
LEMMA RefundSaved ==
  ASSUME IInv, NEW p \in DOMAIN ledger.payments, CancelPayment(p)
  PROVE  /\ clock' \in 0 .. MaxClock /\ Serial(ledger, clock')
         /\ CanCancelPayment(ledger, p) /\ Fresh(ledger, clock')
         /\ \E a, w, amount :
              /\ a = ledger.payments[p].activity /\ amount = ledger.payments[p].amount
              /\ ledger' = Saved(ledger, w)
              /\ Serial(w, clock') /\ Fits(ledger, w, {clock'}, Tables)
              /\ DOMAIN w.activities = {a}
              /\ Refunded(Loaded(ledger, {a}), w, a, clock', amount)
  <1>1. /\ clock' \in 0 .. MaxClock /\ clock' \in Nat /\ clock' \in 1 .. clock'
        /\ Serial(ledger, clock') /\ Fresh(ledger, clock') /\ Latest(ledger, clock')
    BY Started DEF CancelPayment
  <1>2. PICK a, amount : a = ledger.payments[p].activity /\ amount = ledger.payments[p].amount
    OBVIOUS
  <1>0. PICK no \in ApprovalNos :
          ledger' = Saved(ledger, PaymentCanceled(Loaded(ledger, {a}), p, clock', no))
    BY <1>2 DEF CancelPayment
  <1>3. PICK w : /\ w = PaymentCanceled(Loaded(ledger, {a}), p, clock', no)
                 /\ ledger' = Saved(ledger, w)
    BY <1>0
  <1>4. CanCancelPayment(ledger, p)
    BY DEF CancelPayment
  <1>5. /\ Serial(w, clock') /\ Fits(ledger, w, {clock'}, Tables) /\ DOMAIN w.activities = {a}
        /\ Refunded(Loaded(ledger, {a}), w, a, clock', amount)
    <2>1. PICK n \in Nat : n = clock'
      BY <1>1
    <2>2. Serial(ledger, n) /\ n \in 1 .. n /\ Fresh(ledger, n) /\ Latest(ledger, n)
      BY <1>1, <2>1
    <2>3. w = PaymentCanceled(Loaded(ledger, {a}), p, n, no)
      BY <1>3, <2>1
    <2>4. /\ Serial(w, n) /\ Fits(ledger, w, {n}, Tables) /\ DOMAIN w.activities = {a}
          /\ Refunded(Loaded(ledger, {a}), w, a, n, amount)
      <3>1. Refunding(ledger, n, p, n, no, a, w, amount)
        BY <1>2, <1>4, <2>2, <2>3 DEF Refunding
      <3>2. QED
        BY <2>2, <3>1, RefundFits
    <2>5. QED
      BY <2>1, <2>4
  <1>6. QED
    BY <1>1, <1>2, <1>3, <1>4, <1>5

\* Every service transaction keeps the invariant.
LEMMA NextIInv == IInv /\ [Next]_vars => IInv'
  <1> SUFFICES ASSUME IInv, [Next]_vars PROVE IInv'
    OBVIOUS
  <1>1. \A n \in 0 .. MaxClock : n \in Nat
    BY BoundsAssumption
  <1>2. ASSUME NEW w, NEW N, Serial(ledger, clock'), Serial(w, clock'), clock' \in 0 .. MaxClock,
               Fits(ledger, w, N, Tables), ledger' = Saved(ledger, w)
        PROVE  IInv'
    BY <1>1, <1>2, SavedSerial DEF IInv
  <1>3. ASSUME NEW p \in DOMAIN ledger.payments, CancelPayment(p) PROVE IInv'
    BY <1>2, <1>3, RefundSaved
  <1>4. CASE Next
    BY <1>2, <1>3, <1>4, NextChanges DEF Change
  <1>5. CASE UNCHANGED vars
    BY <1>5 DEF vars, IInv
  <1>6. QED
    BY <1>4, <1>5

-----------------------------------------------------------------------------
(* What one transaction may do to an activity.                              *)

\* What a closed activity is left with: orders changed only by revoking a
\* prepaid one, payments added only by refunds.
KeepsFinal(l, m, a) ==
    /\ m.activities[a] = l.activities[a]
    /\ OrdersOf(m, a) = OrdersOf(l, a)
    /\ \A o \in OrdersOf(l, a) : m.orders[o] # l.orders[o] =>
         /\ l.orders[o].type = "PREPAID"
         /\ m.orders[o] = [l.orders[o] EXCEPT !.state = "CANCEL"]
    /\ PaymentsOf(l, a) \subseteq PaymentsOf(m, a)
    /\ \A p \in PaymentsOf(m, a) \ PaymentsOf(l, a) : m.payments[p].state = "CANCEL"

\* The entities a transaction saves, among rows numbered up to n.
IsChanged(l, w, N, n) ==
    n \in Nat /\ IsLedger(l, n) /\ IsLedger(w, n) /\ Fits(l, w, N, Tables)

\* Those a refund n does.
GivesBack(l, w, N, n) ==
    \E a \in DOMAIN l.activities, amount \in Amounts :
        /\ DOMAIN w.activities = {a} /\ N = {n} /\ n \notin DOMAIN l.payments
        /\ Refunded(Loaded(l, {a}), w, a, n, amount)

\* All that the transactions of an evening do, for the proofs that follow.
LEMMA Steps ==
  ASSUME IInv, Next
  PROVE  \E w, N, n :
           /\ IsChanged(ledger, w, N, n) /\ ledger' = Saved(ledger, w)
           /\ \/ OnOpen(ledger, w, Tables) /\ Careful(ledger, w)
              \/ GivesBack(ledger, w, N, n)
  <1>1. \A n \in 0 .. MaxClock : n \in Nat
    BY BoundsAssumption
  <1>2. CASE \E p \in DOMAIN ledger.payments : CancelPayment(p)
    <2>1. PICK p \in DOMAIN ledger.payments : CancelPayment(p)
      BY <1>2
    <2>2. PICK a, w, amount :
            /\ a = ledger.payments[p].activity /\ amount = ledger.payments[p].amount
            /\ ledger' = Saved(ledger, w)
            /\ Serial(w, clock') /\ Fits(ledger, w, {clock'}, Tables)
            /\ DOMAIN w.activities = {a}
            /\ Refunded(Loaded(ledger, {a}), w, a, clock', amount)
      BY <2>1, RefundSaved
    <2>3. /\ clock' \in 0 .. MaxClock /\ Serial(ledger, clock')
          /\ CanCancelPayment(ledger, p) /\ Fresh(ledger, clock')
      BY <2>1, RefundSaved
    <2>4. a \in DOMAIN ledger.activities /\ amount \in Amounts
      BY <2>2, <2>3 DEF Serial, IsLedger, Payment
    <2>5. PICK n \in Nat : n = clock'
      BY <1>1, <2>3
    <2>6. n \notin DOMAIN ledger.payments /\ IsLedger(ledger, n) /\ IsLedger(w, n)
      BY <2>2, <2>3, <2>5 DEF Fresh, Serial
    <2>7. /\ ledger' = Saved(ledger, w) /\ Fits(ledger, w, {n}, Tables)
          /\ DOMAIN w.activities = {a} /\ Refunded(Loaded(ledger, {a}), w, a, n, amount)
      BY <2>2, <2>5
    <2>8. IsChanged(ledger, w, {n}, n) /\ GivesBack(ledger, w, {n}, n)
      BY <2>4, <2>6, <2>7 DEF IsChanged, GivesBack
    <2>9. QED
      BY <2>7, <2>8
  <1>3. CASE ~ \E p \in DOMAIN ledger.payments : CancelPayment(p)
    <2>1. clock' \in 0 .. MaxClock /\ Serial(ledger, clock')
      BY <1>3, NextChanges
    <2>2. PICK w, N : Change(ledger, w, clock', N, Tables) /\ ledger' = Saved(ledger, w)
      BY <1>3, NextChanges
    <2>3. PICK n \in Nat : n = clock'
      BY <1>1, <2>1
    <2>4. /\ IsChanged(ledger, w, N, n)
          /\ OnOpen(ledger, w, Tables) /\ Careful(ledger, w)
      BY <2>1, <2>2, <2>3 DEF Change, Serial, IsChanged
    <2>5. QED
      BY <2>2, <2>4
  <1>4. QED
    BY <1>2, <1>3

\* A refund keeps a closed activity final.
LEMMA RefundKeepsFinal ==
  ASSUME NEW l, NEW n \in Nat, IsLedger(l, n), NEW w, IsLedger(w, n),
         Fits(l, w, {n}, Tables), NEW a \in DOMAIN l.activities, DOMAIN w.activities = {a},
         NEW amount \in Amounts, Refunded(Loaded(l, {a}), w, a, n, amount),
         ~l.activities[a].active, NEW m, m = Saved(l, w)
  PROVE  KeepsFinal(l, m, a)
  <1> DEFINE g == Loaded(l, {a})
  <1>1. SameMoney(l, g, a) /\ g.activities[a] = l.activities[a]
    BY LoadedMoney DEF Loaded
  <1>2. PICK S : IsRefund(g, w, a, n, amount, S)
    BY DEF Refunded
  <1> HIDE DEF g
  <1>3. SameMoney(w, m, a) /\ m.activities[a] = w.activities[a]
    BY SavedMoney
  <1>4. /\ DOMAIN w.orders = DOMAIN g.orders
        /\ \A o \in DOMAIN g.orders :
             /\ o \in S => w.orders[o] = [g.orders[o] EXCEPT !.state = "CANCEL"]
             /\ o \notin S => w.orders[o] = g.orders[o]
        /\ \A o \in S : g.orders[o].type = "PREPAID"
    BY <1>2 DEF IsRefund, CancelOrders
  <1>5. OrdersOf(w, a) = OrdersOf(g, a)
    <2>1. \A o \in DOMAIN g.orders : w.orders[o].activity = g.orders[o].activity
      <3>1. \A o \in DOMAIN g.orders : [g.orders[o] EXCEPT !.state = "CANCEL"].activity =
                                         g.orders[o].activity
        BY DEF Loaded, IsLedger, Order, g
      <3>2. QED
        BY <1>4, <3>1
    <2>2. QED
      BY <1>4, <2>1 DEF OrdersOf
  <1>6. PaymentsOf(w, a) = PaymentsOf(g, a) \cup {n} /\ w.payments[n].state = "CANCEL"
    BY <1>2 DEF IsRefund, PaymentsOf
  <1>7. \A o \in OrdersOf(l, a) : m.orders[o] # l.orders[o] =>
          /\ l.orders[o].type = "PREPAID"
          /\ m.orders[o] = [l.orders[o] EXCEPT !.state = "CANCEL"]
    <2> SUFFICES ASSUME NEW o \in OrdersOf(l, a), m.orders[o] # l.orders[o]
                 PROVE  /\ l.orders[o].type = "PREPAID"
                        /\ m.orders[o] = [l.orders[o] EXCEPT !.state = "CANCEL"]
      OBVIOUS
    <2>1. o \in OrdersOf(g, a) /\ g.orders[o] = l.orders[o] /\ o \in DOMAIN g.orders
      BY <1>1 DEF SameMoney, OrdersOf
    <2>2. m.orders[o] = w.orders[o]
      BY <1>3, <1>5, <2>1 DEF SameMoney
    <2>3. QED
      BY <1>4, <2>1, <2>2
  <1>8. m.activities[a] = l.activities[a]
    BY <1>1, <1>2, <1>3 DEF IsRefund
  <1>9. OrdersOf(m, a) = OrdersOf(l, a)
    BY <1>1, <1>3, <1>5 DEF SameMoney
  <1>10. /\ PaymentsOf(l, a) \subseteq PaymentsOf(m, a)
         /\ \A p \in PaymentsOf(m, a) \ PaymentsOf(l, a) : m.payments[p].state = "CANCEL"
    BY <1>1, <1>3, <1>6 DEF SameMoney
  <1>11. QED
    BY <1>7, <1>8, <1>9, <1>10 DEF KeepsFinal

\* So does every transaction.
LEMMA StepKeepsFinal ==
  ASSUME IInv, Next, NEW a \in DOMAIN ledger.activities, ~ledger.activities[a].active
  PROVE  KeepsFinal(ledger, ledger', a)
  <1>0. PICK w, N, n :
           /\ IsChanged(ledger, w, N, n) /\ ledger' = Saved(ledger, w)
           /\ \/ OnOpen(ledger, w, Tables) /\ Careful(ledger, w)
              \/ GivesBack(ledger, w, N, n)
    BY Steps
  <1>1. /\ n \in Nat /\ IsLedger(ledger, n) /\ IsLedger(w, n)
        /\ ledger' = Saved(ledger, w) /\ Fits(ledger, w, N, Tables)
    BY <1>0 DEF IsChanged
  <1>2. PICK m : m = ledger'
    OBVIOUS
  <1>3. CASE a \notin DOMAIN w.activities
    <2>1. SameMoney(ledger, m, a) /\ m.activities[a] = ledger.activities[a]
      BY <1>1, <1>2, <1>3, SavedElsewhere
    <2>2. KeepsFinal(ledger, m, a)
      BY <2>1 DEF SameMoney, KeepsFinal
    <2>3. QED
      BY <1>2, <2>2
  <1>4. CASE a \in DOMAIN w.activities
    <2>1. ~OnOpen(ledger, w, Tables)
      BY <1>4 DEF OnOpen
    <2>0. PICK b \in DOMAIN ledger.activities, amount \in Amounts :
            /\ DOMAIN w.activities = {b} /\ N = {n}
            /\ Refunded(Loaded(ledger, {b}), w, b, n, amount)
      BY <1>0, <2>1 DEF GivesBack
    <2>5. b = a
      BY <1>4, <2>0
    <2>2. /\ DOMAIN w.activities = {a} /\ N = {n}
          /\ Refunded(Loaded(ledger, {a}), w, a, n, amount)
      BY <2>0, <2>5
    <2>3. m = Saved(ledger, w) /\ Fits(ledger, w, {n}, Tables)
      BY <1>1, <1>2, <2>2
    <2>4. KeepsFinal(ledger, m, a)
      BY <1>1, <2>2, <2>3, RefundKeepsFinal
    <2>6. QED
      BY <1>2, <2>4
  <1>5. QED
    BY <1>3, <1>4

\* Where no sum wraps around, what is left to pay is what it should be.
LEMMA ExactRemaining ==
  ASSUME NEW l, NEW a, IsExact(l, a)
  PROVE  RemainingPaymentPrice(l, a) = OrderSum(l, a) - PaymentSum(l, a)
  BY DEF IsExact, RemainingPaymentPrice, TotalOrderPrice, TotalPaymentPrice, AsLong

\* What a refund of an amount does to activity a: it cancels no order and the
\* amount is owed again, or it cancels one order and what is owed stays.
Balances(l, m, a, amount) ==
    LET gone == OrderedOrders(l, a) \ OrderedOrders(m, a)
        owed == RemainingPaymentPrice(m, a) - RemainingPaymentPrice(l, a)
    IN  \/ gone = {} /\ owed = amount
        \/ Cardinality(gone) = 1 /\ owed = 0

LEMMA RefundOfEquals ==
  ASSUME NEW g, NEW n \in Nat, IsLedger(g, n), NEW w, NEW a, NEW amount \in Amounts, NEW S,
         IsRefund(g, w, a, n, amount, S), NEW l, SameMoney(l, g, a), NEW m, SameMoney(w, m, a),
         IsExact(l, a), IsExact(m, a)
  PROVE  Balances(l, m, a, amount)
  <1>4. /\ OrderedOrders(w, a) = OrderedOrders(g, a) \ S
        /\ OrderSum(g, a) \in Int /\ PaymentSum(g, a) \in Int
        /\ OrderSum(w, a) = IF S = {} THEN OrderSum(g, a) ELSE OrderSum(g, a) - amount
        /\ PaymentSum(w, a) = PaymentSum(g, a) - amount
    BY RefundMoney
  <1>5. /\ OrderedOrders(g, a) = OrderedOrders(l, a)
        /\ OrderSum(g, a) = OrderSum(l, a) /\ PaymentSum(g, a) = PaymentSum(l, a)
    BY SameSums
  <1>6. /\ OrderedOrders(m, a) = OrderedOrders(w, a)
        /\ OrderSum(m, a) = OrderSum(w, a) /\ PaymentSum(m, a) = PaymentSum(w, a)
    BY SameSums
  <1>7. /\ RemainingPaymentPrice(l, a) = OrderSum(l, a) - PaymentSum(l, a)
        /\ RemainingPaymentPrice(m, a) = OrderSum(m, a) - PaymentSum(m, a)
    BY ExactRemaining
  <1>8. S = {} \/ \E o \in OrderedOrders(g, a) : S = {o}
    BY DEF IsRefund
  <1>9. OrderedOrders(l, a) \ OrderedOrders(m, a) = S
    BY <1>4, <1>5, <1>6, <1>8
  <1>10. amount \in Int
    BY LedgerAssumption
  <1>11. CASE S = {}
    <2>1. RemainingPaymentPrice(m, a) - RemainingPaymentPrice(l, a) = amount
      <3>1. OrderSum(m, a) = OrderSum(l, a) /\ PaymentSum(m, a) = PaymentSum(l, a) - amount
        BY <1>4, <1>5, <1>6, <1>11
      <3>2. OrderSum(l, a) \in Int /\ PaymentSum(l, a) \in Int
        BY <1>4, <1>5
      <3>3. QED
        BY <1>7, <1>10, <3>1, <3>2
    <2>2. OrderedOrders(l, a) \ OrderedOrders(m, a) = {}
      BY <1>9, <1>11
    <2>3. QED
      BY <2>1, <2>2 DEF Balances
  <1>12. CASE S # {}
    <2>1. RemainingPaymentPrice(m, a) - RemainingPaymentPrice(l, a) = 0
      <3>1. /\ OrderSum(m, a) = OrderSum(l, a) - amount
            /\ PaymentSum(m, a) = PaymentSum(l, a) - amount
        BY <1>4, <1>5, <1>6, <1>12
      <3>2. OrderSum(l, a) \in Int /\ PaymentSum(l, a) \in Int
        BY <1>4, <1>5
      <3>3. QED
        BY <1>7, <1>10, <3>1, <3>2
    <2>2. Cardinality(S) = 1
      BY <1>8, <1>12, FS_Singleton
    <2>3. QED
      BY <1>9, <2>1, <2>2 DEF Balances
  <1>13. QED
    BY <1>11, <1>12

LEMMA RefundIsBalanced ==
  ASSUME NEW l, NEW n \in Nat, NEW w, NEW a \in DOMAIN l.activities, IsLedger(l, n),
         IsLedger(w, n), Fits(l, w, {n}, Tables), DOMAIN w.activities = {a},
         NEW amount \in Amounts, Refunded(Loaded(l, {a}), w, a, n, amount),
         NEW m, m = Saved(l, w), IsExact(l, a), IsExact(m, a),
         IsLedger(Loaded(l, {a}), n)
  PROVE  Balances(l, m, a, amount)
  <1>1. PICK g : g = Loaded(l, {a})
    OBVIOUS
  <1>2. SameMoney(l, Loaded(l, {a}), a)
    BY LoadedMoney
  <1>3. SameMoney(l, g, a) /\ IsLedger(g, n) /\ Refunded(g, w, a, n, amount)
    BY <1>1, <1>2
  <1>4. PICK S : IsRefund(g, w, a, n, amount, S)
    BY <1>3 DEF Refunded
  <1>5. SameMoney(w, m, a)
    BY SavedMoney
  <1>6. QED
    BY <1>3, <1>4, <1>5, RefundOfEquals

\* Every refund of every transaction is balanced.
LEMMA StepIsBalanced ==
  ASSUME IInv, Next, NEW m, m = ledger',
         NEW r \in DOMAIN m.payments \ DOMAIN ledger.payments, m.payments[r].state = "CANCEL",
         NEW a, a = m.payments[r].activity, IsExact(ledger, a), IsExact(m, a)
  PROVE  Balances(ledger, m, a, m.payments[r].amount)
  <1>1. PICK w, N, n :
           /\ IsChanged(ledger, w, N, n) /\ ledger' = Saved(ledger, w)
           /\ \/ OnOpen(ledger, w, Tables) /\ Careful(ledger, w)
              \/ GivesBack(ledger, w, N, n)
    BY Steps
  <1>2. /\ n \in Nat /\ IsLedger(ledger, n) /\ IsLedger(w, n)
        /\ m = Saved(ledger, w) /\ Fits(ledger, w, N, Tables)
    BY <1>1 DEF IsChanged
  <1>3. r \in DOMAIN w.payments \ DOMAIN ledger.payments /\ m.payments[r] = w.payments[r]
    <2>1. IsSaved(Saved(ledger, w), ledger, w)
      BY SavedRowsOf
    <2>2. IsSaved(m, ledger, w)
      BY <1>2, <2>1
    <2>3. QED
      BY <2>2 DEF IsSaved
  <1>4. ~Careful(ledger, w)
    BY <1>3 DEF Careful
  <1>5. PICK b \in DOMAIN ledger.activities, amount \in Amounts :
          /\ DOMAIN w.activities = {b} /\ N = {n}
          /\ Refunded(Loaded(ledger, {b}), w, b, n, amount)
    BY <1>1, <1>4 DEF GivesBack
  <1>6. r = n /\ w.payments[n].activity = b /\ w.payments[n].amount = amount
    <2>1. w.payments[n].activity = b /\ w.payments[n].amount = amount
      BY <1>5 DEF Refunded, IsRefund
    <2>2. DOMAIN w.payments \subseteq DOMAIN ledger.payments \cup {n}
      BY <1>2, <1>5 DEF Fits
    <2>3. QED
      BY <1>3, <2>1, <2>2
  <1>7. a = b /\ m.payments[r].amount = amount
    BY <1>3, <1>6
  <1>8. IsLedger(Loaded(ledger, {b}), n)
    BY <1>2, LoadedLedger
  <1>9. IsExact(ledger, b) /\ IsExact(m, b) /\ Fits(ledger, w, {n}, Tables)
    BY <1>2, <1>5, <1>7
  <1>10. Balances(ledger, m, b, amount)
    BY <1>2, <1>5, <1>8, <1>9, RefundIsBalanced
  <1>11. QED
    BY <1>7, <1>10

\* An activity that a transaction closes is paid for, unless orders or payments
\* were reassigned.
LEMMA StepClosesPaid ==
  ASSUME IInv, Next, NEW m, m = ledger', ~Takes(ledger, m),
         NEW a \in DOMAIN ledger.activities, ledger.activities[a].active,
         ~m.activities[a].active, HasOrderedOrder(m, a)
  PROVE  RemainingPaymentPriceWithDiscount(m, a) <= 0
  <1>1. PICK w, N, n :
           /\ IsChanged(ledger, w, N, n) /\ ledger' = Saved(ledger, w)
           /\ \/ OnOpen(ledger, w, Tables) /\ Careful(ledger, w)
              \/ GivesBack(ledger, w, N, n)
    BY Steps
  <1>2. /\ n \in Nat /\ IsLedger(ledger, n) /\ IsLedger(w, n)
        /\ m = Saved(ledger, w) /\ Fits(ledger, w, N, Tables)
    BY <1>1 DEF IsChanged
  <1>0. IsSaved(m, ledger, w)
    <2>1. IsSaved(Saved(ledger, w), ledger, w)
      BY SavedRowsOf
    <2>2. QED
      BY <1>2, <2>1
  <1>3. a \in DOMAIN w.activities
    BY <1>0 DEF IsSaved
  <1>4. SameMoney(w, m, a) /\ m.activities[a] = w.activities[a]
    BY <1>2, <1>3, SavedMoney
  <1>5. /\ RemainingPaymentPriceWithDiscount(m, a) = RemainingPaymentPriceWithDiscount(w, a)
        /\ HasOrderedOrder(w, a) /\ ~w.activities[a].active
    BY <1>4, SameSums DEF HasOrderedOrder
  <1>6. CASE Careful(ledger, w)
    <2>1. ~Takes(ledger, w)
      BY <1>0 DEF Takes, IsSaved
    <2>2. QED
      BY <1>3, <1>5, <1>6, <2>1 DEF Careful
  <1>7. CASE GivesBack(ledger, w, N, n)
    <2>1. PICK b \in DOMAIN ledger.activities, amount \in Amounts :
            /\ DOMAIN w.activities = {b}
            /\ Refunded(Loaded(ledger, {b}), w, b, n, amount)
      BY <1>7 DEF GivesBack
    <2>2. b = a
      BY <1>3, <2>1
    <2>3. PICK S : IsRefund(Loaded(ledger, {a}), w, a, n, amount, S)
      BY <2>1, <2>2 DEF Refunded
    <2>4. Loaded(ledger, {a}).activities[a] = ledger.activities[a]
      BY DEF Loaded
    <2>5. QED
      BY <1>5, <2>3, <2>4 DEF IsRefund
  <1>8. QED
    BY <1>1, <1>6, <1>7

-----------------------------------------------------------------------------
(* What holds of the services one at a time.                                *)

\* The inductive invariant holds in every reachable state.
THEOREM SpecIInv == Spec => []IInv
  BY InitIInv, NextIInv, PTL DEF Spec

\* The rows stay well typed, with every order and payment on an activity that
\* exists, whatever tables, prices and bounds the store has.
THEOREM TypeCorrect == Spec => []TypeOK
  <1>1. IInv => TypeOK
    BY DEF IInv, Serial, TypeOK
  <1>2. QED
    BY <1>1, SpecIInv, PTL

\* Run one at a time, the services never leave a table with two active
\* activities: findActive before create, the merge of PosTable.move and the
\* closing of activities see to it.
THEOREM OneActivityPerTable == Spec => []OneActiveActivity
  <1>1. IInv => OneActiveActivity
    BY DEF IInv, Serial, OneActiveActivity
  <1>2. QED
    BY <1>1, SpecIInv, PTL

\* Run one at a time, the services refund every approval at most once, for its
\* amount and on the activity that holds the approval, through any sequence of
\* moves and merges.
THEOREM RefundsArePaired == Spec => []RefundsPaired
  <1>1. IInv => RefundsPaired
    BY DEF IInv, Serial, RefundsPaired
  <1>2. QED
    BY <1>1, SpecIInv, PTL

\* What the guests of a closed activity ordered and paid is never rewritten:
\* only OrderPaymentModifyService.cancel reaches it, which adds the refund and
\* cancels the prepaid order it undoes.
THEOREM ClosedStaysFinal == Spec => ClosedIsFinal
  <1>1. ASSUME IInv, Next, NEW a \in DOMAIN ledger.activities, ~ledger.activities[a].active
        PROVE  IsFinal(a)
    <2>1. KeepsFinal(ledger, ledger', a)
      BY <1>1, StepKeepsFinal
    <2>2. QED
      BY <2>1 DEF KeepsFinal, IsFinal
  <1>2. IInv /\ [Next]_vars =>
          [\A a \in DOMAIN ledger.activities :
             ~ledger.activities[a].active => IsFinal(a)]_vars
    BY <1>1
  <1>3. QED
    BY <1>2, SpecIInv, PTL DEF Spec, ClosedIsFinal

\* Where no sum wraps around, a refund of OrderPaymentModifyService.cancel is
\* balanced by PosTableActivity.addPayment: by the price of the one order it
\* cancels, or by what is owed again.
THEOREM RefundsBalance == Spec => RefundBalances
  <1> DEFINE IsBalanced(r) ==
        LET a == ledger'.payments[r].activity
            gone == OrderedOrders(ledger, a) \ OrderedOrders(ledger', a)
            owed == RemainingPaymentPrice(ledger', a) - RemainingPaymentPrice(ledger, a)
        IN  /\ ledger'.payments[r].state = "CANCEL"
            /\ IsExact(ledger, a) /\ IsExact(ledger', a)
            => \/ gone = {} /\ owed = ledger'.payments[r].amount
               \/ Cardinality(gone) = 1 /\ owed = 0
  <1>1. ASSUME IInv, Next, NEW r \in DOMAIN ledger'.payments \ DOMAIN ledger.payments
        PROVE  IsBalanced(r)
    <2>1. PICK m, a : m = ledger' /\ a = m.payments[r].activity
      OBVIOUS
    <2>2. SUFFICES ASSUME m.payments[r].state = "CANCEL", IsExact(ledger, a), IsExact(m, a)
                   PROVE  Balances(ledger, m, a, m.payments[r].amount)
      BY <2>1 DEF Balances
    <2>3. r \in DOMAIN m.payments \ DOMAIN ledger.payments
      BY <2>1
    <2>4. QED
      BY <1>1, <2>1, <2>2, <2>3, StepIsBalanced
  <1> HIDE DEF IsBalanced
  <1>2. IInv /\ [Next]_vars =>
          [\A r \in DOMAIN ledger'.payments \ DOMAIN ledger.payments : IsBalanced(r)]_vars
    BY <1>1
  <1>3. QED
    BY <1>2, SpecIInv, PTL DEF Spec, RefundBalances, IsBalanced

\* Whichever service closes an activity with orders standing, cancel and
\* refund included, it is paid for, unless a merge moved the payments.
THEOREM ClosingIsPaid == Spec => ClosesPaidUnlessMerged
  <1> DEFINE IsPaid(a) ==
        Closes(a) /\ ~Reassigns /\ HasOrderedOrder(ledger', a) =>
          RemainingPaymentPriceWithDiscount(ledger', a) <= 0
  <1>1. ASSUME IInv, Next, NEW a \in DOMAIN ledger.activities
        PROVE  IsPaid(a)
    <2>1. PICK m : m = ledger'
      OBVIOUS
    <2>2. SUFFICES ASSUME Closes(a), ~Reassigns, HasOrderedOrder(m, a)
                   PROVE  RemainingPaymentPriceWithDiscount(m, a) <= 0
      BY <2>1
    <2>3. ledger.activities[a].active /\ ~m.activities[a].active
      BY <2>1, <2>2 DEF Closes
    <2>4. ~Takes(ledger, m)
      BY <2>1, <2>2 DEF Reassigns, Takes
    <2>5. QED
      BY <1>1, <2>1, <2>2, <2>3, <2>4, StepClosesPaid
  <1> HIDE DEF IsPaid
  <1>2. IInv /\ [Next]_vars => [\A a \in DOMAIN ledger.activities : IsPaid(a)]_vars
    BY <1>1
  <1>3. QED
    BY <1>2, SpecIInv, PTL DEF Spec, ClosesPaidUnlessMerged, IsPaid

-----------------------------------------------------------------------------
(* The services run by many threads, each with the lock keys of its tables. *)

\* The services whose lock keys name the tables they work on: all but
\* OrderModifyService.create and OrderPaymentModifyService.cancel.
Keyed == Kinds \cap {"create", "refund"} = {}

\* What is known of such a request, whichever ledger it was made of.
KeyedRequest(q) ==
    \/ /\ q.kind = "approve"
       /\ q.table \in Tables /\ q.amount \in Amounts /\ q.approvalNo \in ApprovalNos \cup {Cash}
    \/ q.kind = "cancelOrder"
    \/ q.kind = "updateOrder" /\ q.price \in Prices \cup {Emptied}
    \/ q.kind = "discount"
    \/ q.kind = "complete"
    \/ q.kind = "move" /\ q.table \in Tables /\ q.target \in Tables /\ q.table # q.target

\* The identifiers it may give to new rows.
Numbers(q) == IF Makes(q) THEN {q.n} ELSE {}

LEMMA RequestKeyed ==
  ASSUME Keyed, NEW l, NEW n, NEW q \in RequestsOf(l, n)
  PROVE  KeyedRequest(q) /\ Numbers(q) \subseteq {n}
  <1>1. q.kind \in Kinds /\ q.kind # "create" /\ q.kind # "refund"
    BY DEF RequestsOf, Keyed
  <1>2. \/ q \in Creates(n) \/ q \in Approves(n) \/ q \in RefundsOf(l, n)
        \/ q \in OrderCancels(l) \/ q \in OrderUpdates(l) \/ q \in DiscountsOf
        \/ q \in Completes \/ q \in Moves
    BY DEF RequestsOf
  <1>3. q \notin Creates(n) /\ q \notin RefundsOf(l, n)
    BY <1>1 DEF Creates, RefundsOf
  <1>4. CASE q \in Approves(n)
    BY <1>4 DEF Approves, KeyedRequest, Numbers, Makes
  <1>5. CASE q \in OrderCancels(l)
    BY <1>5 DEF OrderCancels, KeyedRequest, Numbers, Makes
  <1>6. CASE q \in OrderUpdates(l)
    BY <1>6 DEF OrderUpdates, KeyedRequest, Numbers, Makes
  <1>7. CASE q \in DiscountsOf
    BY <1>7 DEF DiscountsOf, KeyedRequest, Numbers, Makes
  <1>8. CASE q \in Completes
    BY <1>8 DEF Completes, KeyedRequest, Numbers, Makes
  <1>9. CASE q \in Moves
    BY <1>9 DEF Moves, KeyedRequest, Numbers, Makes
  <1>10. QED
    BY <1>2, <1>3, <1>4, <1>5, <1>6, <1>7, <1>8, <1>9

\* Whatever ledger such a request works on, it leaves a change under its locks.
LEMMA RequestChange ==
  ASSUME NEW l, NEW n \in Nat, Serial(l, n), NEW q, KeyedRequest(q),
         \A i \in Numbers(q) : i \in 1 .. n /\ Fresh(l, i), NEW w \in Changes(q, l)
  PROVE  Change(l, w, n, Numbers(q), LockKeys(q))
  <1>1. CASE q.kind = "approve"
    <2>1. Numbers(q) = {q.n} /\ LockKeys(q) = {q.table}
      BY <1>1 DEF Numbers, Makes, LockKeys
    <2>2. /\ q.table \in Tables /\ q.amount \in Amounts
          /\ q.approvalNo \in ApprovalNos \cup {Cash}
          /\ q.n \in 1 .. n /\ Fresh(l, q.n)
      BY <1>1, <2>1 DEF KeyedRequest
    <2>3. PICK a \in FindOrCreate(l, q.table, q.n) :
            w = PaymentApproved(Loaded(l, {a}), q.table, a, q.n, q.amount, q.approvalNo)
      BY <1>1 DEF Changes
    <2>4. PICK t, m, amount, no :
            t = q.table /\ m = q.n /\ amount = q.amount /\ no = q.approvalNo
      OBVIOUS
    <2>5. /\ t \in Tables /\ amount \in Amounts /\ no \in ApprovalNos \cup {Cash}
          /\ m \in 1 .. n /\ Fresh(l, m) /\ a \in FindOrCreate(l, t, m)
          /\ w = PaymentApproved(Loaded(l, {a}), t, a, m, amount, no)
      BY <2>2, <2>3, <2>4
    <2>6. Change(l, w, n, {m}, {t})
      BY <2>5, ApproveChange
    <2>7. QED
      BY <2>1, <2>4, <2>6
  <1>2. CASE q.kind = "cancelOrder"
    <2>1. Numbers(q) = {} /\ LockKeys(q) = {q.table}
      BY <1>2 DEF Numbers, Makes, LockKeys
    <2>2. PICK a \in ActiveActivities(l, q.table) :
            w = OrderCanceled(Loaded(l, {a}), a, q.order)
      BY <1>2 DEF Changes
    <2>3. QED
      BY <2>1, <2>2, CancelChange
  <1>3. CASE q.kind = "updateOrder"
    <2>1. Numbers(q) = {} /\ LockKeys(q) = {q.table}
      BY <1>3 DEF Numbers, Makes, LockKeys
    <2>2. q.price \in Prices \cup {Emptied}
      BY <1>3 DEF KeyedRequest
    <2> DEFINE S == {a \in ActiveActivities(l, q.table) :
                       q.order \in OrderedOrders(Loaded(l, {a}), a)}
    <2>0. w \in {OrderUpdated(Loaded(l, {a}), a, q.order, q.price) : a \in S}
      <3>1. Changes(q, l) = {OrderUpdated(Loaded(l, {a}), a, q.order, q.price) : a \in S}
        BY <1>3, SMT DEF Changes
      <3>2. QED
        BY <3>1
    <2> HIDE DEF S
    <2>8. PICK a \in S : w = OrderUpdated(Loaded(l, {a}), a, q.order, q.price)
      BY <2>0
    <2>3. /\ a \in ActiveActivities(l, q.table)
          /\ q.order \in OrderedOrders(Loaded(l, {a}), a)
          /\ w = OrderUpdated(Loaded(l, {a}), a, q.order, q.price)
      BY <2>8 DEF S
    <2>4. PICK o, price : o = q.order /\ price = q.price
      OBVIOUS
    <2>5. /\ o \in OrderedOrders(Loaded(l, {a}), a) /\ price \in Prices \cup {Emptied}
          /\ w = OrderUpdated(Loaded(l, {a}), a, o, price)
      BY <2>2, <2>3, <2>4
    <2>6. Change(l, w, n, {}, {q.table})
      BY <2>3, <2>5, UpdateChange
    <2>7. QED
      BY <2>1, <2>6
  <1>4. CASE q.kind = "discount"
    <2>1. Numbers(q) = {} /\ LockKeys(q) = {q.table}
      BY <1>4 DEF Numbers, Makes, LockKeys
    <2>2. PICK a \in ActiveActivities(l, q.table) :
            w = Discounted(Loaded(l, {a}), a, q.discount)
      BY <1>4 DEF Changes
    <2>3. QED
      BY <2>1, <2>2, DiscountChange
  <1>5. CASE q.kind = "complete"
    <2>1. Numbers(q) = {} /\ LockKeys(q) = {q.table}
      BY <1>5 DEF Numbers, Makes, LockKeys
    <2> DEFINE S == {a \in ActiveActivities(l, q.table) : CanComplete(Loaded(l, {a}), a)}
    <2>0. w \in {Completed(Loaded(l, {a}), a) : a \in S}
      <3>1. Changes(q, l) = {Completed(Loaded(l, {a}), a) : a \in S}
        BY <1>5, SMT DEF Changes
      <3>2. QED
        BY <3>1
    <2> HIDE DEF S
    <2>2. PICK a \in S : w = Completed(Loaded(l, {a}), a)
      BY <2>0
    <2>3. a \in ActiveActivities(l, q.table) /\ CanComplete(Loaded(l, {a}), a)
      BY DEF S
    <2>4. QED
      BY <2>1, <2>2, <2>3, CompleteChange
  <1>6. CASE q.kind = "move"
    <2>1. Numbers(q) = {} /\ LockKeys(q) = {q.table, q.target}
      BY <1>6 DEF Numbers, Makes, LockKeys
    <2>2. PICK s, t : s = q.table /\ t = q.target
      OBVIOUS
    <2>3. s \in Tables /\ t \in Tables /\ s # t
      BY <1>6, <2>2 DEF KeyedRequest
    <2>0. w \in MoveChanges(l, s, t)
      BY <1>6, <2>2 DEF Changes
    <2>4. Change(l, w, n, {}, {s, t})
      <3>1. CASE ActiveActivities(l, t) = {}
        <4>1. PICK a \in ActiveActivities(l, s) : w = Moved(Loaded(l, {a}), a, t)
          BY <2>0, <3>1 DEF MoveChanges
        <4>2. QED
          BY <2>3, <3>1, <4>1, MoveChange
      <3>2. CASE ActiveActivities(l, t) # {}
        <4> DEFINE joined(a, b) == Merged(Loaded(l, {a, b}), a, b)
                   A == ActiveActivities(l, s)
                   B == ActiveActivities(l, t)
                   moved == {Moved(Loaded(l, {a}), a, t) : a \in A}
                   merged == {joined(a, b) : a \in A, b \in B}
        <4>0. MoveChanges(l, s, t) = IF B = {} THEN moved ELSE merged
          BY DEF MoveChanges
        <4>1. w \in merged
          <5> HIDE DEF B, moved, merged
          <5>1. QED
            BY <2>0, <3>2, <4>0 DEF B
        <4>2. PICK a \in A, b \in B : w = joined(a, b)
          <5> HIDE DEF joined, A, B
          <5>1. QED
            BY <4>1
        <4>3. QED
          BY <2>3, <4>2, MergeChange
      <3>3. QED
        BY <3>1, <3>2
    <2>5. QED
      BY <2>1, <2>2, <2>4
  <1>7. QED
    BY <1>1, <1>2, <1>3, <1>4, <1>5, <1>6 DEF KeyedRequest

\* The activities open at tables of K, and what is loaded with them: all that
\* a service under the lock keys K reads.
SeatedAt(l, K) ==
    {a \in DOMAIN l.activities : l.activities[a].active /\ l.activities[a].table \in K}

View(l, K) == Loaded(l, SeatedAt(l, K))

LEMMA LoadedTwice ==
  ASSUME NEW l, NEW R, NEW S, S \subseteq R
  PROVE  Loaded(Loaded(l, R), S) = Loaded(l, S)
  <1> DEFINE g == Loaded(l, R)
  <1>1. /\ DOMAIN g.activities = DOMAIN l.activities \cap R
        /\ \A c \in DOMAIN l.activities \cap R : g.activities[c] = l.activities[c]
        /\ DOMAIN g.orders = {o \in DOMAIN l.orders : l.orders[o].activity \in R}
        /\ \A o \in DOMAIN g.orders : g.orders[o] = l.orders[o]
        /\ DOMAIN g.payments = {p \in DOMAIN l.payments : l.payments[p].activity \in R}
        /\ \A p \in DOMAIN g.payments : g.payments[p] = l.payments[p]
    BY DEF Loaded
  <1> HIDE DEF g
  <1>2. [c \in DOMAIN g.activities \cap S |-> g.activities[c]]
          = [c \in DOMAIN l.activities \cap S |-> l.activities[c]]
    <2>1. DOMAIN g.activities \cap S = DOMAIN l.activities \cap S
      BY <1>1
    <2>2. \A c \in DOMAIN l.activities \cap S : g.activities[c] = l.activities[c]
      BY <1>1
    <2>3. QED
      BY <2>1, <2>2
  <1>3. {o \in DOMAIN g.orders : g.orders[o].activity \in S}
          = {o \in DOMAIN l.orders : l.orders[o].activity \in S}
    BY <1>1
  <1>4. {p \in DOMAIN g.payments : g.payments[p].activity \in S}
          = {p \in DOMAIN l.payments : l.payments[p].activity \in S}
    BY <1>1
  <1>5. [o \in {o \in DOMAIN g.orders : g.orders[o].activity \in S} |-> g.orders[o]]
          = [o \in {o \in DOMAIN l.orders : l.orders[o].activity \in S} |-> l.orders[o]]
    BY <1>1, <1>3
  <1>6. [p \in {p \in DOMAIN g.payments : g.payments[p].activity \in S} |-> g.payments[p]]
          = [p \in {p \in DOMAIN l.payments : l.payments[p].activity \in S} |-> l.payments[p]]
    BY <1>1, <1>4
  <1>7. Loaded(g, S) = Loaded(l, S)
    BY <1>2, <1>5, <1>6 DEF Loaded
  <1>8. QED
    BY <1>7 DEF g

\* Two ledgers that look the same under K seat the same parties there, with
\* the same orders and payments.
LEMMA SameView ==
  ASSUME NEW l, NEW m, NEW K, View(l, K) = View(m, K)
  PROVE  /\ SeatedAt(l, K) = SeatedAt(m, K)
         /\ \A c \in SeatedAt(l, K) : l.activities[c] = m.activities[c]
         /\ \A S \in SUBSET SeatedAt(l, K) : Loaded(l, S) = Loaded(m, S)
         /\ \A t \in K : /\ ActiveActivities(l, t) = ActiveActivities(m, t)
                         /\ ActiveActivities(l, t) \subseteq SeatedAt(l, K)
  <1>1. \A x, S : /\ DOMAIN Loaded(x, S).activities = DOMAIN x.activities \cap S
                  /\ \A c \in DOMAIN x.activities \cap S :
                       Loaded(x, S).activities[c] = x.activities[c]
    BY DEF Loaded
  <1>2. \A x : DOMAIN View(x, K).activities = SeatedAt(x, K)
    BY <1>1 DEF View, SeatedAt
  <1>3. \A x : \A c \in SeatedAt(x, K) : View(x, K).activities[c] = x.activities[c]
    BY <1>1 DEF View, SeatedAt
  <1>4. SeatedAt(l, K) = SeatedAt(m, K)
    BY <1>2
  <1>5. \A c \in SeatedAt(l, K) : l.activities[c] = m.activities[c]
    BY <1>3, <1>4
  <1>6. ASSUME NEW S \in SUBSET SeatedAt(l, K)
        PROVE  Loaded(l, S) = Loaded(m, S)
    <2>1. Loaded(View(l, K), S) = Loaded(l, S) /\ Loaded(View(m, K), S) = Loaded(m, S)
      BY <1>4, LoadedTwice DEF View
    <2>2. QED
      BY <2>1
  <1>7. \A t \in K : /\ ActiveActivities(l, t) = ActiveActivities(m, t)
                     /\ ActiveActivities(l, t) \subseteq SeatedAt(l, K)
    <2>1. \A x : \A t \in K : ActiveActivities(x, t) =
                                {c \in SeatedAt(x, K) : x.activities[c].table = t}
      BY DEF ActiveActivities, SeatedAt
    <2>2. \A t \in K : {c \in SeatedAt(l, K) : l.activities[c].table = t}
                         = {c \in SeatedAt(m, K) : m.activities[c].table = t}
      BY <1>4, <1>5
    <2>3. ASSUME NEW t \in K
          PROVE  /\ ActiveActivities(l, t) = ActiveActivities(m, t)
                 /\ ActiveActivities(l, t) \subseteq SeatedAt(l, K)
      <3>1. ActiveActivities(l, t) = {c \in SeatedAt(l, K) : l.activities[c].table = t}
        BY <2>1
      <3>2. ActiveActivities(m, t) = {c \in SeatedAt(m, K) : m.activities[c].table = t}
        BY <2>1
      <3>3. QED
        BY <2>2, <3>1, <3>2
    <2>4. QED
      BY <2>3
  <1>8. QED
    BY <1>4, <1>5, <1>6, <1>7

\* What a service saves under the locks of K leaves the view of others.
LEMMA ViewKept ==
  ASSUME NEW l, NEW n \in Nat, NEW w, NEW N, NEW K, Change(l, w, n, N, K),
         NEW L, K \cap L = {}
  PROVE  View(Saved(l, w), L) = View(l, L)
  <1> DEFINE m == Saved(l, w)
             S == SeatedAt(l, L)
  <1>1. IsSaved(m, l, w)
    BY SavedRowsOf
  <1>2. /\ Fits(l, w, N, K) /\ OnOpen(l, w, K)
        /\ \A o \in DOMAIN w.orders : w.orders[o].activity \in DOMAIN w.activities
        /\ \A p \in DOMAIN w.payments : w.payments[p].activity \in DOMAIN w.activities
    BY DEF Change, Serial, IsLedger
  <1> HIDE DEF m
  <1>3. S \cap DOMAIN w.activities = {}
    BY <1>2 DEF OnOpen, SeatedAt
  <1>4. SeatedAt(m, L) = S
    BY <1>1, <1>2, <1>3 DEF SeatedAt, IsSaved, Fits
  <1> HIDE DEF S
  <1>5. DOMAIN m.activities \cap S = DOMAIN l.activities \cap S
    BY <1>1, <1>3 DEF IsSaved
  <1>6. \A c \in DOMAIN l.activities \cap S : m.activities[c] = l.activities[c]
    BY <1>1, <1>3 DEF IsSaved
  <1>7. {o \in DOMAIN m.orders : m.orders[o].activity \in S}
          = {o \in DOMAIN l.orders : l.orders[o].activity \in S}
    <2>1. \A o \in DOMAIN w.orders : w.orders[o].activity \notin S
      BY <1>2, <1>3
    <2>2. \A o \in DOMAIN l.orders \cap DOMAIN w.orders : l.orders[o].activity \notin S
      BY <1>2, <1>3 DEF Fits
    <2>3. QED
      BY <1>1, <2>1, <2>2 DEF IsSaved
  <1>8. {p \in DOMAIN m.payments : m.payments[p].activity \in S}
          = {p \in DOMAIN l.payments : l.payments[p].activity \in S}
    <2>1. \A p \in DOMAIN w.payments : w.payments[p].activity \notin S
      BY <1>2, <1>3
    <2>2. \A p \in DOMAIN l.payments \cap DOMAIN w.payments : l.payments[p].activity \notin S
      BY <1>2, <1>3 DEF Fits
    <2>3. QED
      BY <1>1, <2>1, <2>2 DEF IsSaved
  <1>9. \A o \in {o \in DOMAIN l.orders : l.orders[o].activity \in S} :
          m.orders[o] = l.orders[o]
    BY <1>1, <1>2, <1>3 DEF IsSaved, Fits
  <1>10. \A p \in {p \in DOMAIN l.payments : l.payments[p].activity \in S} :
           m.payments[p] = l.payments[p]
    BY <1>1, <1>2, <1>3 DEF IsSaved, Fits
  <1>11. Loaded(m, S) = Loaded(l, S)
    <2>1. [c \in DOMAIN m.activities \cap S |-> m.activities[c]]
            = [c \in DOMAIN l.activities \cap S |-> l.activities[c]]
      BY <1>5, <1>6
    <2>2. [o \in {o \in DOMAIN m.orders : m.orders[o].activity \in S} |-> m.orders[o]]
            = [o \in {o \in DOMAIN l.orders : l.orders[o].activity \in S} |-> l.orders[o]]
      BY <1>7, <1>9
    <2>3. [p \in {p \in DOMAIN m.payments : m.payments[p].activity \in S} |-> m.payments[p]]
            = [p \in {p \in DOMAIN l.payments : l.payments[p].activity \in S} |->
                 l.payments[p]]
      BY <1>8, <1>10
    <2>4. QED
      BY <2>1, <2>2, <2>3 DEF Loaded
  <1>12. QED
    BY <1>4, <1>11 DEF View, m, S

\* A service that computed on a snapshot g, with rows that look the same now,
\* writes back what it would have saved now.
LEMMA WriteBackSaves ==
  ASSUME NEW g, NEW n \in Nat, NEW w, NEW N, NEW K, Serial(g, n), Change(g, w, n, N, K),
         NEW l, View(g, K) = View(l, K),
         DOMAIN g.activities \subseteq DOMAIN l.activities,
         DOMAIN g.orders \subseteq DOMAIN l.orders,
         DOMAIN g.payments \subseteq DOMAIN l.payments
  PROVE  WriteBack(l, g, Saved(g, w)) = Saved(l, w)
  <1> DEFINE m == Saved(g, w)
             S == SeatedAt(g, K)
             r == WriteBack(l, g, m)
             s == Saved(l, w)
  <1>1. IsSaved(m, g, w)
    BY SavedRowsOf
  <1>2. Fits(g, w, N, K) /\ OnOpen(g, w, K)
    BY DEF Change
  <1>3. DOMAIN w.activities \cap DOMAIN g.activities \subseteq S
    BY <1>2 DEF OnOpen, SeatedAt
  <1>4. Loaded(g, S) = Loaded(l, S) /\ \A c \in S : g.activities[c] = l.activities[c]
    BY SameView
  <1>5. /\ \A o \in DOMAIN g.orders : g.orders[o].activity \in DOMAIN g.activities
        /\ \A p \in DOMAIN g.payments : g.payments[p].activity \in DOMAIN g.activities
    BY DEF Serial, IsLedger
  <1> HIDE DEF m, S
  <1>6. \A o \in DOMAIN w.orders \cap DOMAIN g.orders : g.orders[o] = l.orders[o]
    <2>1. \A x : /\ DOMAIN Loaded(x, S).orders =
                      {o \in DOMAIN x.orders : x.orders[o].activity \in S}
                 /\ \A o \in DOMAIN Loaded(x, S).orders :
                      Loaded(x, S).orders[o] = x.orders[o]
      BY DEF Loaded
    <2>2. \A o \in DOMAIN w.orders \cap DOMAIN g.orders : g.orders[o].activity \in S
      BY <1>2, <1>3, <1>5 DEF Fits
    <2>3. QED
      BY <1>4, <2>1, <2>2
  <1>7. \A p \in DOMAIN w.payments \cap DOMAIN g.payments : g.payments[p] = l.payments[p]
    <2>1. \A x : /\ DOMAIN Loaded(x, S).payments =
                      {p \in DOMAIN x.payments : x.payments[p].activity \in S}
                 /\ \A p \in DOMAIN Loaded(x, S).payments :
                      Loaded(x, S).payments[p] = x.payments[p]
      BY DEF Loaded
    <2>2. \A p \in DOMAIN w.payments \cap DOMAIN g.payments : g.payments[p].activity \in S
      BY <1>2, <1>3, <1>5 DEF Fits
    <2>3. QED
      BY <1>4, <2>1, <2>2
  <1>8. WriteRows(l.activities, g.activities, m.activities)
          = SavedRows(l.activities, w.activities)
    <2>1. \A c \in DOMAIN w.activities \cap DOMAIN g.activities :
            g.activities[c] = l.activities[c]
      BY <1>3, <1>4
    <2>2. QED
      BY <1>1, <2>1 DEF WriteRows, SavedRows, IsSaved
  <1>9. WriteRows(l.orders, g.orders, m.orders) = SavedRows(l.orders, w.orders)
    BY <1>1, <1>6 DEF WriteRows, SavedRows, IsSaved
  <1>10. WriteRows(l.payments, g.payments, m.payments)
           = SavedRows(l.payments, w.payments)
    BY <1>1, <1>7 DEF WriteRows, SavedRows, IsSaved
  <1>11. QED
    BY <1>8, <1>9, <1>10 DEF WriteBack, Saved, m

LEMMA LoadedNothing ==
  ASSUME NEW l, NEW n, IsLedger(l, n), NEW a, a \notin DOMAIN l.activities
  PROVE  Loaded(l, {a}) = Loaded(l, {})
  <1>1. DOMAIN l.activities \cap {a} = DOMAIN l.activities \cap {}
    OBVIOUS
  <1>2. {o \in DOMAIN l.orders : l.orders[o].activity \in {a}}
          = {o \in DOMAIN l.orders : l.orders[o].activity \in {}}
    BY DEF IsLedger
  <1>3. {p \in DOMAIN l.payments : l.payments[p].activity \in {a}}
          = {p \in DOMAIN l.payments : l.payments[p].activity \in {}}
    BY DEF IsLedger
  <1>4. QED
    BY <1>1, <1>2, <1>3 DEF Loaded

\* A request leaves the same of two ledgers that look the same under its locks.
LEMMA SameChanges ==
  ASSUME NEW l, NEW m, NEW n, IsLedger(l, n), IsLedger(m, n), NEW q, KeyedRequest(q),
         View(l, LockKeys(q)) = View(m, LockKeys(q)),
         \A i \in Numbers(q) : Fresh(l, i) /\ Fresh(m, i)
  PROVE  Changes(q, l) = Changes(q, m)
  <1> DEFINE K == LockKeys(q)
             S == SeatedAt(l, K)
  <1>1. /\ \A R \in SUBSET S : Loaded(l, R) = Loaded(m, R)
        /\ \A t \in K : /\ ActiveActivities(l, t) = ActiveActivities(m, t)
                        /\ ActiveActivities(l, t) \subseteq S
    BY SameView
  <1>2. q.kind # "move" => K = {q.table}
    BY DEF KeyedRequest, LockKeys
  <1>3. q.kind = "move" => q.table \in K /\ q.target \in K
    BY DEF LockKeys
  <1> DEFINE A == ActiveActivities(l, q.table)
  <1>4. A = ActiveActivities(m, q.table) /\ A \subseteq S
    BY <1>1, <1>2, <1>3
  <1>0. \A a \in A : {a} \in SUBSET S
    BY <1>4
  <1>5. \A a \in A : Loaded(l, {a}) = Loaded(m, {a})
    BY <1>0, <1>1
  <1> HIDE DEF K, S, A
  <1>6. CASE q.kind = "approve"
    <2> DEFINE F == FindOrCreate(l, q.table, q.n)
               left(a) ==
                 PaymentApproved(Loaded(l, {a}), q.table, a, q.n, q.amount, q.approvalNo)
               right(a) ==
                 PaymentApproved(Loaded(m, {a}), q.table, a, q.n, q.amount, q.approvalNo)
    <2>1. Fresh(l, q.n) /\ Fresh(m, q.n)
      BY <1>6 DEF Numbers, Makes
    <2>2. F = FindOrCreate(m, q.table, q.n) /\ F = IF A = {} THEN {q.n} ELSE A
      BY <1>4 DEF FindOrCreate, A
    <2>3. Loaded(l, {q.n}) = Loaded(m, {q.n})
      <3>1. {} \in SUBSET S
        OBVIOUS
      <3>2. Loaded(l, {}) = Loaded(m, {})
        BY <1>1, <3>1
      <3>3. PICK i : i = q.n
        OBVIOUS
      <3>4. i \notin DOMAIN l.activities /\ i \notin DOMAIN m.activities
        BY <2>1, <3>3 DEF Fresh
      <3>5. Loaded(l, {i}) = Loaded(l, {}) /\ Loaded(m, {i}) = Loaded(m, {})
        BY <3>4, LoadedNothing
      <3>6. QED
        BY <3>2, <3>3, <3>5
    <2>4. \A a \in F : Loaded(l, {a}) = Loaded(m, {a})
      BY <1>5, <2>2, <2>3
    <2>5. \A a \in F : left(a) = right(a)
      BY <2>4
    <2>6. Changes(q, l) = {left(a) : a \in F}
      BY <1>6 DEF Changes
    <2>7. Changes(q, m) = {right(a) : a \in FindOrCreate(m, q.table, q.n)}
      BY <1>6 DEF Changes
    <2> HIDE DEF left, right, F
    <2>8. QED
      BY <2>2, <2>5, <2>6, <2>7
  <1>7. CASE q.kind = "cancelOrder"
    <2> DEFINE left(a) == OrderCanceled(Loaded(l, {a}), a, q.order)
               right(a) == OrderCanceled(Loaded(m, {a}), a, q.order)
               F == {a \in A : q.order \in OrderedOrders(Loaded(l, {a}), a)}
               G == {a \in A : q.order \in OrderedOrders(Loaded(m, {a}), a)}
    <2>1. F = G
      BY <1>5
    <2>2. \A a \in F : left(a) = right(a)
      BY <1>5
    <2>3. Changes(q, l) = {left(a) : a \in F}
      BY <1>7 DEF Changes, A
    <2>4. Changes(q, m) = {right(a) : a \in G}
      BY <1>4, <1>7 DEF Changes
    <2> HIDE DEF left, right, F, G
    <2>5. QED
      BY <2>1, <2>2, <2>3, <2>4
  <1>8. CASE q.kind = "updateOrder"
    <2> DEFINE left(a) == OrderUpdated(Loaded(l, {a}), a, q.order, q.price)
               right(a) == OrderUpdated(Loaded(m, {a}), a, q.order, q.price)
               F == {a \in A : q.order \in OrderedOrders(Loaded(l, {a}), a)}
               G == {a \in A : q.order \in OrderedOrders(Loaded(m, {a}), a)}
    <2>1. F = G
      BY <1>5
    <2>2. \A a \in F : left(a) = right(a)
      BY <1>5
    <2>3. Changes(q, l) = {left(a) : a \in F}
      BY <1>8 DEF Changes, A
    <2>4. Changes(q, m) = {right(a) : a \in G}
      BY <1>4, <1>8 DEF Changes
    <2> HIDE DEF left, right, F, G
    <2>5. QED
      BY <2>1, <2>2, <2>3, <2>4
  <1>9. CASE q.kind = "discount"
    <2> DEFINE left(a) == Discounted(Loaded(l, {a}), a, q.discount)
               right(a) == Discounted(Loaded(m, {a}), a, q.discount)
    <2>1. \A a \in A : left(a) = right(a)
      BY <1>5
    <2>2. Changes(q, l) = {left(a) : a \in A}
      BY <1>9 DEF Changes, A
    <2>3. Changes(q, m) = {right(a) : a \in A}
      BY <1>4, <1>9 DEF Changes
    <2> HIDE DEF left, right
    <2>4. QED
      BY <2>1, <2>2, <2>3
  <1>10. CASE q.kind = "complete"
    <2> DEFINE left(a) == Completed(Loaded(l, {a}), a)
               right(a) == Completed(Loaded(m, {a}), a)
               F == {a \in A : CanComplete(Loaded(l, {a}), a)}
               G == {a \in A : CanComplete(Loaded(m, {a}), a)}
    <2>1. F = G
      BY <1>5
    <2>2. \A a \in F : left(a) = right(a)
      BY <1>5
    <2>3. Changes(q, l) = {left(a) : a \in F}
      BY <1>10 DEF Changes, A
    <2>4. Changes(q, m) = {right(a) : a \in G}
      BY <1>4, <1>10 DEF Changes
    <2> HIDE DEF left, right, F, G
    <2>5. QED
      BY <2>1, <2>2, <2>3, <2>4
  <1>11. CASE q.kind = "move"
    <2> DEFINE B == ActiveActivities(l, q.target)
    <2>1. B = ActiveActivities(m, q.target) /\ B \subseteq S
      BY <1>1, <1>3, <1>11
    <2>2. \A a \in A, b \in B : {a, b} \in SUBSET S
      BY <1>4, <2>1
    <2>3. \A a \in A, b \in B : Loaded(l, {a, b}) = Loaded(m, {a, b})
      BY <1>1, <2>2
    <2>4. PICK s, t : s = q.table /\ t = q.target
      OBVIOUS
    <2> DEFINE leftMoved(a) == Moved(Loaded(l, {a}), a, t)
               rightMoved(a) == Moved(Loaded(m, {a}), a, t)
               leftMerged(a, b) == Merged(Loaded(l, {a, b}), a, b)
               rightMerged(a, b) == Merged(Loaded(m, {a, b}), a, b)
    <2>5. \A a \in A : leftMoved(a) = rightMoved(a)
      BY <1>5
    <2>6. \A a \in A, b \in B : leftMerged(a, b) = rightMerged(a, b)
      BY <2>3
    <2>7. MoveChanges(l, s, t) =
            IF ActiveActivities(l, t) = {}
              THEN {leftMoved(a) : a \in ActiveActivities(l, s)}
              ELSE {leftMerged(a, b) :
                      a \in ActiveActivities(l, s), b \in ActiveActivities(l, t)}
      BY DEF MoveChanges
    <2>8. MoveChanges(m, s, t) =
            IF ActiveActivities(m, t) = {}
              THEN {rightMoved(a) : a \in ActiveActivities(m, s)}
              ELSE {rightMerged(a, b) :
                      a \in ActiveActivities(m, s), b \in ActiveActivities(m, t)}
      BY DEF MoveChanges
    <2>9. /\ ActiveActivities(l, s) = A /\ ActiveActivities(m, s) = A
          /\ ActiveActivities(l, t) = B /\ ActiveActivities(m, t) = B
      BY <1>4, <2>1, <2>4 DEF A
    <2>10. Changes(q, l) = MoveChanges(l, s, t) /\ Changes(q, m) = MoveChanges(m, s, t)
      BY <1>11, <2>4 DEF Changes
    <2> HIDE DEF leftMoved, rightMoved, leftMerged, rightMerged, B
    <2>11. {leftMoved(a) : a \in A} = {rightMoved(a) : a \in A}
      BY <2>5
    <2>12. {leftMerged(a, b) : a \in A, b \in B} = {rightMerged(a, b) : a \in A, b \in B}
      BY <2>6
    <2>13. QED
      BY <2>7, <2>8, <2>9, <2>10, <2>11, <2>12
  <1>12. QED
    BY <1>6, <1>7, <1>8, <1>9, <1>10, <1>11 DEF KeyedRequest

\* A transaction x that runs on ledger l, with rows numbered up to n: what it
\* read was serial and still looks the same under its locks, what it would write
\* is an outcome of that, and its identifiers are its own.
Runs(l, n, x) ==
    /\ KeyedRequest(x.request)
    /\ \A i \in Numbers(x.request) : i \in 1 .. n /\ Fresh(l, i) /\ Fresh(x.read, i)
    /\ Serial(x.read, n)
    /\ View(x.read, LockKeys(x.request)) = View(l, LockKeys(x.request))
    /\ DOMAIN x.read.activities \subseteq DOMAIN l.activities
    /\ DOMAIN x.read.orders \subseteq DOMAIN l.orders
    /\ DOMAIN x.read.payments \subseteq DOMAIN l.payments
    /\ \E w \in Changes(x.request, x.read) : x.wrote = Saved(x.read, w)

\* Two that run at once share no lock and no identifier.
Apart(x, y) ==
    /\ LockKeys(x.request) \cap LockKeys(y.request) = {}
    /\ Numbers(x.request) \cap Numbers(y.request) = {}

\* The inductive invariant of the threads.
TxInv ==
    /\ clock \in Nat
    /\ Serial(ledger, clock)
    /\ txn = [r \in Threads |-> txn[r]]
    /\ \A r \in Running : Runs(ledger, clock, txn[r])
    /\ \A r, s \in Running : r # s => Apart(txn[r], txn[s])

\* A commit leaves what the request would leave alone.
LEMMA RunCommits ==
  ASSUME NEW l, NEW n \in Nat, Serial(l, n), NEW x, Runs(l, n, x)
  PROVE  \E w \in Changes(x.request, l) :
           /\ Change(l, w, n, Numbers(x.request), LockKeys(x.request))
           /\ WriteBack(l, x.read, x.wrote) = Saved(l, w)
  <1>1. PICK q, g, K, N : /\ q = x.request /\ g = x.read
                          /\ K = LockKeys(q) /\ N = Numbers(q)
    OBVIOUS
  <1>2. /\ KeyedRequest(q) /\ Serial(g, n) /\ View(g, K) = View(l, K)
        /\ \A i \in Numbers(q) : i \in 1 .. n /\ Fresh(l, i) /\ Fresh(g, i)
        /\ DOMAIN g.activities \subseteq DOMAIN l.activities
        /\ DOMAIN g.orders \subseteq DOMAIN l.orders
        /\ DOMAIN g.payments \subseteq DOMAIN l.payments
    BY <1>1 DEF Runs
  <1>3. PICK w \in Changes(q, g) : x.wrote = Saved(g, w)
    BY <1>1 DEF Runs
  <1>4. Change(g, w, n, N, K)
    BY <1>1, <1>2, RequestChange
  <1>5. View(g, LockKeys(q)) = View(l, LockKeys(q)) /\ IsLedger(g, n) /\ IsLedger(l, n)
    BY <1>1, <1>2 DEF Serial
  <1>6. Changes(q, g) = Changes(q, l)
    BY <1>2, <1>5, SameChanges
  <1>7. Change(l, w, n, N, K)
    BY <1>1, <1>2, <1>6, RequestChange
  <1>8. WriteBack(l, g, Saved(g, w)) = Saved(l, w)
    BY <1>2, <1>4, WriteBackSaves
  <1>9. QED
    BY <1>1, <1>3, <1>6, <1>7, <1>8

\* It leaves the others that run to run.
LEMMA OthersRun ==
  ASSUME NEW l, NEW n \in Nat, NEW x, NEW w,
         Change(l, w, n, Numbers(x.request), LockKeys(x.request)),
         NEW y, Runs(l, n, y), Apart(x, y)
  PROVE  Runs(Saved(l, w), n, y)
  <1> DEFINE m == Saved(l, w)
  <1>1. IsSaved(m, l, w)
    BY SavedRowsOf
  <1>2. PICK K, N, L : /\ K = LockKeys(x.request) /\ N = Numbers(x.request)
                       /\ L = LockKeys(y.request)
    OBVIOUS
  <1>3. Change(l, w, n, N, K) /\ K \cap L = {} /\ N \cap Numbers(y.request) = {}
    BY <1>2 DEF Apart
  <1>4. View(m, L) = View(l, L)
    BY <1>3, ViewKept
  <1> HIDE DEF m
  <1>5. /\ DOMAIN l.activities \subseteq DOMAIN m.activities
        /\ DOMAIN l.orders \subseteq DOMAIN m.orders
        /\ DOMAIN l.payments \subseteq DOMAIN m.payments
    BY <1>1 DEF IsSaved
  <1>6. \A i \in Numbers(y.request) : Fresh(l, i) => Fresh(m, i)
    BY <1>1, <1>3 DEF Change, Fits, IsSaved, Fresh
  <1>7. Runs(m, n, y)
    BY <1>2, <1>4, <1>5, <1>6 DEF Runs
  <1>8. QED
    BY <1>7 DEF m

\* An evening sets out with nothing running.
LEMMA TxInitInv == TxInit => TxInv
  <1> SUFFICES ASSUME TxInit PROVE TxInv
    OBVIOUS
  <1>1. clock \in Nat /\ Serial(ledger, clock)
    BY TransactionsAssumption DEF TxInit, Serial
  <1>2. txn = [r \in Threads |-> txn[r]] /\ Running = {}
    BY DEF TxInit, Running
  <1>3. QED
    BY <1>1, <1>2 DEF TxInv

LEMMA RunsLater ==
  ASSUME NEW l, NEW n \in Nat, NEW x, Runs(l, n, x)
  PROVE  Runs(l, n + 1, x)
  <1>1. Serial(x.read, n + 1)
    BY LaterSerial DEF Runs
  <1>2. \A i \in 1 .. n : i \in 1 .. (n + 1)
    OBVIOUS
  <1>3. QED
    BY <1>1, <1>2 DEF Runs

\* What a thread that begins does.
LEMMA Begun ==
  ASSUME Keyed, TxInv, NEW r \in Threads, Begin(r)
  PROVE  /\ ledger' = ledger
         /\ txn' = [s \in Threads |-> IF s = r THEN txn'[r] ELSE txn[s]]
         /\ clock' \in Nat /\ Serial(ledger, clock')
         /\ clock' = clock \/ clock' = clock + 1
         /\ Runs(ledger, clock', txn'[r])
         /\ \A s \in Running : Apart(txn'[r], txn[s])
  <1>0. /\ clock \in Nat /\ Serial(ledger, clock) /\ txn = [s \in Threads |-> txn[s]]
        /\ \A s \in Running : Runs(ledger, clock, txn[s])
    BY DEF TxInv
  <1>1. PICK q \in RequestsOf(ledger, clock + 1) :
          /\ LockKeys(q) \cap Locked = {}
          /\ clock' = IF Makes(q) THEN q.n ELSE clock
          /\ \E wrote \in Outcomes(q, ledger) :
               txn' = [txn EXCEPT ![r] = [request |-> q, read |-> ledger, wrote |-> wrote]]
    BY DEF Begin
  <1>2. PICK wrote \in Outcomes(q, ledger) :
          txn' = [txn EXCEPT ![r] = [request |-> q, read |-> ledger, wrote |-> wrote]]
    BY <1>1
  <1>3. PICK w \in Changes(q, ledger) : wrote = Saved(ledger, w)
    BY DEF Outcomes
  <1>4. PICK x : x = txn'[r]
    OBVIOUS
  <1>5. /\ x.request = q /\ x.read = ledger /\ x.wrote = Saved(ledger, w)
        /\ txn' = [s \in Threads |-> IF s = r THEN x ELSE txn[s]]
    BY <1>0, <1>2, <1>3, <1>4
  <1>6. KeyedRequest(q) /\ Numbers(q) \subseteq {clock + 1}
    BY RequestKeyed
  <1>7. clock' = (IF Numbers(q) = {} THEN clock ELSE clock + 1)
    <2>1. CASE Makes(q)
      BY <1>1, <1>6, <2>1 DEF Numbers
    <2>2. CASE ~Makes(q)
      BY <1>1, <2>2 DEF Numbers
    <2>3. QED
      BY <2>1, <2>2
  <1>8. clock' \in Nat /\ (clock' = clock \/ clock' = clock + 1)
    BY <1>0, <1>7
  <1>9. Serial(ledger, clock')
    BY <1>0, <1>8, LaterSerial
  <1>10. Fresh(ledger, clock + 1)
    BY <1>0 DEF Serial, IsLedger, Fresh
  <1>11. \A i \in Numbers(q) : i \in 1 .. clock' /\ Fresh(ledger, i)
    BY <1>0, <1>6, <1>7, <1>10
  <1>12. Runs(ledger, clock', x)
    BY <1>3, <1>5, <1>6, <1>9, <1>11 DEF Runs
  <1>13. ASSUME NEW s \in Running PROVE Apart(x, txn[s])
    <2>1. LockKeys(txn[s].request) \subseteq Locked
      BY DEF Locked
    <2>2. \A i \in Numbers(txn[s].request) : i \in 1 .. clock
      BY <1>0 DEF Runs
    <2>3. clock + 1 \notin Numbers(txn[s].request)
      BY <1>0, <2>2
    <2>4. QED
      BY <1>1, <1>5, <1>6, <2>1, <2>3 DEF Apart
  <1>14. ledger' = ledger
    BY DEF Begin
  <1>15. QED
    BY <1>4, <1>5, <1>8, <1>9, <1>12, <1>13, <1>14

LEMMA BeginInv ==
  ASSUME Keyed, TxInv, NEW r \in Threads, Begin(r)
  PROVE  TxInv'
  <1>0. /\ clock \in Nat /\ txn = [s \in Threads |-> txn[s]] /\ txn[r] = Idle
        /\ \A s \in Running : Runs(ledger, clock, txn[s])
        /\ \A s, t \in Running : s # t => Apart(txn[s], txn[t])
    BY DEF TxInv, Begin
  <1>1. /\ ledger' = ledger
        /\ txn' = [s \in Threads |-> IF s = r THEN txn'[r] ELSE txn[s]]
        /\ clock' \in Nat /\ Serial(ledger, clock')
        /\ clock' = clock \/ clock' = clock + 1
        /\ Runs(ledger, clock', txn'[r])
        /\ \A s \in Running : Apart(txn'[r], txn[s])
    BY Begun
  <1>2. \A s \in Running : Runs(ledger, clock', txn[s])
    BY <1>0, <1>1, RunsLater
  <1>3. /\ Running' \subseteq Running \cup {r}
        /\ \A s \in Running : s # r /\ txn'[s] = txn[s]
    BY <1>0, <1>1 DEF Running
  <1>4. txn' = [s \in Threads |-> txn'[s]]
    BY <1>1
  <1>5. \A s \in Running' : Runs(ledger', clock', txn'[s])
    BY <1>1, <1>2, <1>3
  <1>6. \A s, t \in Running' : s # t => Apart(txn'[s], txn'[t])
    <2>1. \A x, y : Apart(x, y) <=> Apart(y, x)
      BY DEF Apart
    <2>2. QED
      BY <1>0, <1>1, <1>3, <2>1
  <1>7. QED
    BY <1>1, <1>4, <1>5, <1>6 DEF TxInv

\* What a thread that commits does.
LEMMA Committed ==
  ASSUME TxInv, NEW r \in Threads, Commit(r)
  PROVE  \E w \in Changes(txn[r].request, ledger) :
           /\ Change(ledger, w, clock, Numbers(txn[r].request), LockKeys(txn[r].request))
           /\ ledger' = Saved(ledger, w)
  <1>1. /\ clock \in Nat /\ Serial(ledger, clock) /\ Runs(ledger, clock, txn[r])
        /\ ledger' = WriteBack(ledger, txn[r].read, txn[r].wrote)
    BY DEF TxInv, Commit, Running
  <1>2. PICK x : x = txn[r]
    OBVIOUS
  <1>3. Runs(ledger, clock, x) /\ ledger' = WriteBack(ledger, x.read, x.wrote)
    BY <1>1, <1>2
  <1>4. \E w \in Changes(x.request, ledger) :
          /\ Change(ledger, w, clock, Numbers(x.request), LockKeys(x.request))
          /\ WriteBack(ledger, x.read, x.wrote) = Saved(ledger, w)
    BY <1>1, <1>3, RunCommits
  <1>5. QED
    BY <1>2, <1>3, <1>4

LEMMA CommitInv ==
  ASSUME TxInv, NEW r \in Threads, Commit(r)
  PROVE  TxInv'
  <1>0. /\ clock \in Nat /\ Serial(ledger, clock) /\ txn = [s \in Threads |-> txn[s]]
        /\ \A s \in Running : Runs(ledger, clock, txn[s])
        /\ \A s, t \in Running : s # t => Apart(txn[s], txn[t])
        /\ r \in Running /\ txn' = [txn EXCEPT ![r] = Idle] /\ clock' = clock
    BY DEF TxInv, Commit, Running
  <1>1. PICK w : /\ ledger' = Saved(ledger, w)
                 /\ Change(ledger, w, clock, Numbers(txn[r].request),
                           LockKeys(txn[r].request))
    BY Committed
  <1>2. Serial(ledger', clock')
    <2>1. PICK N, K : Change(ledger, w, clock, N, K)
      BY <1>1
    <2>2. Serial(Saved(ledger, w), clock)
      BY <1>0, <2>1, ChangeSerial
    <2>3. QED
      BY <1>0, <1>1, <2>2
  <1>3. /\ Running' \subseteq Running \ {r}
        /\ \A s \in Running \ {r} : txn'[s] = txn[s]
        /\ txn' = [s \in Threads |-> txn'[s]]
    BY <1>0 DEF Running
  <1>4. ASSUME NEW s \in Running \ {r}
        PROVE  Runs(ledger', clock', txn[s])
    <2>1. PICK x, y : x = txn[r] /\ y = txn[s]
      OBVIOUS
    <2>2. Apart(x, y) /\ Runs(ledger, clock, y)
      BY <1>0, <2>1
    <2>3. Change(ledger, w, clock, Numbers(x.request), LockKeys(x.request))
      BY <1>1, <2>1
    <2>4. Runs(Saved(ledger, w), clock, y)
      BY <1>0, <2>2, <2>3, OthersRun
    <2>5. QED
      BY <1>0, <1>1, <2>1, <2>4
  <1>5. QED
    BY <1>0, <1>2, <1>3, <1>4 DEF TxInv

LEMMA RollbackInv ==
  ASSUME TxInv, NEW r \in Threads, Rollback(r)
  PROVE  TxInv'
  <1>0. /\ clock \in Nat /\ Serial(ledger, clock) /\ txn = [s \in Threads |-> txn[s]]
        /\ \A s \in Running : Runs(ledger, clock, txn[s])
        /\ \A s, t \in Running : s # t => Apart(txn[s], txn[t])
        /\ txn' = [txn EXCEPT ![r] = Idle] /\ clock' = clock /\ ledger' = ledger
    BY DEF TxInv, Rollback
  <1>1. /\ Running' \subseteq Running \ {r}
        /\ \A s \in Running \ {r} : txn'[s] = txn[s]
        /\ txn' = [s \in Threads |-> txn'[s]]
    BY <1>0 DEF Running
  <1>2. QED
    BY <1>0, <1>1 DEF TxInv

\* Beginning, committing and failing keep the invariant.
LEMMA TxNextInv == Keyed /\ TxInv /\ [TxNext]_txVars => TxInv'
  <1> SUFFICES ASSUME Keyed, TxInv, [TxNext]_txVars PROVE TxInv'
    OBVIOUS
  <1>1. CASE UNCHANGED txVars
    BY <1>1 DEF txVars, TxInv, Running
  <1>2. QED
    BY <1>1, BeginInv, CommitInv, RollbackInv DEF TxNext

-----------------------------------------------------------------------------
(* What holds of the services run by many threads.                          *)

LEMMA TxInvHolds ==
  ASSUME Keyed
  PROVE  TxSpec => []TxInv
  BY TxInitInv, TxNextInv, PTL DEF TxSpec

\* Rows that concurrent services write back whole stay well typed, and every
\* order and payment finds its activity, as long as the keys of @DistributedLock
\* name the tables the services work on.
THEOREM ThreadsTypeCorrect ==
  ASSUME Keyed
  PROVE  TxSpec => []TxTypeOK
  <1>1. ASSUME TxInv, NEW r \in Running
        PROVE  /\ IsLedger(txn[r].read, clock) /\ IsLedger(txn[r].wrote, clock)
               /\ DOMAIN txn[r].read.activities \subseteq DOMAIN ledger.activities
    <2>1. PICK x, n : x = txn[r] /\ n = clock
      OBVIOUS
    <2>2. n \in Nat /\ Runs(ledger, n, x)
      BY <1>1, <2>1 DEF TxInv
    <2>3. /\ KeyedRequest(x.request) /\ Serial(x.read, n)
          /\ \A i \in Numbers(x.request) : i \in 1 .. n /\ Fresh(x.read, i)
          /\ DOMAIN x.read.activities \subseteq DOMAIN ledger.activities
      BY <2>2 DEF Runs
    <2>4. PICK w \in Changes(x.request, x.read) : x.wrote = Saved(x.read, w)
      BY <2>2 DEF Runs
    <2>5. PICK N, K : Change(x.read, w, n, N, K)
      BY <2>2, <2>3, RequestChange
    <2>6. Serial(Saved(x.read, w), n)
      BY <2>2, <2>3, <2>5, ChangeSerial
    <2>7. QED
      BY <2>1, <2>3, <2>4, <2>6 DEF Serial
  <1>2. TxInv => TxTypeOK
    BY <1>1 DEF TxInv, TxTypeOK, Serial
  <1>3. QED
    BY <1>2, TxInvHolds, PTL

\* However the threads interleave, no table gets two active activities: approve
\* and move lock the tables they open an activity at.
THEOREM ThreadsOneActivityPerTable ==
  ASSUME Keyed
  PROVE  TxSpec => []OneActiveActivity
  <1>1. TxInv => OneActiveActivity
    BY DEF TxInv, Serial, OneActiveActivity
  <1>2. QED
    BY <1>1, TxInvHolds, PTL

\* However the threads interleave, moves and merges carry a refund and the
\* approval it undoes along together.
THEOREM ThreadsRefundsPaired ==
  ASSUME Keyed
  PROVE  TxSpec => []RefundsPaired
  <1>1. TxInv => RefundsPaired
    BY DEF TxInv, Serial, RefundsPaired
  <1>2. QED
    BY <1>1, TxInvHolds, PTL

\* Computing on a snapshot and writing whole rows back loses nothing: every
\* commit has the effect its request would have had alone at that moment.
THEOREM ThreadsSerializable ==
  ASSUME Keyed
  PROVE  TxSpec => CommitsAsIfAlone
  <1> DEFINE AsIfAlone(r) ==
        txn[r] # Idle /\ txn'[r] = Idle /\ ledger' # ledger =>
          ledger' \in Outcomes(txn[r].request, ledger)
  <1>1. ASSUME TxInv, NEW s \in Threads, Begin(s), NEW r \in Threads PROVE AsIfAlone(r)
    BY <1>1 DEF Begin
  <1>2. ASSUME TxInv, NEW s \in Threads, Rollback(s), NEW r \in Threads PROVE AsIfAlone(r)
    BY <1>2 DEF Rollback
  <1>3. ASSUME TxInv, NEW s \in Threads, Commit(s), NEW r \in Threads PROVE AsIfAlone(r)
    <2>1. SUFFICES ASSUME txn[r] # Idle, txn'[r] = Idle
                   PROVE  ledger' \in Outcomes(txn[r].request, ledger)
      OBVIOUS
    <2>2. txn = [q \in Threads |-> txn[q]] /\ txn' = [txn EXCEPT ![s] = Idle]
      BY <1>3 DEF TxInv, Commit
    <2>3. r = s
      BY <2>1, <2>2
    <2>4. \E w \in Changes(txn[s].request, ledger) : ledger' = Saved(ledger, w)
      BY <1>3, Committed
    <2>5. QED
      BY <2>3, <2>4 DEF Outcomes
  <1> HIDE DEF AsIfAlone
  <1>4. TxInv /\ [TxNext]_txVars => [\A r \in Threads : AsIfAlone(r)]_txVars
    BY <1>1, <1>2, <1>3 DEF TxNext
  <1>5. QED
    BY <1>4, TxInvHolds, PTL DEF TxSpec, CommitsAsIfAlone, AsIfAlone

\* What a commit saves is on activities that are open when it commits.
LEMMA CommitKeepsFinal ==
  ASSUME TxInv, NEW r \in Threads, Commit(r),
         NEW a \in DOMAIN ledger.activities, ~ledger.activities[a].active
  PROVE  KeepsFinal(ledger, ledger', a)
  <1>1. PICK w, K, N : Change(ledger, w, clock, N, K) /\ ledger' = Saved(ledger, w)
    BY Committed
  <1>2. PICK m, n : m = ledger' /\ n = clock
    OBVIOUS
  <1>3. /\ n \in Nat /\ IsLedger(ledger, n) /\ IsLedger(w, n)
        /\ m = Saved(ledger, w) /\ Fits(ledger, w, N, K) /\ OnOpen(ledger, w, K)
    BY <1>1, <1>2 DEF TxInv, Change, Serial
  <1>4. a \notin DOMAIN w.activities
    BY <1>3 DEF OnOpen
  <1>5. SameMoney(ledger, m, a) /\ m.activities[a] = ledger.activities[a]
    BY <1>3, <1>4, SavedElsewhere
  <1>6. KeepsFinal(ledger, m, a)
    BY <1>5 DEF SameMoney, KeepsFinal
  <1>7. QED
    BY <1>2, <1>6

\* A service that read an activity while it was open does not rewrite it after
\* another has closed it.
THEOREM ThreadsClosedStaysFinal ==
  ASSUME Keyed
  PROVE  TxSpec => ClosedIsFinal
  <1> DEFINE StaysFinal == \A a \in DOMAIN ledger.activities :
                             ~ledger.activities[a].active => IsFinal(a)
  <1>1. ASSUME TxInv, NEW s \in Threads, Commit(s) PROVE StaysFinal
    BY <1>1, CommitKeepsFinal DEF KeepsFinal, IsFinal
  <1>2. ASSUME ledger' = ledger PROVE StaysFinal
    BY <1>2 DEF IsFinal
  <1>3. TxInv /\ [TxNext]_txVars => StaysFinal
    BY <1>1, <1>2 DEF TxNext, txVars, Begin, Rollback
  <1> HIDE DEF StaysFinal
  <1>4. TxInv /\ [TxNext]_txVars => [StaysFinal]_vars
    BY <1>3
  <1>5. QED
    BY <1>4, TxInvHolds, PTL DEF TxSpec, ClosedIsFinal, StaysFinal

LEMMA CommitClosesPaid ==
  ASSUME TxInv, NEW r \in Threads, Commit(r), NEW m, m = ledger', ~Takes(ledger, m),
         NEW a \in DOMAIN ledger.activities, ledger.activities[a].active,
         ~m.activities[a].active, HasOrderedOrder(m, a)
  PROVE  RemainingPaymentPriceWithDiscount(m, a) <= 0
  <1>1. PICK w, K, N : Change(ledger, w, clock, N, K) /\ ledger' = Saved(ledger, w)
    BY Committed
  <1>2. PICK n : n = clock
    OBVIOUS
  <1>3. /\ n \in Nat /\ IsLedger(ledger, n) /\ IsLedger(w, n)
        /\ m = Saved(ledger, w) /\ Fits(ledger, w, N, K) /\ Careful(ledger, w)
    BY <1>1, <1>2 DEF TxInv, Change, Serial
  <1>4. IsSaved(m, ledger, w)
    <2>1. IsSaved(Saved(ledger, w), ledger, w)
      BY SavedRowsOf
    <2>2. QED
      BY <1>3, <2>1
  <1>5. a \in DOMAIN w.activities /\ ~Takes(ledger, w)
    BY <1>4 DEF IsSaved, Takes
  <1>6. SameMoney(w, m, a) /\ m.activities[a] = w.activities[a]
    BY <1>3, <1>5, SavedMoney
  <1>7. /\ RemainingPaymentPriceWithDiscount(m, a) = RemainingPaymentPriceWithDiscount(w, a)
        /\ HasOrderedOrder(w, a) /\ ~w.activities[a].active
    BY <1>6, SameSums DEF HasOrderedOrder
  <1>8. QED
    BY <1>3, <1>5, <1>7 DEF Careful

\* An approval or a cancellation that closes its activity does so on what is
\* ordered and paid when it commits: no update, discount or other approval on
\* the table slips in between its read and its write.
THEOREM ThreadsClosingIsPaid ==
  ASSUME Keyed
  PROVE  TxSpec => ClosesPaidUnlessMerged
  <1> DEFINE IsPaid(a) ==
        Closes(a) /\ ~Reassigns /\ HasOrderedOrder(ledger', a) =>
          RemainingPaymentPriceWithDiscount(ledger', a) <= 0
  <1>1. ASSUME TxInv, NEW s \in Threads, Commit(s), NEW a \in DOMAIN ledger.activities
        PROVE  IsPaid(a)
    <2>1. PICK m : m = ledger'
      OBVIOUS
    <2>2. SUFFICES ASSUME Closes(a), ~Reassigns, HasOrderedOrder(m, a)
                   PROVE  RemainingPaymentPriceWithDiscount(m, a) <= 0
      BY <2>1
    <2>3. ledger.activities[a].active /\ ~m.activities[a].active
      BY <2>1, <2>2 DEF Closes
    <2>4. ~Takes(ledger, m)
      BY <2>1, <2>2 DEF Reassigns, Takes
    <2>5. QED
      BY <1>1, <2>1, <2>2, <2>3, <2>4, CommitClosesPaid
  <1>2. ASSUME ledger' = ledger, NEW a PROVE IsPaid(a)
    BY <1>2 DEF Closes
  <1> HIDE DEF IsPaid
  <1>3. TxInv /\ [TxNext]_txVars => \A a \in DOMAIN ledger.activities : IsPaid(a)
    BY <1>1, <1>2 DEF TxNext, txVars, Begin, Rollback
  <1>4. TxInv /\ [TxNext]_txVars => [\A a \in DOMAIN ledger.activities : IsPaid(a)]_vars
    BY <1>3
  <1>5. QED
    BY <1>4, TxInvHolds, PTL DEF TxSpec, ClosesPaidUnlessMerged, IsPaid

=============================================================================
