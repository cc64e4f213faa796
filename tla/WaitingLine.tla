---------------------------- MODULE WaitingLine ----------------------------
(***************************************************************************)
(* The waiting lines of several stores.  Guests register with a phone       *)
(* number and get the next number of the day; staff call them, seat them    *)
(* (complete) or strike them out, and guests may cancel themselves.  Every  *)
(* request is a transaction that reads a snapshot, holds the lock of its    *)
(* store's line and writes the whole row of its waiting when it commits.    *)
(*                                                                          *)
(* A waiting is identified by the instant it was created at.  Openings are  *)
(* those of module StoreDay, without what keeps a store from closing: more  *)
(* can happen here than in the code.                                        *)
(***************************************************************************)
EXTENDS Naturals, FiniteSets

CONSTANTS
    Threads,    \* request threads
    Stores,
    Phones,     \* phone numbers
    Idle,       \* the state of a thread that runs no transaction
    MaxCalls,   \* calls a guest may get (5 in the code)
    MaxClock    \* bound on the waitings and openings ever

ASSUME WaitingAssumption == MaxCalls \in Nat /\ MaxClock \in Nat

VARIABLES
    openedAt,   \* lastOpenedAt of each store
    waitings,   \* the committed rows
    clock,      \* the last instant
    txn         \* per thread: the request and the row its commit writes

vars == <<openedAt, waitings, clock, txn>>

States == {"REGISTRATION", "CANCEL", "COMPLETE"}

\* "day" is a history variable: the opening the number was counted from.
Waiting == [store : Stores, phone : Phones, number : Nat, ahead : Nat,
            calls : 0 .. MaxCalls, state : States, day : Nat]

Init ==
    /\ openedAt = [s \in Stores |-> 0]
    /\ waitings = [w \in {} |-> w]
    /\ clock = 0
    /\ txn = [r \in Threads |-> Idle]

-----------------------------------------------------------------------------
(* What the queries count, on the committed rows.                           *)

InLine(w) == waitings[w].state = "REGISTRATION"

\* The waitings of a store since it last opened.
OfToday(s) == {w \in DOMAIN waitings : waitings[w].store = s /\ w > openedAt[s]}

\* Mutant: only those still in line are counted.
LastNumberInLine(s) == Cardinality({w \in OfToday(s) : InLine(w)})

LastNumber(s) == Cardinality(OfToday(s))

\* Mutant: the team itself, which is about to join, is counted.
TeamCountWithMe(s) == Cardinality({w \in OfToday(s) : InLine(w)}) + 1

TeamCount(s) == Cardinality({w \in OfToday(s) : InLine(w)})

\* Mutant: the teams after it are counted too.
MyTurnOfAll(w) ==
    Cardinality({v \in OfToday(waitings[w].store) : InLine(v) /\ v # w})

\* The number of teams before waiting w, as its guests are told.
MyTurn(w) ==
    Cardinality({v \in OfToday(waitings[w].store) : InLine(v) /\ v < w})

\* Mutant: a waiting left over from an earlier day is not seen.
IsWaitingToday(phone) ==
    \E s \in Stores : \E w \in OfToday(s) : InLine(w) /\ waitings[w].phone = phone

\* Whether a phone number is in line, in any store.
IsWaiting(phone) ==
    \E w \in DOMAIN waitings : InLine(w) /\ waitings[w].phone = phone

-----------------------------------------------------------------------------
(* Transactions.                                                            *)

Running == {r \in Threads : txn[r] # Idle}

\* The lock storeId-waiting.
LineIsFree(s) == \A r \in Running : txn[r].row.store # s

\* Thread r sets out to write the row of waiting w.
Begin(r, w, row) ==
    /\ txn[r] = Idle
    /\ LineIsFree(row.store)
    /\ txn' = [txn EXCEPT ![r] = [waiting |-> w, row |-> row]]
    /\ UNCHANGED <<openedAt, waitings>>

Register(r, s, phone) ==
    /\ ~IsWaiting(phone)
    /\ clock < MaxClock
    /\ clock' = clock + 1
    /\ Begin(r, clock', [store |-> s, phone |-> phone, number |-> LastNumber(s) + 1,
                         ahead |-> TeamCount(s), calls |-> 0,
                         state |-> "REGISTRATION", day |-> openedAt[s]])

CallGuest(r, w) ==
    /\ InLine(w)
    /\ waitings[w].calls < MaxCalls
    /\ Begin(r, w, [waitings[w] EXCEPT !.calls = @ + 1])
    /\ UNCHANGED clock

Complete(r, w) ==
    /\ InLine(w)
    /\ Begin(r, w, [waitings[w] EXCEPT !.state = "COMPLETE"])
    /\ UNCHANGED clock

\* Mutant: whatever became of the waiting.
CancelAnyway(r, w) ==
    /\ Begin(r, w, [waitings[w] EXCEPT !.state = "CANCEL"])
    /\ UNCHANGED clock

\* By the store or by the guest.
Cancel(r, w) ==
    /\ InLine(w)
    /\ Begin(r, w, [waitings[w] EXCEPT !.state = "CANCEL"])
    /\ UNCHANGED clock

Commit(r) ==
    /\ r \in Running
    /\ LET w == txn[r].waiting
       IN  waitings' = [v \in DOMAIN waitings \cup {w} |->
                          IF v = w THEN txn[r].row ELSE waitings[v]]
    /\ txn' = [txn EXCEPT ![r] = Idle]
    /\ UNCHANGED <<openedAt, clock>>

\* The server or the connection fails before the commit.
Rollback(r) ==
    /\ r \in Running
    /\ txn' = [txn EXCEPT ![r] = Idle]
    /\ UNCHANGED <<openedAt, waitings, clock>>

\* A store opens for a new day: it commits an instant it read earlier.
Open(s) ==
    /\ \E at \in openedAt[s] + 1 .. clock + 1 :
         /\ at <= MaxClock
         /\ openedAt' = [openedAt EXCEPT ![s] = at]
         /\ clock' = IF at > clock THEN at ELSE clock
    /\ UNCHANGED <<waitings, txn>>

Next ==
    \/ \E r \in Threads :
         \/ \E s \in Stores, phone \in Phones : Register(r, s, phone)
         \/ \E w \in DOMAIN waitings : CallGuest(r, w) \/ Complete(r, w) \/ Cancel(r, w)
         \/ Commit(r) \/ Rollback(r)
    \/ \E s \in Stores : Open(s)

Spec == Init /\ [][Next]_vars

-----------------------------------------------------------------------------
(* Correctness.                                                             *)

\* Rows are well typed, calls within their limit, and created in the past.
TypeOK ==
    /\ openedAt \in [Stores -> 0 .. MaxClock]
    /\ clock \in 0 .. MaxClock
    /\ waitings \in [DOMAIN waitings -> Waiting]
    /\ DOMAIN waitings \subseteq 1 .. clock
    /\ \A r \in Running : txn[r].waiting \in 1 .. clock /\ txn[r].row \in Waiting

\* In one store a phone number is in line at most once.
OnePlacePerStore ==
    \A v, w \in DOMAIN waitings :
        /\ InLine(v) /\ InLine(w)
        /\ waitings[v].store = waitings[w].store
        /\ waitings[v].phone = waitings[w].phone
        => v = w

\* A phone number is in line at most once, whatever the store: what
\* WaitingCustomerService.validateWaitingRegister checks.
OnePlacePerPhone ==
    \A v, w \in DOMAIN waitings :
        InLine(v) /\ InLine(w) /\ waitings[v].phone = waitings[w].phone => v = w

\* Guests who registered later on one day of a store have higher numbers:
\* no two of them hear the same number called.
NumbersInOrder ==
    \A v, w \in DOMAIN waitings :
        /\ waitings[v].store = waitings[w].store
        /\ waitings[v].day = waitings[w].day
        /\ v < w
        => waitings[v].number < waitings[w].number

\* The number of teams a guest is told to be before them never grows: nobody
\* is let in front.
TurnNeverGrows == [][\A w \in DOMAIN waitings : MyTurn(w)' <= MyTurn(w)]_vars

\* The number of teams a guest is told at registration is their turn, unless
\* the store opened for a new day meanwhile.
RegisteredAtTheirTurn ==
    [][\A w \in DOMAIN waitings' \ DOMAIN waitings :
         waitings'[w].day = openedAt'[waitings'[w].store] =>
           waitings'[w].ahead = MyTurn(w)']_vars

\* A waiting that was seated or canceled stays as it is: no call or
\* cancellation that read it before brings it back in line.
FinishedIsFinal ==
    [][\A w \in DOMAIN waitings : ~InLine(w) => waitings'[w] = waitings[w]]_vars

=============================================================================
