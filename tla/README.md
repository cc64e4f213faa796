# Everyone Waiter API: a verification development

TLA+ models of the backend in `src/` (Spring Boot 4, Java 21, MySQL, Redis), the TLC
runs that check them and the TLAPS proofs about them. `PROJECT.json` maps every
definition to the lines it translates, lists the runs, the hazards they aim at, the
findings and the theorems. Run everything inside this directory:

    tlc -workers 2 -config PosTables.cfg MCPosTables
    tlapm LedgerProofs.tla

A model that counts something takes its bound from a constant; the theorems of section 4
hold for every value of the constants.

## 1. The system

A store opens in the morning; guests wait in line, sit down at tables, order and pay;
the POS moves and merges tables, gives discounts, completes or cancels; the store
closes at night. Requests of the POS, the tables' devices, the hall and the owner are
handled concurrently, by several servers, over one database.

Facts every model rests on:

- *Transactions.* MySQL at REPEATABLE READ: plain reads come from the snapshot of the
  transaction. Entities have no `@Version` and no `@DynamicUpdate`: a changed entity is
  written back with **all** its columns, as they were read. The migration
  (`V1__init.sql`) has foreign keys and, for devices and categories, unique names; nothing
  else in the schema refuses a row.
- *Locks.* `@DistributedLock` (Redisson over Redis) wraps many services: wait up to 20 s
  per lock, lease 1 s, and the method runs in a `REQUIRES_NEW` transaction inside the lock,
  so it commits before the unlock. Keys are SpEL expressions over the parameter names; a
  name that is no parameter evaluates to null.
- *Events.* Aggregates register domain events that `save` publishes. Some handlers run
  BEFORE_COMMIT in the same transaction (tables of the day); most run AFTER_COMMIT,
  asynchronously, each on a virtual thread of its own (receipts, notifications, SSE).

### Inventory

| Component | State it keeps | Operations | Interacts with | Hard part | Correct when | Module |
|---|---|---|---|---|---|---|
| POS ledger (activities, orders, payments) | rows of `pos_table_activity`, `orders`, `order_payment` | order, cancel, update; approve, refund; discount, complete, move, merge | store day, receipts, SSE | long sequences: prepaid refunds, merges, overpayment | one activity per table, refunds match approvals, nothing closes unpaid, closed is final | `TableLedger`, `PosTables` |
| Its transactions | the same rows, snapshots | the same, several at once | distributed lock | methods whose key names no parameter; whole-row writes | each commit is as if alone | `TableTransactions` |
| Distributed lock | owner, holds and lease of each key in Redis | acquire several, run, release | every keyed service | waits, leases that lapse, interruption, unlock that throws | excludes, gives back, returns | `DistributedLock` |
| Store opening and closing | `store`, `pos_table` | open, close, update; `@StoreOpen` check | ledger, waiting line | no lock; checks on a snapshot; requests in flight | tables of the day and no others; nothing left behind | `StoreDay` |
| Waiting line | `waiting` | register, call, complete, cancel, turn | store day, notifications | counting as numbering; one lock per store | distinct numbers, one place per phone, fair turns | `WaitingLine` |
| Menus and categories | `menu`, `category` (parent, position) | create, update, move, delete | orders | bulk shifts of positions, limits, leases outlived by uploads | positions distinct, limits kept, one item moves | `MenuBoard` |
| Receipts and print numbers | counter in Redis, events being handled | print, resend, reset on close | ledger events, SSE | increment and read are two commands; handlers run late, in any order, or never | numbers grow, the kitchen's total is the order | `Kitchen` |
| Serving of orders | flags of orders and of their menus | serve, toggle | ledger | the lock of the wrong table after a move; whole rows | order served only with its menus, prices true | `Serving` |
| Server-sent events | emitters in memory, events in Redis | connect, replay, send, complete | every component | keys that are milliseconds, dead emitters, connections that drop while being replayed | no gap for a client that reconnects | `EventStream` |
| Phone and mail verification | codes, attempts, successes in Redis with expiry | send, verify, sign up, activate | accounts, devices | check then increment; three keys, no lock | attempts bounded, verified by code, refused for a day only | `PhoneAuth` |
| Store registrations, accounts | `store_registration`, `account` | apply, reapply, reject, approve; sign in, activate, edit | store | decisions at once, no lock, whole rows | one store per approval, its applicant an owner | `Onboarding` |
| Devices, staff calls, notifications, images, web layer, health check, seed data | see `PROJECT.json` | | | | | not modelled |

## 2. The modules

`TableLedger` has no variables: every method of the entities is an operator from the rows it
reads to the rows it leaves, with a `Can...` operator where the code throws. A service loads
entities with their collections (`Loaded`), works on them and saves them (`Saved`). The operators
are used twice.

- **`PosTables`** runs the services one at a time, an action per method. It says what the domain
  classes promise *when every request has its tables to itself*.
- **`TableTransactions`** extends it and runs the same services as transactions: `Begin` takes the
  lock keys (`LockKeys`, with `Unkeyed` for the two methods whose key evaluates to null), reads a
  snapshot and computes what the request saves (`Changes`); `Commit` writes back the rows
  that were inserted or changed, whole; `Rollback` may come at any time. `CommitsAsIfAlone`
  says that a commit writes what the request would have written alone on the ledger
  it commits to (`Outcomes`), and the action properties of `PosTables` are proved of it too.
- **`DistributedLock`** is the aspect, statement by statement: `Call`, `TryLock` (granted or
  timed out), `Abort`, `Proceed`, `Finish`, then the finally block (`Check`, `Release`,
  `ReleaseFails`, `Return`); `Expire` is a lease that lapses. Redisson's lock is external:
  owner and hold count. Its `Exclusion` is the assumption `TableTransactions`,
  `WaitingLine` and `StoreDay` make about locks.
- **`LeaseLock`** is what the annotation promises, without locks: a call asks for keys, waits,
  and is let in only while nobody is in on a key it shares, unless one of the two is late.
  `DistributedLock` implements it (`KeepsPromise`) under the mapping `Promise`: the phase of a
  call is read off the aspect's program counter, its keys are those of its list, and it is late
  once a lease of it lapsed while it is under way. The finally block is all stutter.
- **`WaitingLine`**: `Register`, `CallGuest`, `Complete`, `Cancel` read and compute under
  the store's lock and write their row at `Commit`; `Open` lets any store begin a new day.
- **`StoreDay`**: `Open`, `Close` and `Update` are transactions without a lock, of several managers
  at once. `Enter` is the `@StoreOpen` aspect, a step of its own before `Seat`, `PayOff`, `Settle` and
  `Register` begin; `Discount` and `CallOrLeave` are the requests that may write a row back
  still unfinished. `CommitManager` includes the BEFORE_COMMIT handlers: tables inserted by an
  opening, and the bulk update of a closing, which sees rows committed after its snapshot. Who is at
  work while another manager changes the store is `overtaken`, and the store `overwritten` when such a
  one commits the row it read. Moves of activities and the refund are in `TableTransactions` only.

- **`MenuBoard`**: a request takes the lock `storeId-menu`, reads and computes (`Create`,
  `Update`, `MovePosition`, `Delete`, `DeleteAll`); `Commit` deletes, shifts all rows of the
  table from the new position on, as the bulk update does, and saves one row whole. `Lapse` is the
  lease of a second, which an upload of an image outlives: the next request then begins beside.
  Categories and menus are the same kind of row, the store being the parent of a category.
- **`Kitchen`**: `Create`, `Update`, `Cancel`, `Resend`, `Close` are committed changes and
  publish an event; a handler is a job with the steps of `ReceiptSendEventHandler`:
  `Read` the orders, `Increment`, `Expire`, `Get`, `PrintReceipt`. `Delete` is the handler of a closing,
  `Lapse` the counter's expiry, and `Fail` ends any handler, since nothing repeats it. `Refund` cancels
  a prepaid order without an event for the kitchen (`PosTableActivity.addPayment`), and so does a `Merge` that
  replays the refund. As a refund locks nothing, a change that read the order before may write it
  back: `unseen` are the orders of which some request under way may still think that they stand.
- **`Serving`**: `Serve` and `Toggle` of the hall find the order by its id and lock the table
  they are told; `UpdateOrder`, `CancelOrder` and `UpdateMemo` of the POS lock the table of the order,
  `Settle` (a discount or a completion) its table, `Move` and `Merge` both tables, and `Refund` none.
  Begin reads and computes, `Commit` writes whole rows, and rows that are
  deleted meanwhile make it fail. Every menu costs one, so a price is the number of units ordered.
  Payments are left out: a `Merge`, which replays them through `addPayment`, may cancel any of the prepaid
  orders of the two activities (`Revocable`) and end the target where a postpaid order stands
  (`Paid`), a `Refund` at most one, beside any choice of what the payments may have been.
- **`EventStream`**: a server's handlers of events (`Send` draws the name, `Save` to Redis,
  `Find` the emitters, `SendTo` each) beside the connections (`Connect` registers the emitter,
  `Greet`, `Scan` searches Redis, `Replay`). `Drop` breaks a connection, `TimeOut` ends it,
  `Complete` is the callback that deletes the emitter by its name, later; `Forget` is an event
  that Redis drops, `RestartServer` the server's own.
- **`PhoneAuth`**: each request of `AuthService` is a sequence of commands on Redis, one action
  each (`CheckAttempts`, `SaveCode`, `Count`, `ExpireAttempts`, `Reset`; `FindCode`,
  `SaveSuccess`, `DropCode`; `CheckDuplicate`, `Insert`). `Fail` ends a request between any
  two; keys expire at any time. Attempts are kept per purpose and phone, codes and successes per phone.
- **`Onboarding`**: transactions without a lock over `account` and `store_registration`: `BeginJob`
  remembers the rows read, `Commit` writes whole rows. An approval carries the store and the
  owner with it, as its BEFORE_COMMIT handlers do.

`PhoneAuth` and `Onboarding`, and `Kitchen` and `EventStream`, have no name in common (hence
`OnboardingSpec`, `StreamSpec`), so that one module can extend both and hold the proofs about the
two halves of what happens around an account, or after a commit.

Correspondence of state: `ledger.activities/orders/payments` are the three tables, keyed by
identifier; `store`, `tables`, `activities`, `waitings`, `orders`, `menus`, `accounts`,
`registrations` likewise; `MenuBoard.rows` is `category` and `menu` together; `txn[r]` is thread
r's persistence context (what it read, what it will flush), `jobs` and `req` the local variables of
a handler or request, their `step` the next command; `attempts`, `code`, `success`, `counter`,
`saved` are keys of Redis; `clock` is time and identifier generation at once (TSIDs and `createdAt`
grow together), so an instant identifies a row, while `EventStream.now` is the millisecond
that names emitters and events.

Abstractions, and why they lose nothing the properties tell apart:

- an order's menus are its price in the ledger (`Emptied` is the update that leaves it without
  menus), its quantity in `Kitchen`, and rows of their own in `Serving`;
- some variables and fields are history, which no guard reads: `refunds` in a payment, `day` in a waiting and `seen` in a
  closing's request record which approval a refund undoes, the opening a number was counted from,
  and what existed when a closing looked; `overtaken` and `overwritten` in `StoreDay`, `highest`,
  `overtaken`, `missed`, `refunded` in `Kitchen`, `crossed` and `stray` in `Serving`, `owed` and `crowded` in
  `EventStream`, `sent`, `proved`, `broken`, `orphaned`, `asked`, `swept` and a request's `stale` in
  `PhoneAuth`, `lost` and `demoted` in `Onboarding` and `lateCommit` in `MenuBoard` record the promise
  that is open, or the one circumstance in which the code does not keep it;
- names, prices, options and images of a menu are contents that an update replaces, texts of
  receipts and events are not told apart;
- in `EventStream` there is one server, and what is sent before the connecting request returned
  is buffered by the emitter, so it counts as sent;
- money is `Long` with `Overflow` for what a wrapped sum may become, kept as constants so
  that the proofs cover every width;
- `findFirst` on a query without order is a choice among the rows it may return; the list an
  entity was loaded with is sorted, and a merge appends (`Sorted`, `FirstOf`);
- a lease that lapses is in `DistributedLock` and, where a request may well take longer, in
  `MenuBoard`: `Exclusion` says exactly when it matters;
- a request that throws is a step that is not there, since its transaction rolls back.

Mutants: a definition whose comment starts with `Mutant:` is a plausible bug of the
definition after it. No specification uses it; substituted for that definition it must break the
property `PROJECT.json` pairs it with.

## 3. The runs

| Run | Bounds | Shows |
|---|---|---|
| `pos_tables` | 2 tables, price 2, amounts 1 and 2, 1 card number and cash, 4 orders and payments, 2 activities | `TypeOK`, `OneActiveActivity`, `RefundsPaired`, `ClosedIsFinal`, `ClosesPaidUnlessMerged`, `RefundBalances` |
| `distributed_lock` | 2 threads, 2 keys, single, double, opposite and repeated key lists | `Exclusion`, `NothingLeftLocked`, the refinement `KeepsPromise`, and under fairness `EveryCallReturns` |
| `table_transactions` | 2 threads, 2 tables, the services whose key is their table, from an evening with a prepaid and a postpaid table and from an empty one | `TxTypeOK`, `OneActiveActivity`, `CommitsAsIfAlone` |
| `waiting_line` | 2 threads, 2 stores, 3 phones, 3 instants, 1 call | `OnePlacePerStore`, `NumbersInOrder`, `TurnNeverGrows`, `RegisteredAtTheirTurn`, `FinishedIsFinal` |
| `store_day` | 2 managers, 2 guests, 2 table numbers, 4 instants | `TablesOfTheDay`, `CloseLeavesNothingSeen` |
| `menu_board` | 2 threads, 3 categories, 3 menus, at most 4 rows, limits 2 and 3, 3 positions, up to the first late commit | `PositionsDistinct`, `LimitsKept`, `OneItemMoves`, `MovedBeside` |
| `kitchen` | 2 orders, quantities up to 2, 3 events | `TypeOK`, `NumbersFollow`, `KitchenAddsUp` |
| `serving` | 2 threads, 2 tables, 2 activities, 1 order with 2 menus, quantities up to 2 | `TypeOK`, `ServedWhole`, `PriceOfMenus`, `NothingUndone` |
| `event_stream` | 2 clients, 2 events, 3 milliseconds, 3 connections | `StreamTypeOK`, `NoGap`, `StaysRegistered` |
| `phone_auth` | 2 threads, 1 phone, 2 codes, at most 1 and 2 attempts | `AttemptsBounded`, `VerifiedByCode`, `CodeOrVerified`, and under fairness `TryTomorrow` |
| `onboarding` | 2 transactions, 1 account, 2 registrations, 2 stores of each | `OneStoreEach`, `StoresHaveOwners` |
| `no_double_refund` | as `table_transactions`, with every service, from the seated evening | refutes `NoDoubleRefund` |

Type invariants that are proved (section 4) and say nothing but types are not checked again by a
run.

Why the bounds are enough. Four clock ticks let a payment, its order, its refund and one more
payment meet on one activity, or two and two be merged; amounts 1 and 2 against price 2
give under-, exact and overpayment and a refund that misses or meets a price. Two
threads and opposite key lists are the smallest case in which calls wait for each other; a
key list that names one key twice exercises the hold count. In `waiting_line` three
instants hold three guests of one line, or two and an opening between them, while two stores share
the phone numbers. In `store_day` four instants allow an opening, work left behind by it, the
next opening and one piece of its work, or two openings at once and what comes of them; two managers are
enough for one to overwrite the other's change, and a closing after it to put the tables right.
Three menus of one category are the smallest in which a move passes one item by and
shifts another (the limit of 3 menus cannot be exceeded by them, that of 2 categories can; the
theorem `Limits` covers both); two categories with a menu each show that the bulk update shifts the menus of
another category too, and a late thread lets a second request begin beside it. Three events
in `kitchen` are a creation, an update that overtakes it or a closing that takes the counter
away, and one more receipt; a refund, or a merge that replays one, takes no event and may come
between any two steps. In `serving` two tables let an activity leave a table, or be merged, and
the hall still name it, and two menus let an order be half
served. Three milliseconds and connections in `event_stream` let a client see an event, drop and come
back after the next, and two clients connect in one millisecond; a third connection meets an
emitter that has not completed. With two threads in `phone_auth` one request can act between any two
commands of another, and a maximum of one attempt for signing up against two for devices lets
either be refused while the other goes on. Two decisions about one registration, beside whatever
writes its applicant's row back, need two transactions; the second registration shows an approval for who
is an owner already.

`distributed_lock` and `store_day` are checked for deadlock: callers may wait for
each other's locks, and requests for the key of a table or the line. The other runs have
`CHECK_DEADLOCK FALSE`: they stop when a bound is reached, or have a state that nothing needs
to leave.

Symmetry: tables in `pos_tables`, threads in `table_transactions`, threads, stores and
phones in `waiting_line`, managers, guests and numbers in `store_day`, threads, categories and menus in
`menu_board`, orders in `kitchen`, transactions, tables, activities and menus in `serving`, clients and
events in `event_stream`, transactions and registrations in `onboarding` (both have one applicant). The
runs with a liveness property, `distributed_lock` and `phone_auth`, have none.

Fairness. `DistributedLock`: weak fairness of a thread's own `Step`. The
code justifies it: `tryLock` returns within its wait time, the transaction ends (commit,
exception or timeout) and the finally block runs. `PhoneAuth`: weak fairness of the next command
of a request, for the same reason, and of the expiry of the attempts where a key has one: Redis
deletes it. Nothing is assumed of new calls, of leases, of failures or of codes and successes.
The other modules state no fairness and have no liveness property: their handlers may be lost.

### Where the code disagrees with itself

`no_double_refund` is a run of its own that TLC refutes, with an entry under `findings`:
`OrderPaymentModifyService.cancel` locks `storeId-null`; a merge beside it writes `cancellable`
back, and the approval is refunded again, which the message of `ErrorCode` excludes.

The modules also state formulas the passing runs leave out because the code breaks them. Put into
the configuration named here, each gives a counterexample:

- `PosTables.ClosesPaid` (`PosTables.cfg`): a merge replays payments through `addPayment`; at
  a replayed approval the target may close, and the refund replayed after it does not reopen it.
- `PosTables.DiscountNotNegative` (`PosTables.cfg`): the discount is clamped to a remaining price
  that may be negative.
- `TableTransactions.OneActiveActivity` with `Kinds <- AllKinds`: `OrderModifyService.create` locks
  `storeId-null`, so beside a payment on the same table it opens a second activity.
- `WaitingLine.OnePlacePerPhone` (`WaitingLine.cfg`): the check is across stores, the lock per store.
- `StoreDay.BlockersInSight` (`StoreDay.cfg`): an order in flight during a closing stays on an ended
  table; the next day it blocks closing, out of the POS's sight. The same happens to a waiting.
- `StoreDay.EachNumberOnce` (`StoreDay.cfg`): two openings at once make two tables of each number.
- `Kitchen.EveryCancelTold` (`Kitchen.cfg`): an order that a refund cancels stays with the kitchen, since
  `OrderPayment.cancel` publishes `SseEvent`s alone.
- `PhoneAuth.SentCodeWorks` (`PhoneAuth.cfg`): a verification finds its code and saves the success, another
  request saves a new code, the first deletes it (`AuthService.java:91`), the second deletes the success
  (`:61`) and sends the code that is gone. Nothing failed, the code cannot be presented and the phone
  is not verified.
- `PhoneAuth.TryTomorrowAnyway` (`PhoneAuth.cfg`): the first attempt is counted by one command and given
  its expiry by the next; when the request fails in between, the phone is refused for good,
  though `ErrorCode.java:49` asks the user to try again the next day.

The passing runs say what remains true beside these. `table_transactions` leaves out `create` and
`refund`, the two services whose key names no parameter; `CloseLeavesNothingSeen` of `store_day` is
what the check of a closing and the keys together do guarantee: what existed when the closing looked is finished for good, as far as the services go that hold their
table's key (a refund does not, and is left out of `StoreDay`); `ClosesPaidUnlessMerged`
excludes the merge. The exceptions in the newer modules are of the same kind, and each is
needed, as TLC shows when it is taken out:

- `TablesOfTheDay` exempts a store `overwritten`, from the commit of a manager's row that was read before
  another manager's change until the next closing, which ends every table there is: two openings at once, or
  an edit that brings back the status of before. A manager overtaken who fails does no harm.
- `KitchenAddsUp` exempts orders that were updated before the receipt of their creation was made:
  the handler reads the order as it is by then, and the update is told a second time. It does not exempt
  an order that a refund canceled, but says what becomes of it: it stays an order to the kitchen, until a change
  that had read it before writes it back or tells its cancellation.
- `NumbersFollow` does not say that numbers differ: two handlers may both increment before either
  reads, print the same number and skip one.
- The properties of `serving` exempt orders (`crossed`) that a request without the lock of their table was
  about beside another: one of the hall, as after a move the two locks differ, or a refund, which has
  none; whole rows are then written back over each other. They also exempt the orders of an activity that was moved
  while a refund had read its row, which the refund writes back as ended at the table of before.
  Whatever such a request does to an order that it has to itself is not exempt.
- `CodeOrVerified` exempts phones with a request that failed half done (`broken`), and those of which a
  request deleted a code or success it knew nothing of (`swept`), until the next code is saved.
- `NoGap` exempts a connection in whose millisecond another was opened, since one emitter then
  takes the place of the other. It does not promise an event that is named before the one the client
  saw last and saved after it: names are drawn before the event is saved, and the greeting is named like
  an event. An event that is saved and sent while a connection is being opened may come twice. It is
  relative to the last id the client has: when a replay breaks off after the greeting, the client
  asks next for what came after the greeting, and what it was not brought does not count. Nor does an
  event count that Redis lost to another of its millisecond.
- `OnePlacePerStore` is about one store; a phone that waits in two at once is `OnePlacePerPhone` above.
- `VerifiedByCode` says no more than that a code was presented: the purpose of the code is not kept, and the
  success serves until it expires.
- `OneStoreEach` and `StoresHaveOwners` exempt rows written over by a request that did not see their
  last change (`lost`), and the second those an administrator made users again (`demoted`): two approvals at
  once make two stores, and a sign-in beside an approval takes the owner's permission again. These are the
  hazards themselves; what the properties exclude is every other way to the same end.
- `PositionsDistinct` and its companions hold until a transaction commits after its lease lapsed.

## 4. The proofs

Every theorem has the form `Spec => []Inv` or `Spec => [][A]_vars` (with `TxSpec`,
`OnboardingSpec`, `StreamSpec` where two specifications share a proof module), for all values of
the constants, from the named assumptions of the modules: `LedgerAssumption`, `BoundsAssumption`
(long is a set of integers that contains the amounts, the prices and `Overflow`; bounds are
naturals), `TransactionsAssumption` (the evenings a run sets out from are ledgers, with one party
per table and refunds paired), `LockAssumption`, `WaitingAssumption`, `StoreDayAssumption` (special
keys are no table numbers, managers are no guests), `BoardAssumption` (store, categories and menus
are different things), `KitchenAssumption` (bounds are naturals), `ServingAssumption` (finitely
many menus, at least one, and a positive maximal quantity), `EventStreamAssumption` (time has a
first millisecond, None is no client and no event), `PhoneAssumption` (finitely many threads,
positive maxima) and `OnboardingAssumption` (every registration has an applicant). Each proof
goes by an inductive invariant with one lemma or step per action. A theorem
with another hypothesis says so: `Keyed` below.

**`LedgerProofs`**, services one at a time: `TypeCorrect`, `OneActivityPerTable`,
`RefundsArePaired`, `ClosedStaysFinal`, `RefundsBalance`, `ClosingIsPaid`.
`IInv` is the bound of the clock and `Serial`: well-typed rows, one active activity per table, and
refunds paired with approvals. None is inductive alone: a merge reassigns rows of two
activities, and only as the table of each has one active activity are source and target
different; a second refund is kept out because an approval loses its flag exactly when a
refund of it is written. A service is followed from what it loads to what it saves: `Serial` holds
of a part of the ledger, each method keeps it, and it comes back since what is saved
`Fits` the ledger: whole activities, new rows, and nobody seated where others sit. None of these
takes part in arithmetic, so they hold for every width of long and every overflow.

The last two do. A sum over the payments of an activity is a fold over a finite set; what adding
one row, or reassigning it, does to the sum is proved by a minimal counterexample, for which
the library's theorem that inclusion of finite sets is well founded suffices (`MinimalSet`,
`LeastNumber`; no theorem with an operator parameter is needed). `ClosingIsPaid` follows from
`Careful`: what a service saves closed is paid in full or has no order left, or was joined by a
merge. `RefundsBalance` compares the sums before and after, and speaks of activities in which no
sum wraps (`IsExact`), where a refund either takes back one prepaid order of its amount or is owed again.

**`LedgerProofs`**, by threads: `ThreadsTypeCorrect`, `ThreadsOneActivityPerTable`,
`ThreadsRefundsPaired`, `ThreadsSerializable`, `ThreadsClosedStaysFinal`, `ThreadsClosingIsPaid`,
under `Keyed`: `Kinds` has neither `create` nor `refund`, the two services whose lock key names no
parameter, for which `no_double_refund` and the list above show that they fail. The invariant
`TxInv`: the ledger is `Serial`; of each running transaction, what it sees under its keys is
what it read (`View`), and what it is about to save is a `Change` of it under
those keys (`Runs`); two transactions have no key and no new identifier in common (`Apart`). Then the
rows a commit writes back whole are those of activities at its own tables, and it has the
outcome it would have alone (`ThreadsSerializable`): for the services that lock what they work on, each
commit is a step of the serial system, except that identifiers may be committed in another order
than they were drawn in.

**`DistributedLockProofs`**: `TypeCorrect`, `MutualExclusion`, `Implements`, `NothingLeft`. The
invariant says that a thread none of whose leases lapsed owns every lock its loop has passed, and that
a method runs only with every lock passed and none refused; two such threads cannot own a common
key. `Implements` is the refinement of `LeaseLock`: initial states map to initial states and every
step to a step or a stutter, where letting a method in is allowed by `MutualExclusion` of the
state it leads to. For `NothingLeft` the invariant counts: a thread holds a lock at most as often
as positions of its key list are left to release (`HoldsAccounted`).

**`WaitingLineProofs`**: `TypeCorrect`, `OnePlace`, `FinishedStays`, and with a second
invariant `NumbersGrow`, `TurnsShrink`, `ToldTheirTurn`. The properties speak of committed rows, but
a commit writes what was read earlier, so the invariant is about transactions under way:
they work on different lines (`Apart`), and what each read is still true (`StillTrue`: its waiting is in
line, or the phone number is not). For the numbers, a registration still counts right as
long as the store did not open meanwhile (`StillCounts`), and no number of today exceeds
the count the next one comes from (`Counted`).

**`StoreDayProofs`**: `TypeCorrect`, `ClosingFinishes`, `OnlyTablesOfTheDay`. Running transactions of guests write different rows, each under its
table's or line's key, and one that leaves its row unfinished found it unfinished
(`GuestRow`): so none brings back what a closing saw finished (`ClosingSees`). For the tables, with
any number of managers (`DayInv`): whoever was not overtaken is still about the store as it is
(`StillStands`), so that its commit takes the tables of one day to those of the next; and a closing
ends every table, whatever was overwritten before it.

**`MenuBoardProofs`**: `TypeCorrect`, `DistinctPositions`, `Limits`, `OthersStay`, `MovesEndBeside`. At
most one transaction under way is not late (`OneHolder`), and what it read still describes the board
(`Fresh`): a new row's position is above those of its siblings, a moved row aims where its
target is. So the bulk shift makes room exactly for the row that is saved, and keeps the order of
all others, in all categories at once.

**`EventProofs`**, the kitchen: `TypeCorrect`, `NumbersGrow`, `BooksKept`, `KitchenToldRight`.
`highest <= counter`, and a handler between increment and read will read more than was drawn when it
incremented (`Ahead`), unless the counter went meanwhile. `TypeCorrect` includes that whatever is
printed has a number. For the total, `Books` keeps accounts of each order that was neither overtaken
nor missed: what the kitchen was told, and what the handlers that are pending still owe it (`Owed`, by
the kind of event and the state the handler will read), make up what there is of the order
as far as the kitchen is to know it (`KnownOf`, in which a refund changes nothing). When no handler is left the balance is `KitchenAddsUp`. `AddUp` says what a sum over the
pending handlers is without computing it, so that inserting and removing one needs no induction.

**`EventProofs`**, the event stream: `StreamTypeCorrect`, `NoGapLeft`, `EmittersStay`. The invariant
`StreamInv` is about what is going to happen: a connection finds what it is to replay in Redis, or has
found it (`WillReplay`); the handler of an event saved since it was registered has not searched yet, in
which case the emitter is there to be found, or has the emitter on its list (`WillSend`); and no
completion is outstanding that would delete the emitter of another (`Registered`). That order is
the point: `save` before `findAllByScanKey` in the handler, registration before the search in Redis
in `connect`. The theorems hold for any number of clients, events, connections and milliseconds.

**`ServingProofs`**: `TypeCorrect`, `ServedAsAWhole`, `PricedByMenus`, `StaysDone`. Two requests may
write one order under different locks. The invariant says that every request that writes rows of
an order, other than a refund or one of the hall about a table the order has left (a stray), holds the
table the order is at (`Guarded`), and that the order stays there while it runs, since whoever moves
an activity holds both its tables (`Seated`). The only other writer of an activity's row is a refund, which
ends it: if that takes the activity to another table, nobody can begin to work on it, and its orders
are crossed (`Lost`). So two requests about one order are apart unless the
order is crossed (`Apart`), and what each is about to write still leaves the order whole and
undoes nothing (`Leaves`).

**`AccountProofs`**, verification: `TypeCorrect`, `Bounded`, `Verified`, `CodeUsable`. `Bounded` is
inductive as it stands, since it counts the threads between check and increment with the attempts.
`Verified` needs that the code that is kept was sent (`CodesSent`) and that a request past its check
knows its phone (`RequestsProved`). `CodeUsable` has two parts. That a code is beside a success only while
a request about the phone has written one key and not yet deleted the other is `SideBySide`. That a phone
that was sent a code keeps one of the two (`Answerable`) needs two facts about the requests that are about
to delete one: if such a request knows of all that happened since it looked, the other key is
there (`Knowing`); and of a verification and a sending that are both at it, one does not know of the
other (`Strangers`).

**`AccountProofs`**, onboarding: `OnboardingTypeCorrect`, `OneStore`, `OwnersOfStores`. A job that
approves saw the registration unapproved and no other job approves (`Shaped`), and when an approval
commits its applicant becomes, or already is, an owner (`WillOwn`).

Only model-checked: `EveryCallReturns` and `TryTomorrow`, since liveness under fairness cannot be
proved with the installed provers. Every other property of a passing run is stated by a theorem. That
`NoDoubleRefund`, and the formulas listed in section 3, fail is shown by TLC alone.

## 5. Not modelled, and why

Devices and staff calls are edits of single rows (device names are protected by a unique
constraint of the schema; completing a call twice is excluded by its lock). Notifications, images,
the health check and seed data keep no state of interest or are pure input and output. Views,
request mapping and access checks change nothing. Inside the modelled parts: the emitters of
several servers (each knows its own only, and an event handled elsewhere reaches a client when it
reconnects); the signed token of the mail that activates an account, a text without state; the
moving of tables in `StoreDay`; the settings of a store other than its table numbers; the
connection pool that a `@Transactional` method around a lock holds on to while it waits, which
is decided by configuration and the order of advisors.

## 6. Plan

Done: every component of section 1 that keeps state worth a model, the abstract lock and its
refinement, and the proofs of section 4. What is left, in this order:

1. The two unkeyed services of `TableTransactions`: what does hold beside `create` and `refund`, such as
   that rows keep their types. (`ClosedIsFinal` does not: an order that `create` adds beside `complete`
   may land on an activity that is closed by then.)
2. Several servers in `EventStream`, one set of emitters each over one Redis.
3. `Kitchen` fed by the transactions of `Serving`, so that receipts and flags follow from one change.
