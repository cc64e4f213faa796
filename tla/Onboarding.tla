----------------------------- MODULE Onboarding -----------------------------
(***************************************************************************)
(* From an account to its store: applications to register a store, their    *)
(* rejection and approval, and the state and permission of accounts.        *)
(*                                                                          *)
(* Every request is a transaction without a lock: it reads the rows, checks *)
(* them, and at its commit writes whole rows back.  An approval makes the   *)
(* store and authorizes the owner before its commit, so the three commit    *)
(* together or not at all.  Rows have no version, so a request may write    *)
(* over a change it did not see; lost says of which rows.                   *)
(*                                                                          *)
(* No name is one of PhoneAuth's, so that proofs can be about both.         *)
(***************************************************************************)
EXTENDS Integers

CONSTANTS
    Transactions,   \* transactions that may run at once
    Accounts,       \* accounts that signed up
    Registrations,  \* applications to register a store
    Applicant,      \* the account of each
    MaxStores       \* bound on the stores made of one registration in the model

ASSUME OnboardingAssumption ==
    /\ Applicant \in [Registrations -> Accounts] /\ MaxStores \in Nat
    /\ Accounts \cap Registrations = {}

VARIABLES
    accounts,       \* the committed rows of accounts
    registrations,  \* the status of each registration, NONE if there is none
    stores,         \* how many stores were made of it
    txn,            \* the transactions that run
    lost,           \* history: the rows written over a change that was not seen
    demoted         \* history: accounts that an administrator made users

onboardingVars == <<accounts, registrations, stores, txn, lost, demoted>>

States == {"INACTIVE", "ACTIVE", "DELETE"}

Permissions == {"USER", "OWNER", "ADMIN"}

Statuses == {"NONE", "APPLY", "REAPPLY", "REJECT", "APPROVE"}

Account == [state : States, permission : Permissions]

\* Of one kind of rows, one or none is written.
One(x, row) == [y \in {x} |-> row]

Nothing == [y \in {} |-> {}]

OnboardingInit ==
    /\ accounts = [a \in Accounts |-> [state |-> "INACTIVE", permission |-> "USER"]]
    /\ registrations = [r \in Registrations |-> "NONE"]
    /\ stores = [r \in Registrations |-> 0]
    /\ txn = Nothing /\ lost = {} /\ demoted = {}

-----------------------------------------------------------------------------
(* Requests read and check.  A job holds the rows it will write, and the    *)
(* rows as it read them.                                                    *)

\* The rows old with those of new written over them.
Over(new, old) == [x \in DOMAIN old |-> IF x \in DOMAIN new THEN new[x] ELSE old[x]]

BeginJob(t, do, accs, regs) ==
    /\ t \notin DOMAIN txn
    /\ txn' = [u \in DOMAIN txn \cup {t} |->
         IF u = t THEN [do |-> do, accounts |-> accs, registrations |-> regs,
                        read |-> [a \in DOMAIN accs |-> accounts[a]],
                        seen |-> [r \in DOMAIN regs |-> registrations[r]]]
         ELSE txn[u]]
    /\ UNCHANGED <<accounts, registrations, stores, lost, demoted>>

\* signIn writes the time of the last one, with the rest of the row.
SignIn(t, a) ==
    /\ accounts[a].state = "ACTIVE"
    /\ BeginJob(t, "signIn", One(a, accounts[a]), Nothing)

\* changePassword looks at the password alone.
ChangePassword(t, a) == BeginJob(t, "changePassword", One(a, accounts[a]), Nothing)

ActivateAccount(t, a) ==
    /\ accounts[a].state = "INACTIVE"
    /\ BeginJob(t, "activate", One(a, [accounts[a] EXCEPT !.state = "ACTIVE"]), Nothing)

\* updateByAdmin; a row that stays the same is not written.
UpdateByAdmin(t, a) ==
    \E row \in Account \ {accounts[a]} : BeginJob(t, "admin", One(a, row), Nothing)

\* The id of a registration is new, and the account was active when the request
\* was authenticated.
Apply(t, r) ==
    /\ registrations[r] = "NONE" /\ \A u \in DOMAIN txn : r \notin DOMAIN txn[u].registrations
    /\ accounts[Applicant[r]].state = "ACTIVE"
    /\ BeginJob(t, "apply", Nothing, One(r, "APPLY"))

Reapply(t, r) ==
    /\ registrations[r] = "REJECT" /\ accounts[Applicant[r]].state = "ACTIVE"
    /\ BeginJob(t, "reapply", Nothing, One(r, "REAPPLY"))

\* Mutant: whatever its status.
IsAppliedOrDone(status) == status # "NONE"

IsApplied(status) == status \in {"APPLY", "REAPPLY"}

Reject(t, r) ==
    /\ IsApplied(registrations[r])
    /\ BeginJob(t, "reject", Nothing, One(r, "REJECT"))

\* Mutant: who is an owner already is made one.
AuthorizedAgain(a) ==
    IF accounts[a].permission = "OWNER" THEN One(a, [accounts[a] EXCEPT !.permission = "OWNER"])
    ELSE Nothing

\* authorize: who has less than the permission of an owner gets it.
Authorized(a) ==
    IF accounts[a].permission = "USER" THEN One(a, [accounts[a] EXCEPT !.permission = "OWNER"])
    ELSE Nothing

\* An approval fails as a whole when the account is not active.
Approve(t, r) ==
    /\ IsApplied(registrations[r])
    /\ accounts[Applicant[r]].state = "ACTIVE"
    /\ BeginJob(t, "approve", Authorized(Applicant[r]), One(r, "APPROVE"))

RequestJob(t) ==
    \/ \E a \in Accounts :
         SignIn(t, a) \/ ChangePassword(t, a) \/ ActivateAccount(t, a) \/ UpdateByAdmin(t, a)
    \/ \E r \in Registrations : Apply(t, r) \/ Reapply(t, r) \/ Reject(t, r) \/ Approve(t, r)

-----------------------------------------------------------------------------
(* Requests commit or fail.                                                 *)

EndJob(t) == txn' = [u \in DOMAIN txn \ {t} |-> txn[u]]

\* The rows of a job that changed since they were read.
Unseen(job) ==
    {a \in DOMAIN job.accounts : accounts[a] # job.read[a]} \cup
    {r \in DOMAIN job.registrations : registrations[r] # job.seen[r]}

Commit(t) ==
    LET job == txn[t]
    IN  /\ t \in DOMAIN txn
        /\ accounts' = Over(job.accounts, accounts)
        /\ registrations' = Over(job.registrations, registrations)
        /\ job.do = "approve" => \A r \in DOMAIN job.registrations : stores[r] < MaxStores
        /\ stores' = IF job.do = "approve"
             THEN [r \in Registrations |->
                     IF r \in DOMAIN job.registrations THEN stores[r] + 1 ELSE stores[r]]
             ELSE stores
        /\ lost' = lost \cup Unseen(job)
        /\ demoted' = IF job.do = "admin"
             THEN demoted \cup {a \in DOMAIN job.accounts : job.accounts[a].permission = "USER"}
             ELSE demoted
        /\ EndJob(t)

\* The transaction is rolled back.
RollBack(t) ==
    /\ t \in DOMAIN txn
    /\ EndJob(t)
    /\ UNCHANGED <<accounts, registrations, stores, lost, demoted>>

OnboardingNext == \E t \in Transactions : RequestJob(t) \/ Commit(t) \/ RollBack(t)

OnboardingSpec == OnboardingInit /\ [][OnboardingNext]_onboardingVars

-----------------------------------------------------------------------------
(* Correctness.                                                             *)

Services ==
    {"signIn", "changePassword", "activate", "admin", "apply", "reapply", "reject", "approve"}

\* The state is well typed: no request writes a row without its state or status.
OnboardingTypeOK ==
    /\ accounts \in [Accounts -> Account]
    /\ registrations \in [Registrations -> Statuses]
    /\ stores \in [Registrations -> Nat]
    /\ DOMAIN txn \subseteq Transactions
    /\ \A t \in DOMAIN txn :
         /\ txn[t].do \in Services
         /\ DOMAIN txn[t].accounts \subseteq Accounts
         /\ \A a \in DOMAIN txn[t].accounts : txn[t].accounts[a] \in Account
         /\ DOMAIN txn[t].registrations \subseteq Registrations
         /\ \A r \in DOMAIN txn[t].registrations : txn[t].registrations[r] \in Statuses
    /\ lost \subseteq Accounts \cup Registrations /\ demoted \subseteq Accounts

\* A registration made one store if it is approved and none otherwise, unless
\* a request wrote over a decision it did not see.
OneStoreEach ==
    \A r \in Registrations \ lost :
       stores[r] = IF registrations[r] = "APPROVE" THEN 1 ELSE 0

\* Whoever has a store is an owner, unless an administrator took the permission
\* or a request wrote over it without having seen it.
StoresHaveOwners ==
    \A r \in Registrations :
       LET a == Applicant[r]
       IN  stores[r] > 0 /\ a \notin lost \cup demoted => accounts[a].permission # "USER"

=============================================================================
