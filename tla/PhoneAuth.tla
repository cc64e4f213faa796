------------------------------ MODULE PhoneAuth ------------------------------
(***************************************************************************)
(* Verification of a phone number and the sign-up that needs it.            *)
(*                                                                          *)
(* AuthService keeps what it knows of a phone in three keys of Redis: the   *)
(* attempts to send a code, one key per purpose, which expire a day after   *)
(* the first; the code sent last, and the success of a verification, one    *)
(* key each whatever the purpose.  Requests run with neither a lock nor a   *)
(* transaction, so their commands interleave, and a request may fail        *)
(* between any two of them.  Keys expire at any time.                       *)
(*                                                                          *)
(* Accounts are counted per phone: the schema lets several have the same.   *)
(***************************************************************************)
EXTENDS Integers, FiniteSets

CONSTANTS
    Threads,      \* request threads
    Phones,       \* phone numbers
    Codes,        \* codes that can be drawn or presented
    None,         \* no code
    MaxAttempt    \* of each purpose

Purposes == {"SIGN_UP", "CREATE_DEVICE"}

ASSUME PhoneAssumption ==
    IsFiniteSet(Threads) /\ None \notin Codes /\ MaxAttempt \in [Purposes -> Nat \ {0}]

VARIABLES
    attempts,   \* the number of codes requested, 0 when there is no key
    expiring,   \* the attempts whose key has an expiry
    code,       \* the code kept for a phone
    success,    \* the phones whose verification is kept
    accountsOf, \* how many accounts a phone has
    active,     \* the phones with an active account
    req,        \* the requests that are being handled
    sent,       \* history: the codes that were drawn for a phone
    proved,     \* history: the phones for which such a code was presented
    broken,     \* history: the phones of requests that failed half done
    orphaned,   \* history: the attempts whose request failed before their expiry
    asked,      \* history: the phones with a code saved since one of their keys expired
    swept       \* history: the phones with none since a request that knew nothing
                \* of the code or success that was there deleted it

redis == <<attempts, expiring, code, success>>

database == <<accountsOf, active>>

answers == <<asked, swept>>

history == <<sent, proved, broken, orphaned, answers>>

vars == <<redis, database, req, history>>

Attempts == Purposes \X Phones

Init ==
    /\ attempts = [a \in Attempts |-> 0] /\ expiring = {}
    /\ code = [p \in Phones |-> None] /\ success = {}
    /\ accountsOf = [p \in Phones |-> 0] /\ active = {}
    /\ req = << >>
    /\ sent = [p \in Phones |-> {}] /\ proved = {} /\ broken = {} /\ orphaned = {}
    /\ asked = {} /\ swept = {}

-----------------------------------------------------------------------------
(* Requests.                                                                *)

At(t, step) == t \in DOMAIN req /\ req[t].step = step

Begin(t, r) ==
    /\ t \notin DOMAIN req
    /\ req' = [u \in DOMAIN req \cup {t} |-> IF u = t THEN r ELSE req[u]]

Go(t, step) == req' = [req EXCEPT ![t].step = step]

\* The requests about p that did not delete its success yet, having saved a code,
\* and those that did not delete its code yet, having found it.
Sending(p) ==
    {t \in DOMAIN req : req[t].of[2] = p /\ req[t].step \in {"count", "expire", "reset"}}

Verifying(p) == {t \in DOMAIN req : req[t].of[2] = p /\ req[t].step \in {"save", "drop"}}

\* The request goes on, and what it did is unknown to those of S.
GoPast(t, step, S) ==
    req' = [u \in DOMAIN req |->
      IF u = t THEN [req[u] EXCEPT !.step = step]
      ELSE IF u \in S THEN [req[u] EXCEPT !.stale = TRUE] ELSE req[u]]

End(t) == req' = [u \in DOMAIN req \ {t} |-> req[u]]

\* A request that is refused at one of its checks.
Refuse(t) == End(t) /\ UNCHANGED <<redis, database, history>>

\* sendAuthCode, after the check of the account: a phone may sign up if it has
\* no account, and register a device if it has an active one.
Send(t, a) ==
    /\ IF a[1] = "SIGN_UP" THEN accountsOf[a[2]] = 0 ELSE a[2] \in active
    /\ Begin(t, [do |-> "send", of |-> a, code |-> None, step |-> "attempts",
                 stale |-> FALSE])
    /\ UNCHANGED <<redis, database, history>>

\* Mutant: the maximum may be reached once more.
IsExceedLate(a, count) == MaxAttempt[a[1]] < count

IsExceed(a, count) == MaxAttempt[a[1]] <= count

CheckAttempts(t) ==
    /\ At(t, "attempts")
    /\ IF IsExceed(req[t].of, attempts[req[t].of])
         THEN Refuse(t)
         ELSE Go(t, "code") /\ UNCHANGED <<redis, database, history>>

SaveCode(t) ==
    LET p == req[t].of[2]
    IN  /\ At(t, "code")
        /\ \E c \in Codes :
             /\ code' = [code EXCEPT ![p] = c]
             /\ sent' = [sent EXCEPT ![p] = @ \cup {c}]
        /\ GoPast(t, "count", Verifying(p))
        /\ asked' = asked \cup {p} /\ swept' = swept \ {p}
        /\ UNCHANGED <<attempts, expiring, success, database, proved, broken, orphaned>>

\* Mutant: the value before it was incremented.
FirstBefore == 0

\* The value incremented for which the key is given its expiry.
First == 1

Count(t) ==
    LET a == req[t].of
    IN  /\ At(t, "count")
        /\ attempts' = [attempts EXCEPT ![a] = @ + 1]
        /\ Go(t, IF attempts'[a] = First THEN "expire" ELSE "reset")
        /\ UNCHANGED <<expiring, code, success, database, history>>

ExpireAttempts(t) ==
    LET a == req[t].of
    IN  /\ At(t, "expire")
        /\ expiring' = IF attempts[a] > 0 THEN expiring \cup {a} ELSE expiring
        /\ Go(t, "reset")
        /\ UNCHANGED <<attempts, code, success, database, history>>

\* The phones of which request t would delete what it does not know of.
Sweeps(t, phones) == IF req[t].stale THEN phones \cap {req[t].of[2]} ELSE {}

\* The code is sent once the success is gone.
Reset(t) ==
    /\ At(t, "reset")
    /\ success' = success \ {req[t].of[2]}
    /\ End(t)
    /\ swept' = swept \cup Sweeps(t, success)
    /\ UNCHANGED <<attempts, expiring, code, database, sent, proved, broken, orphaned, asked>>

\* verifyAuthCode, which is refused to a phone that is verified.  Its purpose
\* makes no difference: neither key has one.
Verify(t, p, c) ==
    /\ p \notin success
    /\ Begin(t, [do |-> "verify", of |-> <<"SIGN_UP", p>>, code |-> c, step |-> "find",
                 stale |-> FALSE])
    /\ UNCHANGED <<redis, database, history>>

\* Mutant: any code will do as long as one is kept.
MatchesAny(presented, kept) == kept # None

Matches(presented, kept) == kept # None /\ presented = kept

FindCode(t) ==
    LET p == req[t].of[2]
    IN  /\ At(t, "find")
        /\ IF Matches(req[t].code, code[p])
             THEN /\ GoPast(t, "save", Sending(p))
                  /\ proved' = IF req[t].code \in sent[p] THEN proved \cup {p} ELSE proved
                  /\ UNCHANGED <<redis, database, sent, broken, orphaned, answers>>
             ELSE Refuse(t)

SaveSuccess(t) ==
    /\ At(t, "save")
    /\ success' = success \cup {req[t].of[2]}
    /\ Go(t, "drop")
    /\ UNCHANGED <<attempts, expiring, code, database, history>>

DropCode(t) ==
    /\ At(t, "drop")
    /\ code' = [code EXCEPT ![req[t].of[2]] = None]
    /\ End(t)
    /\ swept' = swept \cup Sweeps(t, {p \in Phones : code[p] # None})
    /\ UNCHANGED <<attempts, expiring, success, database, sent, proved, broken, orphaned, asked>>

\* signUp: the success is looked up, then the account is made in a transaction
\* that looks for another account of the phone before.
SignUp(t, p) ==
    /\ p \in success
    /\ Begin(t, [do |-> "signUp", of |-> <<"SIGN_UP", p>>, code |-> None, step |-> "look",
                 stale |-> FALSE])
    /\ UNCHANGED <<redis, database, history>>

CheckDuplicate(t) ==
    /\ At(t, "look")
    /\ IF accountsOf[req[t].of[2]] > 0
         THEN Refuse(t)
         ELSE Go(t, "insert") /\ UNCHANGED <<redis, database, history>>

Insert(t) ==
    /\ At(t, "insert")
    /\ accountsOf' = [accountsOf EXCEPT ![req[t].of[2]] = @ + 1]
    /\ End(t)
    /\ UNCHANGED <<redis, active, history>>

SendStep(t) ==
    CheckAttempts(t) \/ SaveCode(t) \/ Count(t) \/ ExpireAttempts(t) \/ Reset(t)

\* Mutant: the code is dropped first.
VerifyStepDropFirst(t) ==
    \/ FindCode(t)
    \/ /\ At(t, "save")
       /\ code' = [code EXCEPT ![req[t].of[2]] = None]
       /\ Go(t, "drop")
       /\ UNCHANGED <<attempts, expiring, success, database, history>>
    \/ /\ At(t, "drop")
       /\ success' = success \cup {req[t].of[2]}
       /\ End(t)
       /\ UNCHANGED <<attempts, expiring, code, database, history>>

VerifyStep(t) == FindCode(t) \/ SaveSuccess(t) \/ DropCode(t)

Step(t) == SendStep(t) \/ VerifyStep(t) \/ CheckDuplicate(t) \/ Insert(t)

\* A code was saved beside a success, or a success beside a code.
HalfDone == {"count", "expire", "reset", "drop"}

\* A command fails, or the server stops.
Fail(t) ==
    /\ t \in DOMAIN req
    /\ broken' = IF req[t].step \in HalfDone THEN broken \cup {req[t].of[2]} ELSE broken
    /\ orphaned' = IF req[t].step = "expire" THEN orphaned \cup {req[t].of} ELSE orphaned
    /\ End(t)
    /\ UNCHANGED <<redis, database, sent, proved, answers>>

\* The account is activated by its mail.
Activate(p) ==
    /\ accountsOf[p] > 0 /\ p \notin active
    /\ active' = active \cup {p}
    /\ UNCHANGED <<redis, accountsOf, req, history>>

-----------------------------------------------------------------------------
(* Keys expire.                                                             *)

LapseAttempts(a) ==
    /\ a \in expiring
    /\ attempts' = [attempts EXCEPT ![a] = 0] /\ expiring' = expiring \ {a}
    /\ UNCHANGED <<code, success, database, req, history>>

LapseCode(p) ==
    /\ code[p] # None
    /\ code' = [code EXCEPT ![p] = None]
    /\ asked' = asked \ {p}
    /\ UNCHANGED <<attempts, expiring, success, database, req, sent, proved, broken, orphaned, swept>>

LapseSuccess(p) ==
    /\ p \in success
    /\ success' = success \ {p}
    /\ asked' = asked \ {p}
    /\ UNCHANGED <<attempts, expiring, code, database, req, sent, proved, broken, orphaned, swept>>

Request(t) ==
    \/ \E a \in Attempts : Send(t, a)
    \/ \E p \in Phones : SignUp(t, p) \/ \E c \in Codes : Verify(t, p, c)

Lapse ==
    \/ \E a \in Attempts : LapseAttempts(a)
    \/ \E p \in Phones : LapseCode(p) \/ LapseSuccess(p)

Next ==
    \/ \E t \in Threads : Request(t) \/ Step(t) \/ Fail(t)
    \/ \E p \in Phones : Activate(p)
    \/ Lapse

\* Requests go on, and keys with an expiry expire.
Fairness ==
    /\ \A t \in Threads : WF_vars(Step(t))
    /\ \A a \in Attempts : WF_vars(LapseAttempts(a))

Spec == Init /\ [][Next]_vars /\ Fairness

-----------------------------------------------------------------------------
(* Correctness.                                                             *)

Req == [do : {"send", "verify", "signUp"}, of : Attempts, code : Codes \cup {None},
        step : {"attempts", "code", "count", "expire", "reset", "find", "save", "drop",
                "look", "insert"},
        stale : BOOLEAN]

\* The state is well typed; a key that expires is there, and only a phone with
\* an account is active.
TypeOK ==
    /\ attempts \in [Attempts -> Nat] /\ expiring \subseteq Attempts
    /\ \A a \in expiring : attempts[a] > 0
    /\ code \in [Phones -> Codes \cup {None}] /\ success \subseteq Phones
    /\ accountsOf \in [Phones -> Nat] /\ active \subseteq Phones
    /\ \A p \in active : accountsOf[p] > 0
    /\ DOMAIN req \subseteq Threads /\ \A t \in DOMAIN req : req[t] \in Req
    /\ sent \in [Phones -> SUBSET Codes] /\ proved \subseteq Phones
    /\ broken \subseteq Phones /\ orphaned \subseteq Attempts
    /\ asked \subseteq Phones /\ swept \subseteq Phones

\* The threads that checked the attempts a and did not count theirs yet.
Uncounted(a) == {t \in DOMAIN req : req[t].of = a /\ req[t].step \in {"code", "count"}}

\* Requests that pass the check together exceed the maximum by less than their
\* number, in all until the count expires.
AttemptsBounded ==
    \A a \in Attempts :
       attempts[a] + Cardinality(Uncounted(a)) < MaxAttempt[a[1]] + Cardinality(Threads)

\* A phone that is verified, or has an account, was sent the code that was
\* presented for it.
VerifiedByCode ==
    /\ success \subseteq proved
    /\ \A p \in Phones : accountsOf[p] > 0 => p \in proved

\* However sendings and verifications interleave, a phone that was sent a code
\* has a code to present or is verified, and once they are done not both, until
\* a key expires or a request fails half done.  The exception is a request that
\* deletes a code or success it knew nothing of: a verification the code saved
\* after it found its own, a sending the success of a code found after it saved
\* its own.
CodeOrVerified ==
    \A p \in Phones \ broken :
       /\ p \in asked \ swept => code[p] # None \/ p \in success
       /\ p \in success /\ code[p] # None => \E t \in DOMAIN req : req[t].of[2] = p

\* Without the exception, which TLC refutes: a verification under way deletes
\* the code that a sending saves meanwhile, and the sending its success.
SentCodeWorks ==
    \A p \in asked \ broken : code[p] # None \/ p \in success

\* Who is refused may try again one day, unless a request failed between
\* counting the first attempt and giving the count its expiry.
TryTomorrow ==
    \A a \in Attempts : IsExceed(a, attempts[a]) ~> ~IsExceed(a, attempts[a]) \/ a \in orphaned

\* What the message of ExceedMaximumVerificationException says.
TryTomorrowAnyway ==
    \A a \in Attempts : IsExceed(a, attempts[a]) ~> ~IsExceed(a, attempts[a])

=============================================================================
