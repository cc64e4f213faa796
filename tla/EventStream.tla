----------------------------- MODULE EventStream -----------------------------
(***************************************************************************)
(* The server-sent events of a store, from a server to its clients.         *)
(*                                                                          *)
(* Each event is handled after its commit on a thread of its own: it is     *)
(* named by the millisecond, saved in Redis under that name for ten         *)
(* minutes, and sent to the emitters that are found then.  When a client    *)
(* connects, its emitter is registered under the millisecond, it is sent a  *)
(* greeting that is named like an event, and if the client says which event *)
(* it saw last, the later ones found in Redis are replayed in no order.     *)
(* What is kept under a millisecond takes the place of what was there.      *)
(* Clients drop their connections and the server may restart at any step.   *)
(*                                                                          *)
(* No name is one of Kitchen's, so that proofs can be about both.           *)
(***************************************************************************)
EXTENDS Integers

CONSTANTS
    Clients,   \* devices of the store and browsers of its owner
    Events,    \* events that are published
    None,      \* neither a client nor an event
    MaxTime,   \* bound on the milliseconds of the model
    MaxConnections  \* bound on the connections of the model

ASSUME EventStreamAssumption ==
    /\ MaxTime \in Nat \ {0} /\ MaxConnections \in Nat
    /\ None \notin Clients \cup Events

VARIABLES
    now,        \* the clock in milliseconds
    saved,      \* the event that Redis holds under each millisecond
    emitters,   \* the client whose emitter is registered under it
    ending,     \* the names of emitters whose connection is broken
    sending,    \* the events that are being handled
    handled,    \* the events that were handled, or lost
    conn,       \* the connection of each client
    opened,     \* how many connections were opened
    owed,       \* history: the events a connection has still to bring its client
    crowded     \* history: milliseconds under which several emitters were registered

streamVars == <<now, saved, emitters, ending, sending, handled, conn, opened, owed, crowded>>

Times == 1 .. MaxTime

Off == [step |-> "off", key |-> 0, since |-> 0, last |-> 0, todo |-> {}]

OwedNothing == [replayed |-> {}, live |-> {}]

StreamInit ==
    /\ now = 1
    /\ saved = [k \in Times |-> None] /\ emitters = [k \in Times |-> None]
    /\ ending = {} /\ sending = [e \in {} |-> {}] /\ handled = {}
    /\ conn = [c \in Clients |-> Off] /\ opened = 0
    /\ owed = [c \in Clients |-> OwedNothing] /\ crowded = {}

-----------------------------------------------------------------------------
(* Handling of an event.                                                    *)

Doing(e, step) == e \in DOMAIN sending /\ sending[e].step = step

\* The name is drawn.
Send(e) ==
    /\ e \notin DOMAIN sending \cup handled
    /\ sending' = [x \in DOMAIN sending \cup {e} |->
         IF x = e THEN [step |-> "save", key |-> now, to |-> {}] ELSE sending[x]]
    /\ UNCHANGED <<now, saved, emitters, ending, handled, conn, opened, owed, crowded>>

Connected(c) == conn[c].step # "off"

\* The connections that did not look into Redis yet.
Unscanned == {c \in Clients : conn[c].step \in {"greet", "scan"}}

\* What is owed to c when the event at k is gone and e, if any, is saved.
OwedAfter(c, k, e) ==
    [replayed |-> IF c \in Unscanned THEN owed[c].replayed \ {saved[k]} ELSE owed[c].replayed,
     live |-> IF Connected(c) THEN owed[c].live \cup ({e} \ {None}) ELSE owed[c].live]

\* Every connection that is registered by now must bring the event.
Save(e) ==
    LET k == sending[e].key
    IN  /\ Doing(e, "save")
        /\ saved' = [saved EXCEPT ![k] = e]
        /\ owed' = [c \in Clients |-> OwedAfter(c, k, e)]
        /\ sending' = [sending EXCEPT ![e].step = "find"]
        /\ UNCHANGED <<now, emitters, ending, handled, conn, opened, crowded>>

\* The emitters that are registered, of broken connections too.
Found == {<<emitters[k], k>> : k \in {k \in Times : emitters[k] # None}}

Without(S) == sending' = [e \in DOMAIN sending \ S |-> sending[e]] /\ handled' = handled \cup S

\* The event has still to be sent to the emitters in to.
GoOn(e, to) ==
    IF to = {} THEN Without({e})
    ELSE sending' = [sending EXCEPT ![e].step = "send", ![e].to = to] /\ UNCHANGED handled

Brought(c, e) ==
    owed' = [owed EXCEPT ![c] = [replayed |-> @.replayed \ {e}, live |-> @.live \ {e}]]

Find(e) ==
    /\ Doing(e, "find")
    /\ GoOn(e, Found)
    /\ UNCHANGED <<now, saved, emitters, ending, conn, opened, owed, crowded>>

\* Mutant: emitters and events bear the same names.
SendToOneName(e, x) ==
    LET c == x[1]
        alive == Connected(c) /\ conn[c].key = x[2]
    IN  /\ Doing(e, "send") /\ x \in sending[e].to
        /\ GoOn(e, sending[e].to \ {x})
        /\ emitters' = IF alive THEN emitters ELSE [emitters EXCEPT ![sending[e].key] = None]
        /\ IF alive
             THEN /\ Brought(c, e)
                  /\ conn' = [conn EXCEPT ![c].last = sending[e].key]
             ELSE UNCHANGED <<owed, conn>>
        /\ UNCHANGED <<now, saved, ending, opened, crowded>>

\* To one of the emitters found.  When its connection is broken the emitter
\* stays: it is not registered under the name that is deleted then, the event's.
SendTo(e, x) ==
    LET c == x[1]
    IN  /\ Doing(e, "send") /\ x \in sending[e].to
        /\ GoOn(e, sending[e].to \ {x})
        /\ IF Connected(c) /\ conn[c].key = x[2]
             THEN /\ Brought(c, e)
                  /\ conn' = [conn EXCEPT ![c].last = sending[e].key]
             ELSE UNCHANGED <<owed, conn>>
        /\ UNCHANGED <<now, saved, emitters, ending, opened, crowded>>

-----------------------------------------------------------------------------
(* Connection of a client.                                                  *)

\* The names of the events after the last.
LaterSaved(last) == {k \in Times : saved[k] # None /\ last < k}

\* The emitter is registered.
Connect(c) ==
    /\ ~Connected(c)
    /\ opened < MaxConnections /\ opened' = opened + 1
    /\ conn' = [conn EXCEPT ![c].step = "greet", ![c].key = now, ![c].since = conn[c].last]
    /\ crowded' = IF emitters[now] = None THEN crowded ELSE crowded \cup {now}
    /\ emitters' = [emitters EXCEPT ![now] = c]
    /\ owed' = [owed EXCEPT ![c] =
         [replayed |-> IF conn[c].last = 0 THEN {} ELSE {saved[k] : k \in LaterSaved(conn[c].last)},
          live |-> {}]]
    /\ UNCHANGED <<now, saved, ending, sending, handled>>

\* Whoever names no event is not replayed any.
Greet(c) ==
    /\ conn[c].step = "greet"
    /\ conn' = [conn EXCEPT ![c].step = IF conn[c].since = 0 THEN "open" ELSE "scan",
                            ![c].last = now]
    /\ UNCHANGED <<now, saved, emitters, ending, sending, handled, opened, owed, crowded>>

\* Mutant: who waits for no replay waits on.
ReplayingOn(c, todo) == [conn[c] EXCEPT !.step = "replay", !.todo = todo, !.since = 0]

\* The connection with the events in todo to be replayed yet.
Replaying(c, todo) ==
    [conn[c] EXCEPT !.step = IF todo = {} THEN "open" ELSE "replay",
                    !.todo = todo, !.since = 0]

\* Mutant: later than the greeting.
ScanAfterGreeting(c) ==
    /\ conn[c].step = "scan"
    /\ conn' = [conn EXCEPT
         ![c] = Replaying(c, {<<saved[k], k>> : k \in LaterSaved(conn[c].last)})]
    /\ UNCHANGED <<now, saved, emitters, ending, sending, handled, opened, owed, crowded>>

Scan(c) ==
    /\ conn[c].step = "scan"
    /\ conn' = [conn EXCEPT
         ![c] = Replaying(c, {<<saved[k], k>> : k \in LaterSaved(conn[c].since)})]
    /\ UNCHANGED <<now, saved, emitters, ending, sending, handled, opened, owed, crowded>>

Replay(c, x) ==
    /\ conn[c].step = "replay" /\ x \in conn[c].todo
    /\ Brought(c, x[1])
    /\ conn' = [conn EXCEPT ![c] = [Replaying(c, conn[c].todo \ {x}) EXCEPT !.last = x[2]]]
    /\ UNCHANGED <<now, saved, emitters, ending, sending, handled, opened, crowded>>

\* The connections of S are closed; clients keep the id of what they saw last.
Disconnect(S) ==
    /\ conn' = [c \in Clients |-> IF c \in S
         THEN [Off EXCEPT !.last = conn[c].last] ELSE conn[c]]
    /\ owed' = [c \in Clients |-> IF c \in S THEN OwedNothing ELSE owed[c]]

\* The connection breaks, not in the millisecond in which it was made; its
\* emitter is not told at once.
Drop(c) ==
    /\ Connected(c) /\ conn[c].key < now
    /\ Disconnect({c})
    /\ ending' = ending \cup {conn[c].key}
    /\ UNCHANGED <<now, saved, emitters, sending, handled, opened, crowded>>

\* Completion deletes what is registered under the name of the emitter.
Complete(k) ==
    /\ k \in ending
    /\ ending' = ending \ {k}
    /\ emitters' = [emitters EXCEPT ![k] = None]
    /\ UNCHANGED <<now, saved, sending, handled, conn, opened, owed, crowded>>

\* After five minutes the emitter times out and completes.
TimeOut(c) ==
    /\ conn[c].step = "open" /\ conn[c].key < now
    /\ Disconnect({c})
    /\ emitters' = [emitters EXCEPT ![conn[c].key] = None]
    /\ UNCHANGED <<now, saved, ending, sending, handled, opened, crowded>>

-----------------------------------------------------------------------------
(* Time and the server.                                                     *)

Tick ==
    /\ now < MaxTime
    /\ now' = now + 1
    /\ UNCHANGED <<saved, emitters, ending, sending, handled, conn, opened, owed, crowded>>

\* After ten minutes, and so not within the next millisecond, Redis forgets an
\* event.
Forget(k) ==
    /\ saved[k] # None /\ k + 1 < now
    /\ saved' = [saved EXCEPT ![k] = None]
    /\ owed' = [c \in Clients |-> OwedAfter(c, k, None)]
    /\ UNCHANGED <<now, emitters, ending, sending, handled, conn, opened, crowded>>

\* The server restarts: emitters, connections and threads are gone.
RestartServer ==
    /\ emitters' = [k \in Times |-> None] /\ ending' = {}
    /\ Disconnect(Clients)
    /\ Without(DOMAIN sending)
    /\ UNCHANGED <<now, saved, opened, crowded>>

HandleEvent(e) == Send(e) \/ Save(e) \/ Find(e) \/ \E x \in Clients \X Times : SendTo(e, x)

Connecting(c) == Greet(c) \/ Scan(c) \/ \E x \in Events \X Times : Replay(c, x)

StreamNext ==
    \/ \E e \in Events : HandleEvent(e)
    \/ \E c \in Clients : Connect(c) \/ Connecting(c) \/ Drop(c) \/ TimeOut(c)
    \/ \E k \in Times : Complete(k) \/ Forget(k)
    \/ Tick \/ RestartServer

StreamSpec == StreamInit /\ [][StreamNext]_streamVars

-----------------------------------------------------------------------------
(* Correctness.                                                             *)

Sending == [step : {"save", "find", "send"}, key : Times, to : SUBSET (Clients \X Times)]

Connection == [step : {"off", "greet", "scan", "replay", "open"}, key : 0 .. MaxTime,
               since : 0 .. MaxTime, last : 0 .. MaxTime, todo : SUBSET (Events \X Times)]

\* The state is well typed; a connection is replaying as long as it has events to
\* replay, and no longer.
StreamTypeOK ==
    /\ now \in Times
    /\ saved \in [Times -> Events \cup {None}] /\ emitters \in [Times -> Clients \cup {None}]
    /\ ending \subseteq Times /\ crowded \subseteq Times /\ handled \subseteq Events
    /\ DOMAIN sending \subseteq Events \ handled /\ \A e \in DOMAIN sending : sending[e] \in Sending
    /\ conn \in [Clients -> Connection] /\ opened \in 0 .. MaxConnections
    /\ \A c \in Clients : conn[c].step = "replay" <=> conn[c].todo # {}
    /\ owed \in [Clients -> [replayed : SUBSET Events, live : SUBSET Events]]

\* Replay and live events leave no gap: an open connection brought its client
\* every later event that Redis held when it was registered, and, once its
\* handler is done, every event saved since.  Exempt is a connection in whose
\* millisecond another was registered, and what Redis lost before it was read.
NoGap ==
    \A c \in Clients :
       conn[c].step = "open" =>
          /\ owed[c].replayed = {}
          /\ conn[c].key \notin crowded => owed[c].live \subseteq DOMAIN sending

\* The emitter of a connection stays registered until it is closed, unless
\* another was registered in its millisecond.
StaysRegistered ==
    \A c \in Clients :
       Connected(c) /\ conn[c].key \notin crowded => emitters[conn[c].key] = c

=============================================================================
