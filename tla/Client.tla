------------------------------- MODULE Client -------------------------------
(***************************************************************************)
(* Who an event is from: Client (src/alitycs.go) and its session manager   *)
(* (src/session.go), called from several goroutines. Everything from       *)
(* batcher.enqueue on is Batcher's; here an event that reaches it is       *)
(* accepted or dropped, and accepted events line up in sent.               *)
(*                                                                         *)
(* A step is what one goroutine does while it holds one of the mutexes     *)
(* that the state is guarded by: sessionManager.mu, globalsMu, stateMu.    *)
(* Ids are numbered as they are generated. Of time only that matters       *)
(* whether the last activity is longer ago than config.sessionTimeout.     *)
(***************************************************************************)
EXTENDS Integers, Sequences, FiniteSets

CONSTANTS
    Callers,  \* the goroutines that use the client
    Users,    \* the user ids they identify or attach to an event
    Keys,     \* the keys of global properties
    NoOne,    \* no user, or no goroutine
    MaxCalls  \* bound: calls made in a behaviour

ASSUME ClientAssumption ==
    /\ MaxCalls \in Nat
    /\ NoOne \notin Callers \union Users

VARIABLES
    session, \* sessionManager.session: its id, its anonymous id, its user
    expired, \* sessionManager.activity is longer ago than the timeout
    made,    \* ids generated: of sessions, and anonymous ones
    stateMu, \* who holds Client.stateMu
    closed,  \* Client.closed
    globals, \* Client.globals: the update each key's value is from, 0 for none
    writer,  \* who holds globalsMu for writing
    call,    \* the call each goroutine is in
    calls,   \* number of calls made
    sent,    \* events accepted by the batcher
    past     \* history, see Past

identity   == <<session, expired, made>>
properties == <<globals, writer>>
clientVars == <<identity, stateMu, closed, properties, call, calls, sent, past>>

\* epoch:      how many Resets have returned
\* identified: the users identified in each epoch
\* published:  the values globals had whenever nobody was writing them
\* lapsed:     the session expired
\* revived:    Identify was called after that
Past == [epoch : Nat, identified : SUBSET (Nat \X Users), published : Seq([Keys -> Nat]),
         lapsed : BOOLEAN, revived : BOOLEAN]

NoIds == [session |-> 0, anon |-> 0]
NoSession == [id |-> 0, anon |-> 0, user |-> NoOne]

\* who: the argument of Identify or WithUserID; got: the result of next;
\* todo: the keys still to be written; the last four are history: the epoch
\* the call began and took its identity in, whether nobody changed the session
\* since its Identify, and whether the session had lapsed, unrevived
NoCall == [pc |-> "idle", kind |-> "none", who |-> NoOne, got |-> NoSession, todo |-> {},
           begun |-> 0, epoch |-> 0, intact |-> TRUE, stale |-> FALSE]

ClientInit ==
    /\ session = [id |-> 1, anon |-> 1, user |-> NoOne]
    /\ made = [session |-> 1, anon |-> 1]
    /\ expired = FALSE
    /\ stateMu = NoOne
    /\ closed = FALSE
    /\ globals = [k \in Keys |-> 0]
    /\ writer = NoOne
    /\ call = [c \in Callers |-> NoCall]
    /\ calls = 0
    /\ sent = <<>>
    /\ past = [epoch |-> 0, identified |-> {}, published |-> <<globals>>,
               lapsed |-> FALSE, revived |-> FALSE]

At(c, pc) == call[c].pc = pc
Goes(c, pc) == call' = [call EXCEPT ![c].pc = pc]

\* a call with kind and who begins at pc
Begins(c, kind, who, pc) ==
    /\ At(c, "idle")
    /\ calls < MaxCalls
    /\ calls' = calls + 1
    /\ call' = [call EXCEPT ![c] = [NoCall EXCEPT !.pc = pc, !.kind = kind, !.who = who,
                                                  !.begun = past.epoch]]

\* the same, when it changes the session at once: an Identify on its way to
\* its event no longer finds what it has set
Intrudes(c, kind, who, pc) ==
    /\ At(c, "idle")
    /\ calls < MaxCalls
    /\ calls' = calls + 1
    /\ call' = [d \in Callers |->
                  IF d = c THEN [NoCall EXCEPT !.pc = pc, !.kind = kind, !.who = who,
                                               !.begun = past.epoch]
                  ELSE [call[d] EXCEPT !.intact = FALSE]]

---------------------------------------------------------------------------
(* The session manager *)

KeepsEmpty(anon) ==  \* mutant: an empty anonymous id is carried over
    [id |-> made.session + 1, anon |-> anon, user |-> NoOne]

\* create; 0 stands for the empty string
Created(anon) ==
    [id |-> made.session + 1, anon |-> IF anon = 0 THEN made.anon + 1 ELSE anon,
     user |-> NoOne]

Replaces(new) ==
    /\ session' = new
    /\ made' = [session |-> new.id, anon |-> IF new.anon > made.anon THEN new.anon ELSE made.anon]

RefreshedFirst == FALSE  \* mutant: activity is recorded before the test
Expired == expired

---------------------------------------------------------------------------
(* The calls *)

\* Track, Page, CaptureError, TrackRevenue, with or without WithUserID
Track(c) ==
    /\ \E user \in Users \union {NoOne} : Begins(c, "track", user, "lock")
    /\ UNCHANGED <<identity, stateMu, closed, properties, sent, past>>

NotRefreshed == expired  \* mutant: Identify is no activity
Refreshed == FALSE

\* Identify: setUserID at once, whether or not the client is closed, then its event
Identify(c) ==
    /\ \E user \in Users :
          /\ Intrudes(c, "identify", user, "lock")
          /\ session' = [session EXCEPT !.user = user]
          /\ past' = [past EXCEPT !.identified = @ \union {<<past.epoch, user>>},
                                  !.revived = past.lapsed]
    /\ expired' = Refreshed
    /\ UNCHANGED <<made, stateMu, closed, properties, sent>>

SameAnon == session.anon  \* mutant: Reset keeps the anonymous id
NoAnon == 0

Reset(c) ==
    /\ Intrudes(c, "none", NoOne, "idle")
    /\ Replaces(Created(NoAnon))
    /\ expired' = FALSE
    /\ past' = [past EXCEPT !.epoch = @ + 1, !.lapsed = FALSE, !.revived = FALSE]
    /\ UNCHANGED <<stateMu, closed, properties, sent>>

\* Shutdown, as far as it matters here
Shutdown(c) ==
    /\ ~closed
    /\ stateMu = NoOne
    /\ closed' = TRUE
    /\ Begins(c, "none", NoOne, "idle")
    /\ UNCHANGED <<identity, stateMu, properties, sent, past>>

---------------------------------------------------------------------------
(* Global properties *)

Publishes(value) == past' = [past EXCEPT !.published = Append(@, value)]

\* SetGlobalProperties writes key after key with globalsMu held
SetGlobals(c) ==
    /\ writer = NoOne
    /\ writer' = c
    /\ \E keys \in SUBSET Keys \ {{}} :
          /\ At(c, "idle")
          /\ calls < MaxCalls
          /\ calls' = calls + 1
          /\ call' = [call EXCEPT ![c] = [NoCall EXCEPT !.pc = "write", !.todo = keys]]
    /\ UNCHANGED <<identity, stateMu, closed, globals, sent, past>>

WriteGlobal(c) ==
    /\ At(c, "write")
    /\ \E key \in call[c].todo :
          /\ globals' = [globals EXCEPT ![key] = Len(past.published)]
          /\ call' = [call EXCEPT ![c].todo = @ \ {key}]
    /\ UNCHANGED <<identity, stateMu, closed, writer, calls, sent, past>>

GlobalsSet(c) ==
    /\ At(c, "write")
    /\ call[c].todo = {}
    /\ writer' = NoOne
    /\ Publishes(globals)
    /\ call' = [call EXCEPT ![c] = NoCall]
    /\ UNCHANGED <<identity, stateMu, closed, globals, calls, sent>>

ClearGlobals(c) ==
    /\ writer = NoOne
    /\ globals' = [k \in Keys |-> 0]
    /\ Publishes(globals')
    /\ Begins(c, "none", NoOne, "idle")
    /\ UNCHANGED <<identity, stateMu, closed, writer, sent>>

---------------------------------------------------------------------------
(* Client.enqueue, with stateMu held from the lock to the return *)

Unguarded == TRUE  \* mutant: enqueue takes no lock
Free == stateMu = NoOne

Lock(c) ==
    /\ At(c, "lock")
    /\ Free
    /\ stateMu' = c
    /\ Goes(c, "next")
    /\ UNCHANGED <<identity, closed, properties, calls, sent, past>>

Returns(c) == call' = [call EXCEPT ![c] = NoCall]

Forgotten == stateMu  \* mutant: an early return without the unlock
Released == NoOne

\* the client is closed, or the event has no name
Ignore(c) ==
    /\ At(c, "next")
    /\ closed \/ call[c].kind = "track"
    /\ stateMu' = Released
    /\ Returns(c)
    /\ UNCHANGED <<identity, closed, properties, calls, sent, past>>

\* sessionManager.next: rotates an expired session, and records activity
NextIdentity(c) ==
    /\ At(c, "next")
    /\ ~closed
    /\ IF Expired THEN Replaces(Created(session.anon)) ELSE UNCHANGED <<session, made>>
    /\ expired' = FALSE
    /\ LET same == session'.id = session.id
       IN /\ call' = [call EXCEPT ![c] =
                        [@ EXCEPT !.pc = "merge", !.got = session', !.epoch = past.epoch,
                                  !.stale = same /\ past.lapsed /\ ~past.revived]]
          /\ past' = [past EXCEPT !.lapsed = @ /\ same, !.revived = @ /\ same]
    /\ UNCHANGED <<stateMu, closed, properties, calls, sent>>

\* the user of the session, unless the call names one
UserOf(c) == IF call[c].kind = "track" /\ call[c].who # NoOne
             THEN call[c].who ELSE call[c].got.user

\* the event as it is built, with the values the global properties have now
Event(c) == [kind |-> call[c].kind, who |-> call[c].who, user |-> UserOf(c),
             id |-> call[c].got.id, anon |-> call[c].got.anon,
             globals |-> globals, update |-> Len(past.published),
             begun |-> call[c].begun, epoch |-> call[c].epoch,
             intact |-> call[c].intact, stale |-> call[c].stale]

\* mergeProperties reads under globalsMu; then batcher.enqueue has room
Accept(c) ==
    /\ At(c, "merge")
    /\ writer = NoOne
    /\ sent' = Append(sent, Event(c))
    /\ stateMu' = NoOne
    /\ Returns(c)
    /\ UNCHANGED <<identity, closed, properties, calls, past>>

\* the event breaks an ingestion limit, or the queue is full
Refuse(c) ==
    /\ At(c, "merge")
    /\ writer = NoOne
    /\ stateMu' = NoOne
    /\ Returns(c)
    /\ UNCHANGED <<identity, closed, properties, calls, sent, past>>

---------------------------------------------------------------------------

\* The timeout goes by without activity. With the session lapses what an
\* Identify has set.
Expire ==
    /\ ~expired
    /\ expired' = TRUE
    /\ past' = [past EXCEPT !.lapsed = TRUE, !.revived = FALSE]
    /\ call' = [c \in Callers |-> [call[c] EXCEPT !.intact = FALSE]]
    /\ UNCHANGED <<session, made, stateMu, closed, properties, calls, sent>>

Step(c) == \/ WriteGlobal(c) \/ GlobalsSet(c) \/ Lock(c) \/ Ignore(c)
           \/ NextIdentity(c) \/ Accept(c) \/ Refuse(c)

Call(c) == \/ Track(c) \/ Identify(c) \/ Reset(c) \/ Shutdown(c)
           \/ SetGlobals(c) \/ ClearGlobals(c)

ClientNext == (\E c \in Callers : Call(c) \/ Step(c)) \/ Expire

ClientSpec == ClientInit /\ [][ClientNext]_clientVars
=============================================================================
