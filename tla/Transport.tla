----------------------------- MODULE Transport -----------------------------
(***************************************************************************)
(* transport.send, persist and recover (src/transport.go): one record at a *)
(* time is posted with retries, waits and Retry-After; its outcome decides *)
(* whether it leaves the write-ahead log. The loop goroutine of the        *)
(* batcher makes one call at a time.                                       *)
(*                                                                         *)
(* The log is the atomic one of DurableLog: each mutation answers "ok",    *)
(* "warned" (done, but its sync failed) or "failed" (not done). Time is    *)
(* relative: a pause and a wait are what is left of them, in any unit.     *)
(* Records are numbered in the order they are sent or persisted.           *)
(***************************************************************************)
EXTENDS Integers, Sequences, SequencesExt

CONSTANTS
    MaxRetries,  \* transport.maxRetries
    MaxWait,     \* maxRetryAfter
    MaxBackoff,  \* maxBackoff
    Suggestions, \* the values of Retry-After that the endpoint sends
    Far,         \* bound: the longest pause that a wrong clock shows
    MaxRecords   \* bound: records sent or persisted

ASSUME TransportAssumption ==
    /\ MaxRetries \in Nat
    /\ MaxWait \in Nat \ {0} /\ MaxBackoff \in Nat \ {0}
    /\ Suggestions \subseteq Nat
    /\ Far \in Nat /\ Far >= MaxWait
    /\ MaxRecords \in Nat

VARIABLES
    enabled,  \* store.enabled()
    log,      \* the records of the log, oldest first, with their pauses
    pc,       \* where the call is
    call,     \* the call's local variables
    ctxDone,  \* the context of the call has ended
    result,   \* what the last call returned
    next,     \* history: number of the next record
    accepted, \* history: records the endpoint accepted at least once
    refused,  \* history: records the endpoint refused for good
    told,     \* history: what the batcher was told about each record
    owed,     \* history: how long the endpoint still wants to be left alone
    excuse,   \* history: why a Retry-After may be forgotten
    doubt     \* history: accepted records the SDK may not know to be accepted

endpoint == <<accepted, refused>>
books    == <<owed, excuse, doubt>>
transportVars == <<enabled, log, pc, call, ctxDone, result, next, endpoint, told, books>>

Ids == 1 .. MaxRecords
NoHint == -1
NoCall == [mode |-> "none", rec |-> 0, todo |-> <<>>, attempt |-> 0,
           hint |-> NoHint, wait |-> 0]
NoResult == [kind |-> "none", rec |-> 0]

Lesser(a, b) == IF a < b THEN a ELSE b
Less(t) == IF t > 0 THEN t - 1 ELSE 0

LogIds == [i \in 1 .. Len(log) |-> log[i].id]
Held == {log[i].id : i \in 1 .. Len(log)}
InLog(r) == r \in Held
Place(r) == CHOOSE i \in 1 .. Len(log) : log[i].id = r
PauseOf(r) == log[Place(r)].pause

TransportInit ==
    /\ enabled \in BOOLEAN
    /\ log = <<>>
    /\ pc = "idle" /\ call = NoCall /\ ctxDone = FALSE /\ result = NoResult
    /\ next = 1
    /\ accepted = {} /\ refused = {}
    /\ told = [r \in Ids |-> "nothing"]
    /\ owed = [r \in Ids |-> 0]
    /\ excuse = [r \in Ids |-> "none"]
    /\ doubt = {}

---------------------------------------------------------------------------
(* The log *)

\* put, acknowledge and pause do nothing without a persistence path
StoreAnswers == IF enabled THEN {"ok", "warned", "failed"} ELSE {"ok"}

Logged(r, answer) ==
    IF enabled /\ answer # "failed" THEN Append(log, [id |-> r, pause |-> 0]) ELSE log

Unlogged(r, answer) ==
    IF InLog(r) /\ answer # "failed" THEN RemoveAt(log, Place(r)) ELSE log

Paused(r, pause, answer) ==
    IF answer = "failed" THEN log
    ELSE [i \in 1 .. Len(log) |-> IF log[i].id = r THEN [log[i] EXCEPT !.pause = pause]
                                  ELSE log[i]]

---------------------------------------------------------------------------
(* How a call begins and ends *)

Idle == pc = "idle" /\ ctxDone' = FALSE /\ UNCHANGED <<enabled, endpoint, books>>

Returns(kind, r) ==
    /\ pc' = "idle"
    /\ call' = NoCall
    /\ result' = [kind |-> kind, rec |-> r]

Tell(r, what) == told' = [told EXCEPT ![r] = what]

AnyPost(r) == call' = [NoCall EXCEPT !.mode = "send", !.rec = r]

\* send: into the log first; what could not be synced is not sent
Send ==
    /\ Idle
    /\ next <= MaxRecords
    /\ next' = next + 1
    /\ \E answer \in StoreAnswers :
          /\ log' = Logged(next, answer)
          /\ CASE answer = "ok" ->
                    /\ pc' = "post"
                    /\ AnyPost(next)
                    /\ UNCHANGED <<result, told>>
               [] answer = "warned" -> Returns("retained", next) /\ UNCHANGED told
               [] answer = "failed" -> Returns("lost", next) /\ Tell(next, "lost")

\* persist; the batcher calls it only when there is a log
Persist ==
    /\ Idle
    /\ enabled
    /\ next <= MaxRecords
    /\ next' = next + 1
    /\ \E answer \in StoreAnswers :
          /\ log' = Logged(next, answer)
          /\ IF answer = "failed"
             THEN Returns("lost", next) /\ Tell(next, "lost")
             ELSE Returns("retained", next) /\ UNCHANGED told

\* recover: works on a snapshot of the log
Recover ==
    /\ Idle
    /\ pc' = "check"
    /\ call' = [NoCall EXCEPT !.mode = "recover", !.todo = LogIds]
    /\ UNCHANGED <<log, result, next, told>>

\* the caller's context ends
Cancel ==
    /\ pc # "idle"
    /\ ~ctxDone
    /\ ctxDone' = TRUE
    /\ UNCHANGED <<enabled, log, pc, call, result, next, endpoint, told, books>>

---------------------------------------------------------------------------
(* recover: the next record of the snapshot *)

Check == pc = "check" /\ UNCHANGED <<enabled, ctxDone, next, endpoint, told, books>>
Newest == Last(call.todo)  \* mutant: the wrong end of the snapshot
Oldest == Head(call.todo)
Left == call.todo # <<>> /\ ~ctxDone

RecoverEnds ==
    /\ Check
    /\ call.todo = <<>>
    /\ Returns("recovered", 0)
    /\ UNCHANGED log

RecoverCancelled ==
    /\ Check
    /\ call.todo # <<>>
    /\ ctxDone
    /\ Returns("blocked", 0)
    /\ UNCHANGED log

Trusted(r) == TRUE  \* mutant: a stored pause is taken as it is
Plausible(r) == PauseOf(r) <= MaxWait

\* a pause written by another clock: cut down to MaxWait before it is honoured
ClampPause ==
    /\ Check
    /\ Left
    /\ ~Plausible(Oldest)
    /\ \E answer \in StoreAnswers :
          /\ log' = Paused(Oldest, MaxWait, answer)
          /\ Returns(IF answer = "ok" THEN "deferred" ELSE "blocked", Oldest)

\* paused: recovery does not sleep, it gives up
Defer ==
    /\ Check
    /\ Left
    /\ Plausible(Oldest)
    /\ PauseOf(Oldest) > 0
    /\ Returns("deferred", Oldest)
    /\ UNCHANGED log

Replay ==
    /\ Check
    /\ Left
    /\ PauseOf(Oldest) = 0
    /\ pc' = "post"
    /\ call' = [NoCall EXCEPT !.mode = "recover", !.rec = Oldest, !.todo = Tail(call.todo)]
    /\ UNCHANGED <<log, result>>

---------------------------------------------------------------------------
(* sendRecord: a post and its answer *)

Rec == call.rec
Posting == pc = "post" /\ UNCHANGED <<enabled, log, ctxDone, result, next, told>>

\* the endpoint's wish is what the last answer says
Answered(suggestion) ==
    /\ owed' = [owed EXCEPT ![Rec] = Lesser(suggestion, MaxWait)]
    /\ excuse' = [excuse EXCEPT ![Rec] = "none"]

OnlySome2xx == "retry"  \* mutant: one of the 2xx is taken for a failure
Any2xx == "accepted"

PostAccepted ==
    /\ Posting
    /\ ~ctxDone
    /\ pc' = Any2xx
    /\ accepted' = accepted \union {Rec}
    /\ Answered(0)
    /\ UNCHANGED <<call, refused, doubt>>

\* a 4xx other than 429
PostRefused ==
    /\ Posting
    /\ ~ctxDone
    /\ pc' = "refused"
    /\ refused' = refused \union {Rec}
    /\ Answered(0)
    /\ UNCHANGED <<call, accepted, doubt>>

\* a network error or a 5xx; the endpoint may have accepted the batch (arrived)
PostFailed ==
    /\ Posting
    /\ pc' = "retry"
    /\ \E arrived \in BOOLEAN :
          /\ accepted' = IF arrived THEN accepted \union {Rec} ELSE accepted
          /\ doubt' = IF arrived THEN doubt \union {Rec} ELSE doubt
    /\ Answered(0)
    /\ UNCHANGED <<call, refused>>

Unbounded(suggestion) == suggestion  \* mutant: Retry-After has no ceiling
BoundedRetryAfter(suggestion) == Lesser(suggestion, MaxWait)

\* a 429 with Retry-After (without one it is a PostFailed)
PostThrottled ==
    /\ Posting
    /\ ~ctxDone
    /\ pc' = "retry"
    /\ \E suggestion \in Suggestions :
          /\ call' = [call EXCEPT !.hint = BoundedRetryAfter(suggestion)]
          /\ Answered(suggestion)
    /\ UNCHANGED <<endpoint, doubt>>

---------------------------------------------------------------------------
(* sendRecord: the next attempt, or none *)

\* the schedule: doubled from one unit up to the cap, then widened by a fifth
Doubled(attempt) == 2 ^ (attempt - 1)
BackoffDelay(attempt) ==
    IF Doubled(attempt) \in 1 .. MaxBackoff THEN Doubled(attempt) ELSE MaxBackoff
Jittered(d) == ((8 * d) \div 10) .. ((12 * d + 9) \div 10)

Delays == IF call.hint = NoHint THEN Jittered(BackoffDelay(call.attempt + 1))
          ELSE {call.hint}

SameAttempt == call.attempt  \* mutant: attempts are not counted
NextAttempt == call.attempt + 1

Retry ==
    /\ pc = "retry"
    /\ call.attempt < MaxRetries
    /\ pc' = "wait"
    /\ \E delay \in Delays :
          call' = [call EXCEPT !.attempt = NextAttempt, !.hint = NoHint, !.wait = delay]
    /\ UNCHANGED <<enabled, log, ctxDone, result, next, endpoint, told, books>>

WaitOver ==
    /\ pc = "wait"
    /\ call.wait = 0
    /\ pc' = "post"
    /\ UNCHANGED <<enabled, log, call, ctxDone, result, next, endpoint, told, books>>

\* the record stays in the log, if there is one
FailureLost == "lost"  \* mutant: a retained record is reported as lost
Failure == IF call.mode = "recover" THEN "blocked"
           ELSE IF enabled THEN "retained" ELSE "lost"

Fails ==
    /\ Returns(Failure, Rec)
    /\ IF Failure = "lost" THEN Tell(Rec, "lost") ELSE UNCHANGED told
    /\ UNCHANGED <<enabled, ctxDone, next, endpoint, owed, doubt>>

\* the pause is not stored: the next recovery does not know of it
WaitCancelled ==
    /\ pc = "wait"
    /\ ctxDone
    /\ Fails
    /\ excuse' = [excuse EXCEPT ![Rec] = "cancelled"]
    /\ UNCHANGED log

LastPause == 0  \* mutant: the last Retry-After is not stored
PauseLeft == IF call.hint = NoHint THEN 0 ELSE call.hint

Exhausted ==
    /\ pc = "retry"
    /\ call.attempt = MaxRetries
    /\ \E answer \in StoreAnswers :
          /\ log' = Paused(Rec, PauseLeft, answer)
          /\ excuse' = IF answer = "failed" THEN [excuse EXCEPT ![Rec] = "unstored"]
                       ELSE excuse
    /\ Fails

---------------------------------------------------------------------------
(* sendRecord: the outcome is final, the record leaves the log *)

Resolving == UNCHANGED <<enabled, ctxDone, next, endpoint, owed, excuse>>

\* what comes after a record that left the log
Proceeds(outcome) ==
    IF call.mode = "send"
    THEN Returns(outcome, Rec)
    ELSE pc' = "check" /\ call' = [call EXCEPT !.rec = 0] /\ UNCHANGED result

DropsRecord(answer) == TRUE  \* mutant: a failed removal does not count as one
Removed(answer) == answer # "failed"

\* a sync that failed (warned) ends the recovery, but the record is gone
AckAccepted ==
    /\ pc = "accepted"
    /\ Resolving
    /\ \E answer \in StoreAnswers :
          /\ log' = Unlogged(Rec, answer)
          /\ IF Removed(answer)
             THEN /\ Tell(Rec, "delivered")
                  /\ IF answer = "warned" /\ call.mode = "recover"
                     THEN Returns("blocked", Rec)
                     ELSE Proceeds("delivered")
                  /\ UNCHANGED doubt
             ELSE /\ Returns(Failure, Rec)
                  /\ doubt' = doubt \union {Rec}
                  /\ UNCHANGED told

AckRefused ==
    /\ pc = "refused"
    /\ Resolving
    /\ UNCHANGED doubt
    /\ \E answer \in StoreAnswers :
          /\ log' = Unlogged(Rec, answer)
          /\ IF Removed(answer)
             THEN Tell(Rec, "lost") /\ Proceeds("lost")
             ELSE Returns(Failure, Rec) /\ UNCHANGED told

---------------------------------------------------------------------------
(* The environment: time, another clock, a crash *)

Tick ==
    /\ call.wait > 0 \/ (\E r \in Ids : owed[r] > 0) \/ (\E i \in 1 .. Len(log) : log[i].pause > 0)
    /\ call' = [call EXCEPT !.wait = Less(@)]
    /\ owed' = [r \in Ids |-> Less(owed[r])]
    /\ log' = [i \in 1 .. Len(log) |-> [log[i] EXCEPT !.pause = Less(@)]]
    /\ UNCHANGED <<enabled, pc, ctxDone, result, next, endpoint, told, excuse, doubt>>

Excused(R, why) == [r \in Ids |-> IF r \in R /\ owed[r] > 0 THEN why ELSE excuse[r]]

\* The wall clock is set, or the log is opened on a machine with another one:
\* pauses end sooner or later than they should.
ClockSet ==
    /\ log' \in {Paused(r, pause, "ok") : r \in {s \in Ids : InLog(s) /\ PauseOf(s) > 0},
                                          pause \in 0 .. Far}
    /\ excuse' = Excused({r \in Ids : InLog(r) /\ PauseOf(r) > 0}, "clock")
    /\ UNCHANGED <<enabled, pc, call, ctxDone, result, next, endpoint, told, owed, doubt>>

\* the process dies and another one opens the log
Crash ==
    /\ pc # "idle"
    /\ pc' = "idle" /\ call' = NoCall /\ ctxDone' = FALSE /\ result' = NoResult
    /\ excuse' = Excused({Rec}, "crash")
    /\ doubt' = IF pc = "accepted" THEN doubt \union {Rec} ELSE doubt
    /\ UNCHANGED <<enabled, log, next, endpoint, told, owed>>

---------------------------------------------------------------------------

Work == \/ RecoverEnds \/ RecoverCancelled \/ ClampPause \/ Defer \/ Replay
        \/ PostAccepted \/ PostRefused \/ PostFailed \/ PostThrottled
        \/ Retry \/ WaitOver \/ WaitCancelled \/ Exhausted \/ AckAccepted \/ AckRefused

TransportNext == Send \/ Persist \/ Recover \/ Work \/ Cancel \/ Tick \/ ClockSet \/ Crash

TransportSpec == TransportInit /\ [][TransportNext]_transportVars
=============================================================================
