------------------------ MODULE TransportProperties ------------------------
(***************************************************************************)
(* What the transport must guarantee, and a documented claim that the code *)
(* does not meet.                                                          *)
(***************************************************************************)
EXTENDS Transport

Busy == {"check", "post", "retry", "wait", "accepted", "refused"}
InRecord == Busy \ {"check"}
Kinds == {"none", "delivered", "retained", "lost", "recovered", "blocked", "deferred"}
Entries == [id : Ids, pause : 0 .. Far]
LongestDelay == LET most == (12 * MaxBackoff + 9) \div 10
                IN IF most < MaxWait THEN MaxWait ELSE most
CallRecords == [mode : {"none", "send", "recover"}, rec : 0 .. MaxRecords, todo : Seq(Ids),
                attempt : 0 .. MaxRetries, hint : {NoHint} \union (0 .. MaxWait),
                wait : 0 .. LongestDelay]

\* Every variable keeps its type; in particular no wait is longer than the
\* ceiling of Retry-After or the widened end of the backoff schedule, and the
\* attempts stay within the retries (transport.go:203-215, 252-260).
TransportTypeOK ==
    /\ enabled \in BOOLEAN
    /\ log \in Seq(Entries)
    /\ pc \in {"idle"} \union Busy
    /\ call \in CallRecords
    /\ ctxDone \in BOOLEAN
    /\ result \in [kind : Kinds, rec : 0 .. MaxRecords]
    /\ next \in 1 .. MaxRecords + 1
    /\ accepted \subseteq Ids /\ refused \subseteq Ids /\ doubt \subseteq Ids
    /\ told \in [Ids -> {"nothing", "delivered", "lost"}]
    /\ owed \in [Ids -> 0 .. MaxWait]
    /\ excuse \in [Ids -> {"none", "cancelled", "unstored", "clock", "crash"}]

\* A record is not posted before its Retry-After is over, whether the wait is a
\* sleep between two attempts or a pause in the log that a later recovery or
\* another process finds; only a cancelled call, a pause that could not be
\* written, a wrong clock or a crash before it was written end it early
\* (transport.go:159-174, 209-224, 244-249; doc.go:57-58).
PauseHonoured == pc = "post" => owed[Rec] = 0 \/ excuse[Rec] # "none"

\* Recovery and the log keep step: what the snapshot has left to do is what the
\* log holds, so that the record being posted is the oldest one, none is
\* skipped, and none is posted after it left (transport.go:152-201).
RecoveryInStep ==
    call.mode = "recover" =>
        LogIds = IF pc = "check" THEN call.todo ELSE <<Rec>> \o call.todo

\* What send and recover return is true of the log: a retained record is in it,
\* a delivered or lost one is not, and a recovery that was not blocked leaves
\* it empty. The batcher's counters rest on this (transport.go:48-85, 97-108).
ResultTrue ==
    pc = "idle" =>
        /\ result.kind = "retained" => InLog(result.rec)
        /\ result.kind = "delivered" => ~InLog(result.rec) /\ result.rec \in accepted
        /\ result.kind = "lost" => ~InLog(result.rec)
        /\ result.kind = "recovered" => log = <<>>

\* Every record is in the log or the batcher was told what became of it, and
\* what it was told happened: delivered only if the endpoint accepted it, lost
\* only if the endpoint refused it or it never got into the log.
ToldTruth ==
    \A r \in 1 .. next - 1 :
        /\ told[r] = "delivered" => r \in accepted
        /\ enabled /\ told[r] = "lost" => r \in refused \/ r \notin accepted
        /\ enabled => (InLog(r) <=> told[r] = "nothing")

\* An accepted record is posted again only if its answer was lost, its removal
\* failed or the process died before the removal: the at-least-once delivery is
\* no looser than that (transport.go:226-237).
RepeatOnlyInDoubt == pc = "post" /\ Rec \in accepted => Rec \in doubt

\* A recovery that defers a record leaves it a pause of at most MaxWait, also
\* when the log was written under another clock: no deferred record blocks the
\* log for longer (transport.go:158-174).
DeferralBounded ==
    [][pc = "check" /\ result' # result /\ result'.kind = "deferred" =>
         log'[1].pause \in 1 .. MaxWait]_transportVars

---------------------------------------------------------------------------
(* The inductive invariant *)

\* the record that is being sent
Current(r) == pc \in InRecord /\ r = Rec

\* records are numbered as they are put; without a path there are none
LogOK ==
    /\ ~enabled => log = <<>>
    /\ \A i, j \in 1 .. Len(log) : i < j => log[i].id < log[j].id
    /\ \A i \in 1 .. Len(log) : log[i].id < next

\* what the call works on: a record not yet dealt with, which the log holds if
\* there is one, and whose answer is true
CallOK ==
    /\ pc = "idle" => call.mode = "none"
    /\ pc # "idle" => call.mode # "none"
    /\ pc = "check" => call.mode = "recover" /\ Rec = 0
    /\ pc \in InRecord =>
          /\ Rec \in 1 .. next - 1
          /\ told[Rec] = "nothing"
          /\ enabled => InLog(Rec)
          /\ call.mode = "recover" => enabled
    /\ pc = "accepted" => Rec \in accepted
    /\ pc = "refused" => Rec \in refused

\* nothing is known of the records to come
FreshOK ==
    \A r \in Ids : r >= next => told[r] = "nothing" /\ owed[r] = 0 /\ r \notin accepted

\* What the endpoint asked for is covered by the pause in the log, and for the
\* record being sent by the wait or by what will be the next one.
Covered(r, time) == owed[r] <= time \/ excuse[r] # "none"

PausesOK ==
    /\ \A i \in 1 .. Len(log) : Current(log[i].id) \/ Covered(log[i].id, log[i].pause)
    /\ pc \in {"post", "accepted", "refused"} => Covered(Rec, 0)
    /\ pc = "retry" => Covered(Rec, PauseLeft)
    /\ pc = "wait" => Covered(Rec, call.wait)

\* an accepted record is in doubt, dealt with, or about to be
DoubtOK ==
    \A r \in accepted :
        r \in doubt \/ told[r] # "nothing" \/ (pc = "accepted" /\ r = Rec)

TransportInv ==
    /\ TransportTypeOK /\ LogOK /\ CallOK /\ FreshOK /\ PausesOK /\ DoubtOK
    /\ RecoveryInStep /\ ResultTrue /\ ToldTruth

---------------------------------------------------------------------------

\* The goroutine runs and time passes; nothing else is assumed.
TransportLive == TransportSpec /\ WF_transportVars(Work) /\ WF_transportVars(Tick)

\* Every send and every recovery returns, whatever the endpoint and the store
\* answer and without the context ever ending: the batcher's loop relies on it.
CallsReturn == pc # "idle" ~> pc = "idle"

---------------------------------------------------------------------------
(* A documented claim that does not hold *)

\* After a 429 the next attempt waits as long as Retry-After says, up to one
\* minute (transport.go:44-46, CHANGELOG.md:33-34), also when the caller of the
\* first attempt no longer waits for it.
RetryAfterHonoured ==
    pc = "post" => owed[Rec] = 0 \/ excuse[Rec] \in {"unstored", "clock", "crash"}
=============================================================================
