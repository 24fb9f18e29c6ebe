------------------------------ MODULE Delivery ------------------------------
(***************************************************************************)
(* The batch loop (src/batcher.go), the transport (src/transport.go) and   *)
(* the write-ahead log together, from process to process: which event ends *)
(* up where. Batcher, Transport and BatchStore look into each of the three *)
(* alone; here each is reduced to what the others see of it. In particular *)
(* the log is the one that DurableLog promises and BatchStore implements,  *)
(* and a send is its last answer, however many attempts and pauses there   *)
(* were on the way.                                                        *)
(*                                                                         *)
(* The endpoint is the one the code describes (batcher.go:469-471): it     *)
(* answers 400 to a batch with an invalid event, and never to another.     *)
(* validateEvent looks at an event when it is built. What it overlooks is  *)
(* in Poison; and what was young enough then gets too old in the meantime. *)
(***************************************************************************)
EXTENDS Integers, Sequences, FiniteSets, SequencesExt

CONSTANTS
    FlushSize, \* config.flushSize
    MaxSends,  \* maxSplitSends
    Poison,    \* events that only the endpoint finds invalid
    MaxEvents, \* bound: events enqueued, numbered in that order
    MaxRuns    \* bound: processes, one after the other; the last one goes on

ASSUME DeliveryAssumption ==
    /\ FlushSize \in Nat \ {0} /\ MaxSends \in Nat \ {0}
    /\ MaxEvents \in Nat /\ MaxRuns \in Nat \ {0}
    /\ Poison \subseteq 1 .. MaxEvents

VARIABLES
    up,       \* the process runs
    stopping, \* Shutdown was called
    queue,    \* events in the channel and in pending
    pass,     \* what the loop is doing: which trigger, the first batch id of its own,
              \* and how many events it has left to send
    step,     \* how far it is with that
    todo,     \* the records of the snapshot still to be recovered
    pieces,   \* parts of the chunk still to be delivered
    sends,    \* remainingSends
    rec,      \* the record in sendRecord, where it is from and its answer
    log,      \* the records in the file
    versions, \* what a power loss may leave of them
    made,     \* events enqueued so far
    old,      \* how many of them are older than maxEventAgeDays
    ids,      \* batch ids generated so far
    runs,     \* processes started so far
    accepted, \* history: the events the endpoint accepted, with the batch id
    promised, \* history: events in a batch for which put returned nil
    lost      \* history: events counted as failed, with the cause

memory  == <<stopping, queue, pass, step, todo, pieces, sends, rec>>
file    == <<log, versions>>
bounds  == <<made, ids, runs, old>>
history == <<accepted, promised, lost>>
deliveryVars == <<up, memory, file, bounds, history>>

Log == INSTANCE DurableLog WITH Records <- {}, Marks <- {}

NoPass == [kind |-> "none", first |-> 0, left |-> 0]
NoRec == [id |-> 0, events |-> <<>>, from |-> "none", answer |-> "none"]

DeliveryInit ==
    /\ up = TRUE /\ stopping = FALSE
    /\ queue = <<>> /\ pass = NoPass /\ step = "idle"
    /\ todo = <<>> /\ pieces = <<>> /\ sends = 0 /\ rec = NoRec
    /\ Log!LogInit
    /\ made = 0 /\ ids = 0 /\ runs = 1 /\ old = 0
    /\ accepted = {} /\ promised = {} /\ lost = {}

---------------------------------------------------------------------------
(* The application *)

Enqueue ==
    /\ up /\ ~stopping
    /\ made < MaxEvents
    /\ made' = made + 1
    /\ queue' = Append(queue, made + 1)
    /\ UNCHANGED <<up, stopping, pass, step, todo, pieces, sends, rec, file, ids, runs, old, history>>

Stop ==
    /\ up /\ ~stopping
    /\ runs < MaxRuns
    /\ stopping' = TRUE
    /\ UNCHANGED <<up, queue, pass, step, todo, pieces, sends, rec, file, bounds, history>>

---------------------------------------------------------------------------
(* Recovery comes first *)

Triggered(kind) ==
    \/ kind = "size" /\ Len(queue) >= FlushSize
    \/ kind = "flush"  \* the timer, or Flush
    \/ kind = "finish" /\ stopping

BeginPass ==
    /\ up /\ step = "idle"
    /\ \E kind \in {"size", "flush", "finish"} :
          /\ Triggered(kind)
          /\ pass' = [kind |-> kind, first |-> ids + 1, left |-> 0]
    /\ step' = "recover"
    /\ todo' = log
    /\ UNCHANGED <<up, stopping, queue, pieces, sends, rec, file, bounds, history>>

AfterBlockAnyway == "send"  \* mutant: new events are sent although a record is stuck
AfterBlock == IF pass.kind = "finish" THEN "persist" ELSE "idle"

\* recovery is blocked: nothing is sent in this pass
Blocked ==
    /\ step' = AfterBlock
    /\ todo' = <<>>

Recovering == up /\ step = "recover" /\ rec = NoRec

RenamedOnReplay(r) ==  \* mutant: a recovered batch gets an id of its own
    [id |-> ids + MaxEvents + r.id, events |-> r.events, from |-> "log", answer |-> "none"]
FromLog(r) == [id |-> r.id, events |-> r.events, from |-> "log", answer |-> "none"]

Replay ==
    /\ Recovering
    /\ todo # <<>>
    /\ rec' = FromLog(Head(todo))
    /\ todo' = Tail(todo)
    /\ UNCHANGED <<up, stopping, queue, pass, step, pieces, sends, file, bounds, history>>

\* the next record is paused, or the context is done
Defer ==
    /\ Recovering
    /\ todo # <<>>
    /\ Blocked
    /\ UNCHANGED <<up, stopping, queue, pass, pieces, sends, rec, file, bounds, history>>

\* A size trigger sends exactly one chunk; any other pass drains the channel once,
\* and what comes later waits for the next.
Recovered ==
    /\ Recovering
    /\ todo = <<>>
    /\ step' = "send"
    /\ pass' = [pass EXCEPT !.left = IF pass.kind = "size" THEN FlushSize ELSE Len(queue)]
    /\ UNCHANGED <<up, stopping, queue, todo, pieces, sends, rec, file, bounds, history>>

---------------------------------------------------------------------------
(* sendChunk, deliver and persistPending *)

Sending == up /\ step = "send" /\ rec = NoRec
Smaller(m, n) == IF m < n THEN m ELSE n
Chunk(n) == SubSeq(queue, 1, n)
Rest(n) == SubSeq(queue, n + 1, Len(queue))

TakeChunk ==
    /\ Sending
    /\ pieces = <<>> /\ pass.left > 0
    /\ LET size == Smaller(FlushSize, pass.left)
       IN /\ pieces' = <<Chunk(size)>>
          /\ queue' = Rest(size)
          /\ pass' = [pass EXCEPT !.left = @ - size]
    /\ sends' = MaxSends
    /\ UNCHANGED <<up, stopping, step, todo, rec, file, bounds, history>>

EndPass ==
    /\ Sending
    /\ pieces = <<>> /\ pass.left = 0
    /\ step' = IF pass.kind = "finish" THEN "done" ELSE "idle"
    /\ pass' = NoPass /\ sends' = 0
    /\ UNCHANGED <<up, stopping, queue, todo, pieces, rec, file, bounds, history>>

Lost(events, cause) == lost \union (ToSet(events) \X {cause})

\* store.put: nil, a committed error, or an error that changed nothing
Put(events, outcome) ==
    /\ ids' = ids + 1
    /\ IF outcome = "failed" THEN log' = log
       ELSE Log!AppendRecord([id |-> ids', events |-> events])
    /\ CASE outcome = "nil" -> Log!Synced
         [] outcome = "warned" -> Log!Exposed
         [] outcome = "failed" -> versions' = versions
    /\ promised' = IF outcome = "nil" THEN promised \union ToSet(events) ELSE promised
    /\ lost' = IF outcome = "failed" THEN Lost(events, "unstored") ELSE lost
    /\ UNCHANGED <<made, runs, old, accepted>>

\* without nil the piece is not sent: it stays in the log, or it is lost
PutPiece ==
    /\ Sending
    /\ pieces # <<>> /\ sends > 0
    /\ \E outcome \in {"nil", "warned", "failed"} :
          /\ Put(Head(pieces), outcome)
          /\ rec' = IF outcome = "nil"
                    THEN [id |-> ids', events |-> Head(pieces), from |-> "put", answer |-> "none"]
                    ELSE NoRec
    /\ pieces' = Tail(pieces)
    /\ sends' = sends - 1
    /\ UNCHANGED <<up, stopping, queue, pass, step, todo>>

SplitLimit ==
    /\ Sending
    /\ pieces # <<>> /\ sends = 0
    /\ lost' = Lost(Head(pieces), "limit")
    /\ pieces' = Tail(pieces)
    /\ UNCHANGED <<up, stopping, queue, pass, step, todo, sends, rec, file, bounds,
                   accepted, promised>>

PersistChunk ==
    /\ up /\ step = "persist"
    /\ queue # <<>>
    /\ LET size == Smaller(FlushSize, Len(queue))
       IN /\ \E outcome \in {"nil", "warned", "failed"} : Put(Chunk(size), outcome)
          /\ queue' = Rest(size)
    /\ UNCHANGED <<up, stopping, pass, step, todo, pieces, sends, rec>>

PersistDone ==
    /\ up /\ step = "persist"
    /\ queue = <<>>
    /\ step' = "done" /\ pass' = NoPass
    /\ UNCHANGED <<up, stopping, queue, todo, pieces, sends, rec, file, bounds, history>>

---------------------------------------------------------------------------
(* sendRecord: the endpoint's answer, then the log *)

Posting == up /\ rec.from # "none" /\ rec.answer = "none"
Invalid == Poison \union 1 .. old
Clean == ToSet(rec.events) \intersect Invalid = {}
Arrived == accepted' = accepted \union (ToSet(rec.events) \X {rec.id})

\* the batch is accepted but the answer gets lost; whatever comes next may follow
Arrive ==
    /\ Posting /\ Clean
    /\ Arrived
    /\ UNCHANGED <<up, memory, file, bounds, promised, lost>>

Accept ==
    /\ Posting /\ Clean
    /\ Arrived
    /\ rec' = [rec EXCEPT !.answer = "accepted"]
    /\ UNCHANGED <<up, stopping, queue, pass, step, todo, pieces, sends, file, bounds,
                   promised, lost>>

\* another terminal status may come whatever is in the batch
Refuse ==
    /\ Posting
    /\ \E status \in (IF Clean THEN {"4xx"} ELSE {"400", "4xx"}) :
          rec' = [rec EXCEPT !.answer = status]
    /\ UNCHANGED <<up, stopping, queue, pass, step, todo, pieces, sends, file, bounds, history>>

\* after the record the loop goes on with the rest, unless a recovery is blocked
Continue == UNCHANGED <<step, todo>>
BlockedIfFromLog == IF rec.from = "log" THEN Blocked ELSE Continue

Dropped ==  \* mutant: a batch that could not be sent leaves the log
    SelectSeq(log, LAMBDA r : r.id # rec.id)
Retained == log

\* the attempts are exhausted, or the context is done; writing the pause may
\* have synced the log
GiveUp ==
    /\ Posting
    /\ log' = Retained
    /\ versions' = versions \/ Log!Synced
    /\ rec' = NoRec
    /\ BlockedIfFromLog
    /\ UNCHANGED <<up, stopping, queue, pass, pieces, sends, bounds, history>>

RemovesAccepted(i) ==  \* mutant: a record that is refused stays in the log
    IF rec.answer = "accepted" THEN Log!RemoveRecord(i) ELSE log' = log
Removes(i) == Log!RemoveRecord(i)

\* store.acknowledge with nil, or with a committed error
Acknowledged(synced) ==
    /\ up
    /\ \E i \in 1 .. Len(log) : log[i].id = rec.id /\ Removes(i)
    /\ IF synced THEN Log!Synced ELSE Log!Exposed
    /\ rec' = NoRec
    /\ UNCHANGED <<up, stopping, queue, pass, sends, bounds, accepted>>

\* a recovered record whose removal was not synced blocks the pass
Confirm(synced) ==
    /\ rec.answer = "accepted"
    /\ Acknowledged(synced)
    /\ IF synced THEN Continue ELSE BlockedIfFromLog
    /\ UNCHANGED <<pieces, promised, lost>>

MidRoundedUp(n) == n \div 2 + 1  \* mutant: the left half takes one too many
Mid(n) == n \div 2

SplitsMany ==  \* mutant: a pair is not split
    rec.from = "put" /\ rec.answer = "400" /\ Len(rec.events) > 2
Splits == rec.from = "put" /\ rec.answer = "400" /\ Len(rec.events) > 1

\* The batch was refused whole: each half is a batch of its own. What put
\* promised of the batch it now has to promise of the halves.
Isolate(synced) ==
    /\ Splits
    /\ Acknowledged(synced)
    /\ LET mid == Mid(Len(rec.events))
       IN pieces' = <<SubSeq(rec.events, 1, mid),
                      SubSeq(rec.events, mid + 1, Len(rec.events))>> \o pieces
    /\ promised' = promised \ ToSet(rec.events)
    /\ Continue
    /\ UNCHANGED lost

\* a recovered batch is not split
Discard(synced) ==
    /\ rec.answer \in {"400", "4xx"} /\ ~Splits
    /\ Acknowledged(synced)
    /\ lost' = Lost(rec.events, IF rec.from = "log" THEN "recovered" ELSE rec.answer)
    /\ Continue
    /\ UNCHANGED <<pieces, promised>>

\* the record stays in the log
AcknowledgeFails ==
    /\ up
    /\ rec.answer # "none"
    /\ rec' = NoRec
    /\ BlockedIfFromLog
    /\ UNCHANGED <<up, stopping, queue, pass, pieces, sends, file, bounds, history>>

---------------------------------------------------------------------------
(* The environment *)

Down ==
    /\ up' = FALSE /\ stopping' = FALSE
    /\ queue' = <<>> /\ pass' = NoPass /\ step' = "idle"
    /\ todo' = <<>> /\ pieces' = <<>> /\ sends' = 0 /\ rec' = NoRec
    /\ UNCHANGED <<bounds, history>>

\* A send is short against the days that an event may age.
Age ==
    /\ rec = NoRec
    /\ old < made
    /\ old' = old + 1
    /\ UNCHANGED <<up, memory, file, made, ids, runs, history>>

Exit ==
    /\ up /\ step = "done"
    /\ Down
    /\ UNCHANGED file

Crash ==
    /\ up /\ step # "done"
    /\ runs < MaxRuns
    /\ Down
    /\ UNCHANGED file

PowerLoss ==
    /\ up => runs < MaxRuns
    /\ Down
    /\ Log!PowerLoss

Restart ==
    /\ ~up
    /\ up' = TRUE
    /\ runs' = runs + 1
    /\ UNCHANGED <<memory, file, made, ids, old, history>>

---------------------------------------------------------------------------

Application == Enqueue \/ Stop

Loop == \/ BeginPass \/ Recovered \/ Replay \/ Defer
        \/ TakeChunk \/ PutPiece \/ SplitLimit \/ EndPass
        \/ PersistChunk \/ PersistDone

Answer == Accept \/ Refuse

Resolve(synced) == Confirm(synced) \/ Isolate(synced) \/ Discard(synced)

SendRecord == Answer \/ GiveUp \/ AcknowledgeFails \/ \E synced \in BOOLEAN : Resolve(synced)

DeliveryNext ==
    \/ Application \/ Loop \/ SendRecord \/ Arrive
    \/ Age \/ Exit \/ Crash \/ PowerLoss \/ Restart

DeliverySpec == DeliveryInit /\ [][DeliveryNext]_deliveryVars
=============================================================================
