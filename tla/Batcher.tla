------------------------------ MODULE Batcher ------------------------------
(***************************************************************************)
(* The event queue of the SDK (src/batcher.go) together with the parts of  *)
(* Client that order calls on it (stateMu, closeOnce, Shutdown).           *)
(*                                                                         *)
(* Processes:                                                              *)
(*   - the call that holds Client.stateMu: enqueue keeps the mutex from    *)
(*     the closed check to the channel send, so one `track' process stands *)
(*     for every concurrent Track, Page, Identify, ... call;               *)
(*   - one process per Flush call (Flushers) and Shutdown call (Shutters); *)
(*   - the batcher's loop goroutine, with transport.send, recover and      *)
(*     persist reduced to their outcomes (the store they change is touched *)
(*     by this goroutine alone).                                           *)
(*                                                                         *)
(* Every load and add of an atomic counter that another goroutine can      *)
(* observe half way is a step of its own.                                  *)
(*                                                                         *)
(* Events are numbered by acceptance, 1, 2, ...; the events found in the   *)
(* write-ahead log at start have the numbers 1 - Recovered .. 0.           *)
(***************************************************************************)
EXTENDS Integers, Sequences, FiniteSets

CONSTANTS
    QueueLimit,    \* config.maxQueueSize
    FlushSize,     \* config.flushSize
    FlushQueue,    \* capacity of the flushRequests channel
    MaxSplitSends, \* maxSplitSends
    Durable,       \* a persistence path is configured
    Ticker,        \* flushInterval > 0
    Recovered,     \* number of events in the log when the process starts
    Flushers,      \* the calls of Flush
    Shutters,      \* the calls of Shutdown
    Cancellable,   \* the calls of Flush and Shutdown whose context may end
    MaxCalls,      \* bound: enqueueing calls made in a behaviour
    NoFlusher      \* no Flush call is being served

ASSUME ConfigAssumption ==
    /\ QueueLimit \in Nat \ {0}
    /\ FlushSize \in 1 .. QueueLimit
    /\ FlushQueue \in Nat \ {0}
    /\ MaxSplitSends \in Nat \ {0}
    /\ Durable \in BOOLEAN
    /\ Ticker \in BOOLEAN
    /\ Recovered \in 0 .. QueueLimit
    /\ ~Durable => Recovered = 0
    /\ NoFlusher \notin Flushers
    /\ Cancellable \subseteq Flushers \union Shutters
    /\ MaxCalls \in Nat

VARIABLES
    ctr,           \* the batcher's atomic counters
    events,        \* the buffered channel of accepted events
    flushRequests, \* the buffered channel of flush requests
    closed,        \* Client.closed, guarded by stateMu
    stopped,       \* stopCh is closed
    doneClosed,    \* doneCh is closed
    track,         \* the enqueueing call that holds stateMu
    flusher,       \* each call of Flush
    shutter,       \* each call of Shutdown
    pc,            \* where the loop goroutine is
    pass,          \* what the loop is sending for, and its outcome so far
    progress,      \* the recovered batch recordRecoveryProgress accounts for
    pending,       \* batcher.pending
    chunk,         \* the events given to sendChunk
    settled,       \* how many leading events of chunk have a recorded outcome
    ends,          \* where the unresolved pieces of chunk end, first piece first
    sendsLeft,     \* remainingSends
    fate,          \* outcome of the current piece, until it is counted
    wal,           \* the write-ahead log, oldest event first
    confirmed,     \* history: events the endpoint accepted
    lost           \* history: events that will never be sent again

signals == <<closed, stopped, doneClosed>>
job     == <<chunk, settled, ends, sendsLeft, fate>>
store   == <<wal, confirmed, lost>>
loop    == <<pc, pass, progress, pending, job, store>>
vars    == <<ctr, events, flushRequests, signals, track, flusher, shutter, loop>>

---------------------------------------------------------------------------
(* Counters and derived state *)

Counters == {"enqueued", "delivered", "dropped", "rejected", "failed",
             "unsent", "recoveryOwned", "recoveryFailed", "durableCurrent"}

Plus(f, c, n) == [f EXCEPT ![c] = @ + n]
Bump(c, n) == Plus(ctr, c, n)

Least(a, b) == IF a < b THEN a ELSE b

\* batcher.durablePending
DurablePending == Len(wal)

RecoveryOwnedKept == ctr  \* mutant: never refreshed
\* ctr after updateRecoveryOwned; only the loop writes recoveryOwned, so its
\* compare-and-swap never fails
RecoveryOwnedUpdated ==
    [ctr EXCEPT !.recoveryOwned = Least(@, DurablePending)]

RestartOwned == (1 - Recovered) .. 0
Accepted == 1 .. (ctr.enqueued + (IF track.pc = "count" THEN 1 ELSE 0))
Unresolved == (RestartOwned \union Accepted) \ (confirmed \union lost)

\* an entry of the log: the event, and the batch (named by its first event)
\* whose record holds it
Entry(e, b) == [event |-> e, batch |-> b]
AsRecord(s) == [i \in 1 .. Len(s) |-> Entry(s[i], s[1])]
EventsOf(s) == {s[i] : i \in 1 .. Len(s)}
WalEvents == {wal[i].event : i \in 1 .. Len(wal)}

\* the first n entries of the log are its oldest record
HeadRecord(n) ==
    /\ \A i \in 1 .. n : wal[i].batch = wal[1].batch
    /\ n < Len(wal) => wal[n + 1].batch # wal[1].batch

Prefix(s, n) == SubSeq(s, 1, n)
Suffix(s, n) == SubSeq(s, n + 1, Len(s))

\* how many events drainChannel moves: all, within the budget
DrainCount == Least(Len(events), IF Len(pending) < QueueLimit
                                 THEN QueueLimit - Len(pending) ELSE 0)
DrainedFirst == Prefix(events, DrainCount) \o pending  \* mutant: order lost
Drained == pending \o Prefix(events, DrainCount)

\* the piece of the chunk that deliver works on
PieceSize == Head(ends) - settled
Piece == SubSeq(chunk, settled + 1, Head(ends))

---------------------------------------------------------------------------
(* Initial state *)

IdleTrack == [pc |-> "idle", unsent |-> 0, total |-> 0]
IdleFlush == [pc |-> "idle", reply |-> "none", result |-> "none",
              mark |-> {}, due |-> {}]
IdleShutdown == [pc |-> "idle", sum |-> 0, result |-> "none"]
NoPass == [purpose |-> "none", serving |-> NoFlusher, err |-> FALSE,
           blocked |-> FALSE]
NoProgress == [n |-> 0, lost |-> 0, stop |-> FALSE]

\* the log as an earlier process left it: any grouping into records
RecoveredWal(w) ==
    /\ Len(w) = Recovered
    /\ \A i \in 1 .. Recovered : w[i].event = i - Recovered
    /\ \A i \in 1 .. Recovered :
          \/ w[i].batch = w[i].event
          \/ i > 1 /\ w[i].batch = w[i - 1].batch

InitWal ==
    wal \in {w \in [1 .. Recovered -> [event : RestartOwned, batch : RestartOwned]] :
                RecoveredWal(w)}

Init ==
    /\ ctr = [c \in Counters |-> IF c = "recoveryOwned" THEN Recovered ELSE 0]
    /\ events = <<>>
    /\ flushRequests = <<>>
    /\ closed = FALSE /\ stopped = FALSE /\ doneClosed = FALSE
    /\ track = IdleTrack
    /\ flusher = [f \in Flushers |-> IdleFlush]
    /\ shutter = [s \in Shutters |-> IdleShutdown]
    /\ pc = "select"
    /\ pass = NoPass
    /\ progress = NoProgress
    /\ pending = <<>>
    /\ chunk = <<>> /\ settled = 0 /\ ends = <<>> /\ sendsLeft = 0 /\ fate = "none"
    /\ InitWal
    /\ confirmed = {} /\ lost = {}

---------------------------------------------------------------------------
(* The enqueueing call: Client.enqueue under stateMu, then batcher.enqueue *)

Calls == ctr.enqueued + ctr.dropped + ctr.rejected
         + (IF track.pc = "idle" THEN 0 ELSE 1)

TrackUnchanged ==
    UNCHANGED <<flushRequests, signals, flusher, shutter, loop>>

LoadedUnsent == [pc |-> "owned", unsent |-> ctr.unsent, total |-> ctr.unsent]

\* batcher.reject. Client.enqueue calls it under stateMu, but TrackRevenue
\* validates first, holding nothing and whether or not the client is closed.
Reject ==
    /\ Calls < MaxCalls
    /\ ctr' = Bump("rejected", 1)
    /\ UNCHANGED <<events, track>>
    /\ TrackUnchanged

\* acquires stateMu and loads unsent: nothing observable lies between the two
TrackBegin ==
    /\ track.pc = "idle"
    /\ ~closed
    /\ Calls < MaxCalls
    /\ track' = LoadedUnsent
    /\ UNCHANGED <<ctr, events>>
    /\ TrackUnchanged

TrackLoadOwned ==
    /\ track.pc = "owned"
    /\ track' = [pc |-> "durable", unsent |-> track.unsent,
                 total |-> track.total + ctr.recoveryOwned]
    /\ UNCHANGED <<ctr, events>>
    /\ TrackUnchanged

TrackAdmit ==
    /\ track.pc = "durable"
    /\ IF track.total + ctr.durableCurrent >= QueueLimit
       THEN /\ ctr' = Bump("dropped", 1)
            /\ track' = IdleTrack
       ELSE /\ track' = [track EXCEPT !.pc = "cas"]
            /\ UNCHANGED ctr
    /\ UNCHANGED events
    /\ TrackUnchanged

NotReserved == ctr  \* mutant: check, then act
Reserved == Bump("unsent", 1)

\* a failed compare-and-swap starts over
TrackReserve ==
    /\ track.pc = "cas"
    /\ IF ctr.unsent = track.unsent
       THEN /\ ctr' = Reserved
            /\ track' = [IdleTrack EXCEPT !.pc = "send"]
       ELSE /\ track' = LoadedUnsent
            /\ UNCHANGED ctr
    /\ UNCHANGED events
    /\ TrackUnchanged

\* the non-blocking send on the channel, whose capacity is QueueLimit
TrackSend ==
    /\ track.pc = "send"
    /\ IF Len(events) < QueueLimit
       THEN /\ events' = Append(events, ctr.enqueued + 1)
            /\ track' = [track EXCEPT !.pc = "count"]
            /\ UNCHANGED ctr
       ELSE /\ ctr' = Plus(Bump("unsent", -1), "dropped", 1)
            /\ track' = IdleTrack
            /\ UNCHANGED events
    /\ TrackUnchanged

TrackCount ==
    /\ track.pc = "count"
    /\ ctr' = Bump("enqueued", 1)
    /\ track' = IdleTrack
    /\ UNCHANGED events
    /\ TrackUnchanged

---------------------------------------------------------------------------
(* Flush: batcher.flush *)

FlushUnchanged == UNCHANGED <<ctr, events, signals, track, shutter, loop>>

FlushReturns(f, result) ==
    flusher' = [flusher EXCEPT ![f].pc = "returned", ![f].result = result]

\* the call is made; mark is what it promises to wait for
FlushCall(f) ==
    /\ flusher[f].pc = "idle"
    /\ flusher' = [flusher EXCEPT ![f].pc = "calling", ![f].mark = Unresolved]
    /\ UNCHANGED flushRequests
    /\ FlushUnchanged

FlushEnqueue(f) ==
    /\ flusher[f].pc = "calling"
    /\ Len(flushRequests) < FlushQueue
    /\ flushRequests' = Append(flushRequests, f)
    /\ flusher' = [flusher EXCEPT ![f].pc = "waiting"]
    /\ FlushUnchanged

FlushReply(f) ==
    /\ flusher[f].pc = "waiting"
    /\ flusher[f].reply # "none"
    /\ FlushReturns(f, flusher[f].reply)
    /\ UNCHANGED flushRequests
    /\ FlushUnchanged

FlushClosedEarly(f) ==  \* mutant: the wait for the reply misses doneCh
    /\ flusher[f].pc = "calling"
    /\ doneClosed
    /\ FlushReturns(f, "closed")
    /\ UNCHANGED flushRequests
    /\ FlushUnchanged

\* either select may take doneCh, even when a reply is ready as well
FlushClosed(f) ==
    /\ flusher[f].pc \in {"calling", "waiting"}
    /\ doneClosed
    /\ FlushReturns(f, "closed")
    /\ UNCHANGED flushRequests
    /\ FlushUnchanged

\* the caller's context ends; the request stays in the channel
FlushAbandon(f) ==
    /\ f \in Cancellable
    /\ flusher[f].pc \in {"calling", "waiting"}
    /\ FlushReturns(f, "context")
    /\ UNCHANGED flushRequests
    /\ FlushUnchanged

---------------------------------------------------------------------------
(* Shutdown: closeOnce, then batcher.waitDone *)

ShutdownUnchanged == UNCHANGED <<ctr, events, flushRequests, track, flusher, loop>>

\* the one caller closeOnce lets through, once it holds stateMu
ShutdownClose(s) ==
    /\ shutter[s].pc = "idle"
    /\ ~closed
    /\ track.pc = "idle"
    /\ closed' = TRUE
    /\ shutter' = [shutter EXCEPT ![s].pc = "stopping"]
    /\ UNCHANGED <<stopped, doneClosed>>
    /\ ShutdownUnchanged

\* batcher.stop
ShutdownStop(s) ==
    /\ shutter[s].pc = "stopping"
    /\ stopped' = TRUE
    /\ shutter' = [shutter EXCEPT ![s].pc = "waiting"]
    /\ UNCHANGED <<closed, doneClosed>>
    /\ ShutdownUnchanged

\* a later caller; closeOnce holds it back until stop has run
ShutdownAgain(s) ==
    /\ shutter[s].pc = "idle"
    /\ stopped
    /\ shutter' = [shutter EXCEPT ![s].pc = "waiting"]
    /\ UNCHANGED signals
    /\ ShutdownUnchanged

ShutdownReturns(s, undelivered, result) ==
    shutter' = [shutter EXCEPT ![s] =
                  [pc |-> "returned", sum |-> undelivered, result |-> result]]

NothingPending == DurablePending = 0 /\ ctr.rejected = 0  \* mutant: losses forgotten
NothingToReport == DurablePending = 0 /\ ctr.failed = 0 /\ ctr.rejected = 0

WaitDone(s) ==
    /\ shutter[s].pc = "waiting"
    /\ doneClosed
    /\ ShutdownReturns(s, DurablePending,
                       IF NothingToReport THEN "nil" ELSE "error")
    /\ UNCHANGED signals
    /\ ShutdownUnchanged

\* the caller's deadline: undeliveredAtDeadline loads one counter after
\* another. No call is left in enqueue, so ctr.enqueued no longer changes.
DeadlineStep(s, from, to, sum) ==
    /\ s \in Cancellable
    /\ shutter[s].pc = from
    /\ shutter' = [shutter EXCEPT ![s].pc = to, ![s].sum = sum]
    /\ UNCHANGED signals
    /\ ShutdownUnchanged

DeadlineFailedRejected(s) ==  \* mutant: rejected events were never enqueued
    DeadlineStep(s, "waiting", "failed", -(ctr.failed + ctr.rejected))
DeadlineFailed(s) ==
    DeadlineStep(s, "waiting", "failed", -ctr.failed)
DeadlineRecoveryFailed(s) ==
    DeadlineStep(s, "failed", "recoveryFailed", shutter[s].sum + ctr.recoveryFailed)
DeadlineDelivered(s) ==
    LET outstanding == shutter[s].sum + ctr.enqueued - ctr.delivered
    IN DeadlineStep(s, "recoveryFailed", "delivered",
                    IF outstanding < 0 THEN 0 ELSE outstanding)
\* the loads of failed and rejected that decide whether LostEventsError is
\* joined are left out: the number reported as undelivered is final here
DeadlineReturn(s) ==
    /\ shutter[s].pc = "delivered"
    /\ ShutdownReturns(s, shutter[s].sum + ctr.recoveryOwned, "deadline")
    /\ UNCHANGED signals
    /\ ShutdownUnchanged

---------------------------------------------------------------------------
(* The loop goroutine: its select *)

LoopUnchanged == UNCHANGED <<closed, stopped, track, shutter>>

StartPass(purpose, f) ==
    /\ pass' = [NoPass EXCEPT !.purpose = purpose, !.serving = f]
    /\ pc' = "recover"

LoopStop ==
    /\ pc = "select"
    /\ stopped
    /\ StartPass("finish", NoFlusher)
    /\ UNCHANGED <<ctr, events, flushRequests, doneClosed, flusher,
                   progress, pending, job, store>>
    /\ LoopUnchanged

\* a full batch starts a size-triggered pass, a smaller one just waits
LoopEvent ==
    /\ pc = "select"
    /\ events # <<>>
    /\ pending' = Append(pending, Head(events))
    /\ events' = Tail(events)
    /\ IF Len(pending) + 1 >= FlushSize
       THEN StartPass("size", NoFlusher)
       ELSE UNCHANGED <<pc, pass>>
    /\ UNCHANGED <<ctr, flushRequests, doneClosed, flusher, progress, job, store>>
    /\ LoopUnchanged

LoopTickFull ==  \* mutant: a tick sends full batches only
    /\ Ticker
    /\ pc = "select"
    /\ Len(pending) >= FlushSize
    /\ StartPass("tick", NoFlusher)
    /\ UNCHANGED <<ctr, events, flushRequests, doneClosed, flusher,
                   progress, pending, job, store>>
    /\ LoopUnchanged

LoopTick ==
    /\ Ticker
    /\ pc = "select"
    /\ StartPass("tick", NoFlusher)
    /\ UNCHANGED <<ctr, events, flushRequests, doneClosed, flusher,
                   progress, pending, job, store>>
    /\ LoopUnchanged

LoopFlush ==
    /\ pc = "select"
    /\ flushRequests # <<>>
    /\ LET f == Head(flushRequests)
       IN /\ StartPass("flush", f)
          /\ flusher' = [flusher EXCEPT ![f].due = @ \union (flusher[f].mark \cap Unresolved)]
    /\ flushRequests' = Tail(flushRequests)
    /\ pending' = Drained
    /\ events' = Suffix(events, DrainCount)
    /\ UNCHANGED <<ctr, doneClosed, progress, job, store>>
    /\ LoopUnchanged

---------------------------------------------------------------------------
(* recoverBeforeSend: transport.recover replays the log, oldest first *)

RecoverUnchanged ==
    /\ UNCHANGED <<events, flushRequests, doneClosed, flusher, pending, job>>
    /\ LoopUnchanged

\* recover returns, and recoverBeforeSend refreshes recoveryOwned
RecoverReturns(blocked) ==
    /\ pass' = [pass EXCEPT !.blocked = blocked, !.err = @ \/ blocked]
    /\ ctr' = RecoveryOwnedUpdated
    /\ pc' = "recovered"

RecoverEnds ==
    /\ pc = "recover"
    /\ wal = <<>>
    /\ RecoverReturns(FALSE)
    /\ UNCHANGED <<progress, store>>
    /\ RecoverUnchanged

\* paused, cancelled, out of retries, or resolved but not removable
RecoverBlocked ==
    /\ pc = "recover"
    /\ wal # <<>>
    /\ RecoverReturns(TRUE)
    /\ UNCHANGED <<progress, store>>
    /\ RecoverUnchanged

\* the oldest record leaves the log; counting its n events comes next
RecordResolved(n, losses, stop) ==
    /\ HeadRecord(n)
    /\ wal' = Suffix(wal, n)
    /\ progress' = [n |-> n, lost |-> losses, stop |-> stop]
    /\ pc' = IF losses > 0 THEN "countFailed"
             ELSE IF ctr.recoveryOwned > 0 THEN "countOwned" ELSE "countDurable"
    /\ UNCHANGED ctr
    /\ RecoverUnchanged

HeadEvents(n) == {wal[i].event : i \in 1 .. n}

\* accepted by the endpoint; a failed directory sync (stop) ends the recovery
RecoverDelivered ==
    /\ pc = "recover"
    /\ \E n \in 1 .. Len(wal), stop \in BOOLEAN :
          /\ RecordResolved(n, 0, stop)
          /\ confirmed' = confirmed \union HeadEvents(n)
    /\ UNCHANGED <<pass, lost>>

\* rejected for good: the caller learns of it, the next record has its turn
RecoverTerminal ==
    /\ pc = "recover"
    /\ \E n \in 1 .. Len(wal) :
          /\ RecordResolved(n, n, FALSE)
          /\ lost' = lost \union HeadEvents(n)
    /\ pass' = [pass EXCEPT !.err = TRUE]
    /\ UNCHANGED confirmed

---------------------------------------------------------------------------
(* recordRecoveryProgress, one counter at a time. Only this goroutine      *)
(* writes recoveryOwned, so the test made on entry still holds later.      *)

CountStep(from, to, counters) ==
    /\ pc = from
    /\ pc' = to
    /\ ctr' = counters
    /\ UNCHANGED <<pass, progress, store>>
    /\ RecoverUnchanged

CountFailed ==
    CountStep("countFailed",
              IF ctr.recoveryOwned > 0 THEN "countRecoveryFailed" ELSE "countDurable",
              Bump("failed", progress.lost))

CountRecoveryFailed ==
    CountStep("countRecoveryFailed", "countOwned",
              Bump("recoveryFailed", progress.lost))

CountDurable ==
    CountStep("countDurable",
              IF progress.lost = 0 THEN "countDelivered" ELSE "countOwned",
              Bump("durableCurrent", -progress.n))

CountDelivered ==
    CountStep("countDelivered", "countOwned", Bump("delivered", progress.n))

CountOwned ==
    /\ pc = "countOwned"
    /\ progress' = NoProgress
    /\ IF progress.stop
       THEN RecoverReturns(TRUE)
       ELSE /\ ctr' = RecoveryOwnedUpdated
            /\ pc' = "recover"
            /\ UNCHANGED pass
    /\ UNCHANGED store
    /\ RecoverUnchanged

---------------------------------------------------------------------------
(* What a pass does after recovery: give up, persist, or send in chunks *)

Answer(f, reply) ==
    IF f = NoFlusher THEN flusher ELSE [flusher EXCEPT ![f].reply = reply]

\* back to the select, with the answer to the Flush call the pass served
EndPass ==
    /\ flusher' = Answer(pass.serving, IF pass.err THEN "error" ELSE "nil")
    /\ pass' = NoPass
    /\ pc' = "select"

PassBlocked ==
    /\ pc = "recovered"
    /\ pass.blocked
    /\ pass.purpose # "finish"
    /\ EndPass
    /\ UNCHANGED <<ctr, events, flushRequests, doneClosed, progress, pending, job, store>>
    /\ LoopUnchanged

RetryRecovery ==  \* mutant: shutdown recovers until the log is empty
    /\ pc = "recovered"
    /\ pass.blocked
    /\ pass.purpose = "finish"
    /\ pc' = "recover"
    /\ UNCHANGED <<ctr, events, flushRequests, doneClosed, flusher, pass,
                   progress, pending, job, store>>
    /\ LoopUnchanged

\* finish: recovery is blocked, so persistPending takes over
PersistPending ==
    /\ pc = "recovered"
    /\ pass.blocked
    /\ pass.purpose = "finish"
    /\ pass' = [pass EXCEPT !.purpose = "persist"]
    /\ pc' = "chunk"
    /\ pending' = Drained
    /\ events' = Suffix(events, DrainCount)
    /\ UNCHANGED <<ctr, flushRequests, doneClosed, flusher, progress, job, store>>
    /\ LoopUnchanged

\* sendPending drains the channel once, finish before every chunk
StartChunks ==
    /\ pc = "recovered"
    /\ ~pass.blocked
    /\ pc' = "chunk"
    /\ IF pass.purpose \in {"tick", "flush"}
       THEN /\ pending' = Drained
            /\ events' = Suffix(events, DrainCount)
       ELSE UNCHANGED <<pending, events>>
    /\ UNCHANGED <<ctr, flushRequests, doneClosed, flusher, pass, progress, job, store>>
    /\ LoopUnchanged

WaitingPending == pending  \* mutant: finish does not drain the channel
Waiting == IF pass.purpose = "finish" THEN Drained ELSE pending
Undrained == IF pass.purpose = "finish" THEN Suffix(events, DrainCount) ELSE events

NextChunk ==
    /\ pc = "chunk"
    /\ Waiting # <<>>
    /\ LET size == Least(FlushSize, Len(Waiting))
       IN /\ chunk' = Prefix(Waiting, size)
          /\ pending' = Suffix(Waiting, size)
          /\ ends' = <<size>>
    /\ events' = Undrained
    /\ settled' = 0
    /\ sendsLeft' = MaxSplitSends
    /\ pc' = IF pass.purpose = "persist" THEN "persist" ELSE "deliver"
    /\ UNCHANGED <<ctr, flushRequests, doneClosed, flusher, pass, progress, fate, store>>
    /\ LoopUnchanged

NoMoreChunks ==
    /\ pc = "chunk"
    /\ Waiting = <<>>
    /\ IF pass.purpose \in {"finish", "persist"}
       THEN /\ pc' = "exit"
            /\ pass' = NoPass
            /\ UNCHANGED flusher
       ELSE EndPass
    /\ UNCHANGED <<ctr, events, flushRequests, doneClosed, progress, pending, job, store>>
    /\ LoopUnchanged

---------------------------------------------------------------------------
(* deliver: one piece of the chunk, and what transport.send made of it *)

DeliverUnchanged ==
    /\ UNCHANGED <<events, flushRequests, doneClosed, flusher, progress, pending>>
    /\ LoopUnchanged

PutFirst == AsRecord(Piece) \o wal  \* mutant: newest record first
Put == wal \o AsRecord(Piece)

LastErr(err) == [pass EXCEPT !.err = err]  \* mutant: only the last chunk counts
FirstErr(err) == [pass EXCEPT !.err = @ \/ err]

\* The outcome f of the piece is decided. It reaches the log and the history
\* here, the counters in the next two steps.
Resolve(f, err) ==
    /\ fate' = f
    /\ pass' = FirstErr(err)
    /\ wal' = IF f = "retained" THEN Put ELSE wal
    /\ confirmed' = IF f = "delivered" THEN confirmed \union EventsOf(Piece) ELSE confirmed
    /\ lost' = IF f = "lost" THEN lost \union EventsOf(Piece) ELSE lost
    /\ pc' = "settle"
    /\ UNCHANGED <<ctr, chunk, settled, ends>>
    /\ DeliverUnchanged

\* the record of the piece fits in the log, so that it may be sent
Storable == Durable => DurablePending + PieceSize <= QueueLimit

SendingOn == pc = "deliver" /\ sendsLeft' = sendsLeft - 1  \* mutant: no limit
Sending == pc = "deliver" /\ sendsLeft > 0 /\ sendsLeft' = sendsLeft - 1

SplitLimit ==
    /\ pc = "deliver"
    /\ sendsLeft = 0
    /\ UNCHANGED sendsLeft
    /\ Resolve("lost", TRUE)

\* warned: removed from the log, but the directory could not be synced
SendDelivered ==
    /\ Sending
    /\ Storable
    /\ \E warned \in {FALSE, Durable} : Resolve("delivered", warned)

\* any terminal status but the 400 of a batch that can be split
SendTerminal ==
    /\ Sending
    /\ Storable
    /\ Resolve("lost", TRUE)

LeftHalf == <<settled + (PieceSize \div 2)>> \o Tail(ends)  \* mutant: half is lost
Halves == <<settled + (PieceSize \div 2)>> \o ends

\* HTTP 400 for several events: the halves come next, the left one first
SendSplit ==
    /\ Sending
    /\ Storable
    /\ PieceSize > 1
    /\ ends' = Halves
    /\ UNCHANGED <<ctr, pc, pass, chunk, settled, fate, store>>
    /\ DeliverUnchanged

\* no answer, retries exhausted or context cancelled: the log keeps the record
SendRetained ==
    /\ Sending
    /\ Durable
    /\ Storable
    /\ Resolve("retained", TRUE)

\* the same without a log
SendFailed ==
    /\ Sending
    /\ ~Durable
    /\ Resolve("lost", TRUE)

\* the record could not be put in the log: over its limit, or an I/O error
SendUnstored ==
    /\ Sending
    /\ Durable
    /\ Resolve("lost", TRUE)

\* persistPending: into the log without an attempt to send
Persisted ==
    /\ pc = "persist"
    /\ Storable
    /\ UNCHANGED sendsLeft
    /\ Resolve("retained", FALSE)

NotPersisted ==
    /\ pc = "persist"
    /\ UNCHANGED sendsLeft
    /\ Resolve("lost", TRUE)

ReleaseChunk == Bump("unsent", -Len(chunk))  \* mutant: once per piece
Release == Bump("unsent", -PieceSize)

\* unsent is decremented first ...
Settle ==
    /\ pc = "settle"
    /\ ctr' = Release
    /\ pc' = "account"
    /\ UNCHANGED <<pass, job, store>>
    /\ DeliverUnchanged

\* ... and the counter of the outcome incremented after it
OutcomeCounter == CASE fate = "delivered" -> "delivered"
                    [] fate = "retained" -> "durableCurrent"
                    [] OTHER -> "failed"

Account ==
    /\ pc = "account"
    /\ ctr' = Bump(OutcomeCounter, PieceSize)
    /\ fate' = "none"
    /\ ends' = Tail(ends)
    /\ IF Len(ends) > 1
       THEN /\ settled' = Head(ends)
            /\ pc' = "deliver"
            /\ UNCHANGED <<chunk, sendsLeft, pass>>
       ELSE /\ chunk' = <<>> /\ settled' = 0 /\ sendsLeft' = 0
            /\ pc' = IF pass.purpose = "size" THEN "select" ELSE "chunk"
            /\ pass' = IF pass.purpose = "size" THEN NoPass ELSE pass
    /\ UNCHANGED store
    /\ DeliverUnchanged

---------------------------------------------------------------------------
(* The loop's exit *)

ExitUnchanged ==
    /\ UNCHANGED <<ctr, events, pass, progress, pending, job, store>>
    /\ LoopUnchanged

\* replyPendingFlushes
ReplyPendingFlush ==
    /\ pc = "exit"
    /\ flushRequests # <<>>
    /\ flusher' = Answer(Head(flushRequests), "closed")
    /\ flushRequests' = Tail(flushRequests)
    /\ UNCHANGED <<doneClosed, pc>>
    /\ ExitUnchanged

NoPendingFlush ==
    /\ pc = "exit"
    /\ flushRequests = <<>>
    /\ pc' = "closing"
    /\ UNCHANGED <<flushRequests, flusher, doneClosed>>
    /\ ExitUnchanged

\* a request that arrives between the two is answered by doneCh
CloseDone ==
    /\ pc = "closing"
    /\ doneClosed' = TRUE
    /\ pc' = "done"
    /\ UNCHANGED <<flushRequests, flusher>>
    /\ ExitUnchanged

---------------------------------------------------------------------------

Track == \/ TrackBegin \/ TrackLoadOwned \/ TrackAdmit \/ TrackReserve
         \/ TrackSend \/ TrackCount

Flush(f) == \/ FlushCall(f) \/ FlushEnqueue(f) \/ FlushReply(f)
            \/ FlushClosed(f) \/ FlushAbandon(f)

Deadline(s) == \/ DeadlineFailed(s) \/ DeadlineRecoveryFailed(s)
               \/ DeadlineDelivered(s) \/ DeadlineReturn(s)

Shutdown(s) == \/ ShutdownClose(s) \/ ShutdownStop(s) \/ ShutdownAgain(s)
               \/ WaitDone(s) \/ Deadline(s)

Recover == \/ RecoverEnds \/ RecoverBlocked \/ RecoverDelivered \/ RecoverTerminal
           \/ CountFailed \/ CountRecoveryFailed \/ CountDurable
           \/ CountDelivered \/ CountOwned

SendChunks == \/ PassBlocked \/ PersistPending \/ StartChunks \/ NextChunk \/ NoMoreChunks

Deliver == \/ SplitLimit \/ SendDelivered \/ SendTerminal \/ SendSplit
           \/ SendRetained \/ SendFailed \/ SendUnstored
           \/ Persisted \/ NotPersisted \/ Settle \/ Account

Exit == ReplyPendingFlush \/ NoPendingFlush \/ CloseDone

\* everything the loop does between two returns to its select
LoopWork == Recover \/ SendChunks \/ Deliver \/ Exit

\* all calls have been made and have returned, and the loop is gone
Finished ==
    /\ pc = "done"
    /\ track.pc = "idle"
    /\ \A f \in Flushers : flusher[f].pc = "returned"
    /\ \A s \in Shutters : shutter[s].pc = "returned"
    /\ Calls >= MaxCalls \/ closed
    /\ UNCHANGED vars

Next ==
    \/ Reject
    \/ Track
    \/ \E f \in Flushers : Flush(f)
    \/ \E s \in Shutters : Shutdown(s)
    \/ LoopStop \/ LoopEvent \/ LoopTick \/ LoopFlush
    \/ LoopWork
    \/ Finished

Spec == Init /\ [][Next]_vars
=============================================================================
