-------------------------- MODULE BatcherProperties --------------------------
(***************************************************************************)
(* What the batcher must guarantee, and the documented claims that the     *)
(* code does not meet.                                                     *)
(***************************************************************************)
EXTENDS Batcher

---------------------------------------------------------------------------
(* Types *)

Phases == {"select", "recover", "countFailed", "countRecoveryFailed", "countDurable",
           "countDelivered", "countOwned", "recovered", "chunk", "deliver", "persist",
           "settle", "account", "exit", "closing", "done"}
Purposes == {"none", "size", "tick", "flush", "finish", "persist"}
Replies == {"none", "nil", "error", "closed", "context"}

TrackCalls == [pc : {"idle", "owned", "durable", "cas", "send", "count"},
               unsent : Int, total : Int]
FlushCalls == [pc : {"idle", "calling", "waiting", "returned"},
               reply : Replies, result : Replies, mark : SUBSET Int, due : SUBSET Int]
ShutdownCalls == [pc : {"idle", "stopping", "waiting", "failed", "recoveryFailed",
                        "delivered", "returned"},
                  sum : Int, result : {"none", "nil", "error", "deadline"}]
Passes == [purpose : Purposes, serving : Flushers \union {NoFlusher},
           err : BOOLEAN, blocked : BOOLEAN]
LogEntries == [event : Int, batch : Int]

\* Every variable keeps its type.
TypeOK ==
    /\ ctr \in [Counters -> Int]
    /\ events \in Seq(Int)
    /\ flushRequests \in Seq(Flushers)
    /\ closed \in BOOLEAN /\ stopped \in BOOLEAN /\ doneClosed \in BOOLEAN
    /\ track \in TrackCalls
    /\ flusher \in [Flushers -> FlushCalls]
    /\ shutter \in [Shutters -> ShutdownCalls]
    /\ pc \in Phases
    /\ pass \in Passes
    /\ progress \in [n : Int, lost : Int, stop : BOOLEAN]
    /\ pending \in Seq(Int) /\ chunk \in Seq(Int)
    /\ settled \in Nat /\ ends \in Seq(Nat) /\ sendsLeft \in Nat
    /\ fate \in {"none", "delivered", "retained", "lost"}
    /\ wal \in Seq(LogEntries)
    /\ confirmed \in SUBSET Int /\ lost \in SUBSET Int

---------------------------------------------------------------------------
(* The queue *)

\* events of the chunk that are still counted in unsent
Unsettled == IF ends = <<>> THEN 0
             ELSE Len(chunk) - (IF pc = "account" THEN Head(ends) ELSE settled)

\* events of the chunk whose outcome is not decided
Undecided == IF ends = <<>> THEN <<>>
             ELSE Suffix(chunk, IF pc \in {"settle", "account"} THEN Head(ends) ELSE settled)

InMemory == Undecided \o pending \o events

\* unsent is exactly the number of events in the channel, in pending and in the
\* chunk being sent, plus the slot a call has reserved, and never exceeds the
\* queue size: drops, splits, partial passes and the two-step settling of a
\* piece (batcher.go:135-157, 484-541) neither leak nor double-release a slot.
UnsentAccounted ==
    /\ ctr.unsent = Len(events) + Len(pending) + Unsettled
                    + (IF track.pc = "send" THEN 1 ELSE 0)
    /\ ctr.unsent <= QueueLimit

\* A call that won its reservation always finds room in the channel: the
\* default branch of enqueue (batcher.go:151-156) is never taken.
ReservedSlotExists == track.pc = "send" => Len(events) < QueueLimit

\* An accepted event is always in exactly one place: confirmed, lost, in the
\* log, or in memory on its way there; shutting down, splitting and blocked
\* recoveries never make one vanish (batcher.go:301-366).
NoEventVanishes ==
    /\ confirmed \cap lost = {}
    /\ Unresolved = WalEvents \union EventsOf(InMemory)

\* Log, chunk, pending and channel together hold the events in the order they
\* were accepted and hold none twice, so a batch never mixes or repeats events
\* and a blocked shutdown appends to the log in FIFO order (doc.go:60-61).
Backlog == [i \in 1 .. Len(wal) |-> wal[i].event] \o InMemory
InOrder == \A i, j \in 1 .. Len(Backlog) : i < j => Backlog[i] < Backlog[j]

\* Whenever the loop is back at its select, or gone, and no call is between its
\* reservation and its count, the counters agree with what happened: Stats and
\* the shutdown errors neither lose an event nor count one twice, and the
\* in-flight log entries are in exactly one of recoveryOwned and
\* durableCurrent (batcher.go:77-90, 429-463).
LedgerBalanced ==
    pc \in {"select", "done"} /\ track.pc \notin {"send", "count"} =>
        /\ ctr.delivered = Cardinality(confirmed \ RestartOwned)
        /\ ctr.failed = Cardinality(lost)
        /\ ctr.recoveryFailed = Cardinality(lost \cap RestartOwned)
        /\ ctr.recoveryOwned + ctr.durableCurrent = DurablePending
        /\ ctr.enqueued = ctr.delivered + (ctr.failed - ctr.recoveryFailed)
                          + ctr.unsent + ctr.durableCurrent

\* The budget check of enqueue reads three counters while the loop moves events
\* between them, and so may admit too many; even so, what sits unsent never
\* exceeds the limit by more than one batch (batcher.go:136-143 against 527-530).
OvershootBounded == Cardinality(Unresolved) <= QueueLimit + FlushSize

---------------------------------------------------------------------------
(* The inductive invariant of the queue *)

Sends == {"deliver", "persist", "settle", "account"}
Counts == {"countFailed", "countRecoveryFailed", "countDurable", "countDelivered",
           "countOwned"}

\* the pieces of the chunk are not empty, in order, and end where the chunk ends
JobOK ==
    /\ ends # <<>> <=> pc \in Sends
    /\ ends # <<>> => settled < ends[1] /\ ends[Len(ends)] = Len(chunk)
    /\ \A i, j \in 1 .. Len(ends) : i < j => ends[i] < ends[j]
    /\ pass.purpose = "persist" => Len(ends) <= 1 /\ pc \in {"chunk"} \union Sends
    /\ pc = "deliver" => pass.purpose # "persist"

\* the entries of the log that the counters do not show yet, or no longer
InTransit ==
    CASE pc \in {"countFailed", "countDurable"} -> progress.n
      [] pc \in Counts /\ ctr.recoveryOwned > 0 -> progress.n
      [] pc \in {"settle", "account"} /\ fate = "retained" -> -PieceSize
      [] OTHER -> 0

\* the log holds what recoveryOwned and durableCurrent count, apart from the
\* batch that is being accounted for; the two do not mix before the shutdown
LogCounted ==
    /\ ctr.recoveryOwned >= 0 /\ ctr.durableCurrent >= 0
    /\ ctr.recoveryOwned + ctr.durableCurrent = Len(wal) + InTransit
    /\ \/ ctr.recoveryOwned = 0 \/ ctr.durableCurrent = 0
       \/ pass.purpose = "persist" \/ pc \in {"exit", "closing", "done"}
    /\ pc \in Counts => progress.n >= 1
    /\ pc = "countRecoveryFailed" => ctr.recoveryOwned > 0
    /\ pc \in {"countDurable", "countDelivered"} => ctr.recoveryOwned = 0
    /\ pc = "recovered" /\ ~pass.blocked => wal = <<>>
    /\ pc \in {"chunk"} \union Sends /\ pass.purpose # "persist" => ctr.recoveryOwned = 0

\* what the call in enqueue has loaded still bounds what it may reserve
CallOK ==
    /\ track.pc = "owned" => track.total = track.unsent
    /\ track.pc = "durable" => track.total >= track.unsent
    /\ track.pc = "cas" => track.unsent < QueueLimit

\* Chunk, log and enqueueing call keep the shape that every counter of the
\* batcher relies on: pieces partition the chunk, each log entry is counted
\* once, and an admitted call holds a stale but sufficient bound.
QueueInv == JobOK /\ LogCounted /\ CallOK

---------------------------------------------------------------------------
(* What the callers are told *)

\* When Flush returns nil, every event it had to wait for and that was still
\* undecided when the loop took its request has been accepted by the endpoint;
\* nothing is left in memory or in the log (batcher.go:159-184, 386-404).
FlushNilMeansDelivered ==
    \A f \in Flushers : flusher[f].result = "nil" =>
        /\ flusher[f].due \subseteq confirmed
        /\ flusher[f].mark \cap Unresolved = {}

\* When Shutdown returns nil, every accepted and every recovered event has been
\* accepted by the endpoint (alitycs.go:179-187: it never silently reports
\* success over lost events).
ShutdownNilMeansDelivered ==
    \A s \in Shutters : shutter[s].result = "nil" =>
        RestartOwned \union Accepted \subseteq confirmed

\* When the loop is gone, nothing is left in memory: every accepted event is
\* resolved or in the log, and every reserved slot is released
\* (batcher.go:255-259, 301-366).
NothingStranded ==
    doneClosed => /\ Unresolved = WalEvents
                  /\ ctr.unsent = 0
                  /\ InMemory = <<>>

\* The UndeliveredError of a Shutdown that ran into its deadline counts at least
\* the events that are neither confirmed nor lost (alitycs.go:183-187,
\* batcher.go:456-463). Its loads are torn, so this is not evident even when no
\* event of an earlier process is involved.
DeadlineReportCovers ==
    \A s \in Shutters : shutter[s].result = "deadline" =>
        shutter[s].sum >= Cardinality(Unresolved)

---------------------------------------------------------------------------
(* The inductive invariant of the events *)

\* s holds the events b + 1, b + 2, ... in this order
Run(s, b) == \A i \in 1 .. Len(s) : s[i] = b + i

LastAccepted == ctr.enqueued + (IF track.pc = "count" THEN 1 ELSE 0)

\* how many leading events of the chunk have an outcome
Decided == IF ends = <<>> THEN 0
           ELSE IF pc \in {"settle", "account"} THEN Head(ends) ELSE settled

\* the last event before the chunk, and the last one with an outcome
Base == LastAccepted - Len(events) - Len(pending) - Len(chunk)
LastDecided == Base + Decided

\* chunk, pending and channel hold the youngest events, one run after the other
MemoryOK ==
    /\ Base >= 0
    /\ Run(chunk, Base)
    /\ Run(pending, Base + Len(chunk))
    /\ Run(events, Base + Len(chunk) + Len(pending))
    /\ ends = <<>> => chunk = <<>>

\* every older event is confirmed, lost or in the log, and only one of these
PartitionOK ==
    /\ confirmed \union lost \union WalEvents = (1 - Recovered) .. LastDecided
    /\ confirmed \cap lost = {}
    /\ WalEvents \cap (confirmed \union lost) = {}
    /\ \A i, j \in 1 .. Len(wal) : i < j => wal[i].event < wal[j].event

\* the entries of an earlier process that are left in the log
Owned == ctr.recoveryOwned
         - (IF pc \in Counts /\ ctr.recoveryOwned > 0 THEN progress.n ELSE 0)

\* they are its oldest entries
OwnedOK ==
    /\ Owned \in 0 .. Len(wal)
    /\ ctr.recoveryOwned <= Recovered
    /\ \A i \in 1 .. Len(wal) : wal[i].event <= 0 <=> i <= Owned

\* what has happened to events and is not yet counted
DueDelivered ==
    CASE pc \in {"settle", "account"} /\ fate = "delivered" -> PieceSize
      [] pc \in {"countDurable", "countDelivered"} /\ progress.lost = 0 -> progress.n
      [] OTHER -> 0
DueFailed ==
    CASE pc \in {"settle", "account"} /\ fate = "lost" -> PieceSize
      [] pc = "countFailed" -> progress.lost
      [] OTHER -> 0
DueRecoveryFailed ==
    IF pc = "countRecoveryFailed" \/ (pc = "countFailed" /\ ctr.recoveryOwned > 0)
    THEN progress.lost ELSE 0

\* the counters are those of what happened, but for what is due
BooksOK ==
    /\ ctr.delivered + DueDelivered = Cardinality(confirmed \ RestartOwned)
    /\ ctr.failed + DueFailed = Cardinality(lost)
    /\ ctr.recoveryFailed + DueRecoveryFailed = Cardinality(lost \cap RestartOwned)
    /\ LastDecided = Cardinality(confirmed \ RestartOwned) + Cardinality(lost)
                     - Cardinality(lost \cap RestartOwned) + Len(wal) - Owned
    /\ pc \in {"settle", "account"} => fate # "none"
    /\ pc = "countDelivered" => progress.lost = 0
    /\ pc = "countFailed" => progress.lost # 0
    /\ pc \in Counts => progress.lost \in {0, progress.n}

\* the number of unresolved events: those in memory and those in the log
Outstanding == Len(wal) + LastAccepted - LastDecided

\* an admitted call leaves room for itself, however old what it loaded is
BudgetOK ==
    /\ Len(chunk) <= FlushSize
    /\ track.pc \in {"owned", "durable"} => ctr.unsent <= track.unsent
    /\ track.pc = "durable" => track.total >= track.unsent + ctr.recoveryOwned
    /\ Outstanding <= QueueLimit + FlushSize
                      - (IF track.pc \in {"cas", "send"} THEN 1 ELSE 0)

EventsOK == MemoryOK /\ PartitionOK /\ OwnedOK /\ BooksOK /\ BudgetOK

---------------------------------------------------------------------------
(* The inductive invariant of the callers *)

\* Shutdown closes the client, then stops the loop, which then empties memory
ClosedOK ==
    /\ closed => track.pc = "idle"
    /\ stopped => closed
    /\ \A s \in Shutters : /\ shutter[s].pc # "idle" => closed
                           /\ shutter[s].pc \notin {"idle", "stopping"} => stopped
                           /\ shutter[s].result # "none" => shutter[s].pc = "returned"
    /\ pass.purpose \in {"finish", "persist"} \/ pc \in {"exit", "closing", "done"} => stopped
    /\ pass.purpose = "persist" => events = <<>>
    /\ pc = "persist" => pass.purpose = "persist"
    /\ pc \in {"exit", "closing", "done"} => events = <<>> /\ pending = <<>>
    /\ doneClosed <=> pc = "done"

\* a Flush call sends at most one request, and only that request is answered
Asked(f) ==
    /\ flusher[f].pc \in {"idle", "calling"} =>
          /\ \A i \in 1 .. Len(flushRequests) : flushRequests[i] # f
          /\ pass.serving # f
          /\ flusher[f].reply = "none" /\ flusher[f].result = "none"
          /\ flusher[f].due = {}
    /\ (\E i \in 1 .. Len(flushRequests) : flushRequests[i] = f) =>
          flusher[f].due = {} /\ pass.serving # f

RequestsOK ==
    /\ \A f \in Flushers : Asked(f)
    /\ \A i, j \in 1 .. Len(flushRequests) : i # j => flushRequests[i] # flushRequests[j]

\* what the pass that serves f has achieved so far
Served(f) ==
    /\ pass.purpose = "flush"
    /\ flusher[f].mark \subseteq (1 - Recovered) .. (LastAccepted - Len(events))
    /\ ~pass.err => flusher[f].due \cap lost = {}

FlushOK ==
    /\ \A f \in Flushers :
         /\ flusher[f].due \subseteq flusher[f].mark
         /\ flusher[f].mark \subseteq (1 - Recovered) .. LastAccepted
         /\ flusher[f].reply = "nil" \/ flusher[f].result = "nil" =>
               flusher[f].due \subseteq confirmed /\ flusher[f].mark \subseteq confirmed \union lost
         /\ pass.serving = f => Served(f)
    /\ pass.blocked => pass.err
    /\ pc \in {"chunk"} \union Sends /\ pass.purpose # "persist" /\ ~pass.err => wal = <<>>

ShutdownOK == \A s \in Shutters :
    shutter[s].result = "nil" =>
        doneClosed /\ (1 - Recovered) .. LastAccepted \subseteq confirmed

\* each load of undeliveredAtDeadline leaves a bound that covers what is left,
\* unless an earlier process left events in the log
DeadlineOK == Recovered = 0 => \A s \in Shutters :
    /\ shutter[s].pc \in {"failed", "recoveryFailed"} => shutter[s].sum + Cardinality(lost) >= 0
    /\ shutter[s].pc = "delivered" \/ shutter[s].result = "deadline" =>
          shutter[s].sum >= Outstanding

CallsOK == ctr.dropped >= 0 /\ ctr.rejected >= 0 /\ Calls <= MaxCalls

CallersOK == ClosedOK /\ RequestsOK /\ FlushOK /\ ShutdownOK /\ DeadlineOK /\ CallsOK

\* Everything the counters, the reports and the contract rest on at once: queue
\* and log are accounted for, events decided in order and counted once, callers
\* answered with what happened (batcher.go:135-184, 301-541).
BatcherInv == QueueInv /\ EventsOK /\ CallersOK

---------------------------------------------------------------------------
(* Documented claims that do not hold *)

\* WithMaxQueueSize bounds the events that sit unsent (config.go:86-87), and
\* admission reserves capacity atomically and includes the retained durable
\* events in the budget (CHANGELOG.md:49-50).
WithinBudget == Cardinality(Unresolved) <= QueueLimit

\* Flush waits until every event enqueued before the call has been accepted by
\* the endpoint (alitycs.go:171-174).
FlushNilMeansAccepted ==
    \A f \in Flushers : flusher[f].result = "nil" => flusher[f].mark \subseteq confirmed

---------------------------------------------------------------------------
(* Refinement of the delivery contract *)

StatusOf(e) ==
    IF e \in confirmed THEN "delivered"
    ELSE IF e \in lost THEN "lost"
    ELSE IF e \in WalEvents THEN "retained"
    ELSE IF e \in Accepted THEN "accepted" ELSE "absent"

Contract == INSTANCE DeliveryContract
              WITH First <- 1 - Recovered, Last <- MaxCalls,
                   status <- [e \in (1 - Recovered) .. MaxCalls |-> StatusOf(e)],
                   open <- ~closed

\* The batcher implements the delivery contract: acceptance only while open,
\* outcomes in the order of acceptance, each decided once, and what an earlier
\* process left in the log decided first.
RefinesContract == Contract!ContractSpec

---------------------------------------------------------------------------
(* Liveness *)

\* Go schedules a runnable goroutine eventually, every send is bounded (finite
\* retries, capped waits), and a select with several ready cases picks one at
\* random, so a case that is ready again and again is picked eventually.
Fairness ==
    /\ WF_vars(LoopWork)
    /\ SF_vars(LoopStop) /\ SF_vars(LoopFlush) /\ SF_vars(LoopTick)
    /\ WF_vars(track.pc # "idle" /\ Track)
    /\ \A f \in Flushers : WF_vars(FlushEnqueue(f) \/ FlushReply(f) \/ FlushClosed(f))
    /\ \A s \in Shutters : WF_vars(ShutdownStop(s))

LiveSpec == Spec /\ Fairness

\* Once stop has been called the loop drains and exits, whatever the endpoint
\* and the log do (batcher.go:301-329).
ShutdownCompletes == stopped ~> doneClosed

\* A Flush call returns, also when the request channel is full, when Shutdown
\* comes in between, and without its context ever ending (batcher.go:163-184).
EveryFlushReturns == \A f \in Flushers : flusher[f].pc = "calling" ~> flusher[f].pc = "returned"

\* With a ticker, no accepted event stays in memory forever, unless recovery is
\* blocked again (batcher.go:290-293).
NoEventStarves ==
    \A e \in 1 .. MaxCalls :
        e \in Accepted ~> (e \notin EventsOf(InMemory) \/ pass.blocked)
=============================================================================
