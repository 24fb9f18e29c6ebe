---------------------------- MODULE BatcherProofs ----------------------------
(***************************************************************************)
(* Theorems about Batcher, for every queue limit, flush size, number of    *)
(* calls and content of the log.                                           *)
(***************************************************************************)
EXTENDS BatcherProperties, TLAPS

---------------------------------------------------------------------------
(* What the sequence operators return *)

\* Prefix and Suffix split a sequence: no event is dropped or duplicated by length.
LEMMA SplitLengths ==
    ASSUME NEW S, NEW s \in Seq(S), NEW n \in 0 .. Len(s)
    PROVE  /\ Prefix(s, n) \in Seq(S) /\ Len(Prefix(s, n)) = n
           /\ Suffix(s, n) \in Seq(S) /\ Len(Suffix(s, n)) = Len(s) - n
BY DEF Prefix, Suffix

\* Concatenation adds lengths and keeps the type of the elements.
LEMMA ConcatLengths ==
    ASSUME NEW S, NEW s \in Seq(S), NEW t \in Seq(S)
    PROVE  s \o t \in Seq(S) /\ Len(s \o t) = Len(s) + Len(t)
OBVIOUS

\* What Tail leaves of a sequence: one element less, the rest shifted by one.
LEMMA TailFacts ==
    ASSUME NEW S, NEW s \in Seq(S), s # <<>>
    PROVE  /\ Tail(s) \in Seq(S) /\ Len(Tail(s)) = Len(s) - 1
           /\ Len(s) > 1 => Tail(s) # <<>>
           /\ \A i \in 1 .. Len(s) - 1 : Tail(s)[i] = s[i + 1]
<1>1. Tail(s) \in Seq(S) /\ Len(Tail(s)) = Len(s) - 1 /\ Len(s) \in Nat
    OBVIOUS
<1>2. \A i \in 1 .. Len(s) - 1 : Tail(s)[i] = s[i + 1]
    OBVIOUS
<1>3. Len(s) > 1 => Tail(s) # <<>>
    <2>1. Len(<<>>) = 0
        OBVIOUS
    <2>2. Len(s) > 1 => Len(Tail(s)) # 0
        BY <1>1
    <2> QED
        BY <2>1, <2>2
<1> QED
    BY <1>1, <1>2, <1>3

\* drainChannel moves some events from the channel to pending and loses none.
LEMMA DrainLengths ==
    ASSUME TypeOK
    PROVE  /\ DrainCount \in 0 .. Len(events)
           /\ Drained \in Seq(Int) /\ Suffix(events, DrainCount) \in Seq(Int)
           /\ Len(Drained) = Len(pending) + DrainCount
           /\ Len(Suffix(events, DrainCount)) = Len(events) - DrainCount
<1>1. events \in Seq(Int) /\ pending \in Seq(Int)
    BY DEF TypeOK
<1>2. DrainCount \in 0 .. Len(events)
    BY <1>1, ConfigAssumption DEF DrainCount, Least
<1>3. Prefix(events, DrainCount) \in Seq(Int) /\ Len(Prefix(events, DrainCount)) = DrainCount
    BY <1>1, <1>2, SplitLengths
<1>4. Suffix(events, DrainCount) \in Seq(Int)
      /\ Len(Suffix(events, DrainCount)) = Len(events) - DrainCount
    BY <1>1, <1>2, SplitLengths
<1>5. Drained \in Seq(Int) /\ Len(Drained) = Len(pending) + DrainCount
    BY <1>1, <1>2, <1>3, ConcatLengths DEF Drained
<1> QED
    BY <1>2, <1>4, <1>5

---------------------------------------------------------------------------
(* Type correctness *)

\* Every counter holds an integer, and so it does after an addition.
LEMMA PlusType ==
    ASSUME NEW g \in [Counters -> Int], NEW c \in Counters, NEW n \in Int
    PROVE  Plus(g, c, n) \in [Counters -> Int]
BY DEF Plus

\* Each single counter is an integer when the record of counters has its
\* type.
LEMMA CounterTypes ==
    ASSUME ctr \in [Counters -> Int]
    PROVE  /\ ctr.enqueued \in Int /\ ctr.delivered \in Int /\ ctr.failed \in Int
           /\ ctr.unsent \in Int /\ ctr.recoveryOwned \in Int
           /\ ctr.recoveryFailed \in Int /\ ctr.durableCurrent \in Int
BY DEF Counters

\* The initial states, the recovered log included, have the types of TypeOK.
LEMMA TypeInit == Init => TypeOK
<1> SUFFICES ASSUME Init PROVE TypeOK
    OBVIOUS
<1>1. wal \in Seq(LogEntries)
    <2>1. wal \in [1 .. Recovered -> [event : RestartOwned, batch : RestartOwned]]
        BY DEF Init, InitWal
    <2>2. [event : RestartOwned, batch : RestartOwned] \subseteq LogEntries
        BY ConfigAssumption DEF RestartOwned, LogEntries
    <2>3. Recovered \in Nat
        BY ConfigAssumption
    <2> QED
        BY <2>1, <2>2, <2>3
<1>2. ctr \in [Counters -> Int]
    BY ConfigAssumption DEF Init, Counters
<1>3. IdleTrack \in TrackCalls /\ IdleFlush \in FlushCalls /\ IdleShutdown \in ShutdownCalls
    BY DEF IdleTrack, TrackCalls, IdleFlush, FlushCalls, Replies, IdleShutdown, ShutdownCalls
<1>4. NoPass \in Passes /\ progress \in [n : Int, lost : Int, stop : BOOLEAN]
    BY DEF Init, NoPass, Passes, Purposes, NoProgress
<1>5. /\ flusher \in [Flushers -> FlushCalls]
      /\ shutter \in [Shutters -> ShutdownCalls]
      /\ track \in TrackCalls
    BY <1>3 DEF Init
<1>6. /\ events \in Seq(Int) /\ flushRequests \in Seq(Flushers)
      /\ pending \in Seq(Int) /\ chunk \in Seq(Int) /\ ends \in Seq(Nat)
    BY DEF Init
<1>7. /\ closed \in BOOLEAN /\ stopped \in BOOLEAN /\ doneClosed \in BOOLEAN
      /\ pc \in Phases /\ pass \in Passes
      /\ settled \in Nat /\ sendsLeft \in Nat
      /\ fate \in {"none", "delivered", "retained", "lost"}
      /\ confirmed \in SUBSET Int /\ lost \in SUBSET Int
    BY <1>4 DEF Init, Phases
<1> QED
    BY <1>1, <1>2, <1>4, <1>5, <1>6, <1>7 DEF TypeOK

\* The enqueueing call (batcher.go:135-157) keeps the types.
LEMMA TrackType == ASSUME TypeOK, Reject \/ Track PROVE TypeOK'
<1> DEFINE Typed == /\ ctr' \in [Counters -> Int]
                    /\ events' \in Seq(Int)
                    /\ track' \in TrackCalls
<1>1. /\ ctr \in [Counters -> Int]
      /\ events \in Seq(Int)
      /\ track \in TrackCalls
    BY DEF TypeOK
<1>2. /\ ctr.unsent \in Int /\ ctr.enqueued \in Int /\ ctr.recoveryOwned \in Int
      /\ Bump("rejected", 1) \in [Counters -> Int]
      /\ Bump("dropped", 1) \in [Counters -> Int]
      /\ Bump("unsent", 1) \in [Counters -> Int]
      /\ Bump("enqueued", 1) \in [Counters -> Int]
      /\ Plus(Bump("unsent", -1), "dropped", 1) \in [Counters -> Int]
    <2>1. /\ "rejected" \in Counters /\ "dropped" \in Counters
          /\ "unsent" \in Counters /\ "enqueued" \in Counters
        BY DEF Counters
    <2>2. /\ Bump("rejected", 1) \in [Counters -> Int]
          /\ Bump("dropped", 1) \in [Counters -> Int]
          /\ Bump("unsent", 1) \in [Counters -> Int]
          /\ Bump("enqueued", 1) \in [Counters -> Int]
        BY <1>1, <2>1 DEF Bump, Plus
    <2>3. Bump("unsent", -1) \in [Counters -> Int]
        BY <1>1, <2>1 DEF Bump, Plus
    <2>4. Plus(Bump("unsent", -1), "dropped", 1) \in [Counters -> Int]
        BY <2>1, <2>3 DEF Plus
    <2>5. ctr.unsent \in Int /\ ctr.enqueued \in Int /\ ctr.recoveryOwned \in Int
        BY <1>1, CounterTypes
    <2> QED
        BY <2>2, <2>4, <2>5
<1>3. IdleTrack \in TrackCalls /\ LoadedUnsent \in TrackCalls
    BY <1>2 DEF IdleTrack, LoadedUnsent, TrackCalls
<1>4. Typed
    <2>1. CASE Reject
        BY <1>1, <1>2, <2>1 DEF Reject
    <2>2. CASE TrackBegin
        BY <1>1, <1>3, <2>2 DEF TrackBegin
    <2>3. CASE TrackLoadOwned
        <3>1. [pc |-> "durable", unsent |-> track.unsent,
               total |-> track.total + ctr.recoveryOwned] \in TrackCalls
            BY <1>1, <1>2 DEF TrackCalls
        <3> QED
            BY <1>1, <2>3, <3>1 DEF TrackLoadOwned
    <2>4. CASE TrackAdmit
        <3>1. [track EXCEPT !.pc = "cas"] \in TrackCalls
            BY <1>1 DEF TrackCalls
        <3> QED
            BY <1>1, <1>2, <1>3, <2>4, <3>1 DEF TrackAdmit
    <2>5. CASE TrackReserve
        <3>1. [IdleTrack EXCEPT !.pc = "send"] \in TrackCalls
            BY DEF IdleTrack, TrackCalls
        <3> QED
            BY <1>1, <1>2, <1>3, <2>5, <3>1 DEF TrackReserve, Reserved
    <2>6. CASE TrackSend
        <3>1. [track EXCEPT !.pc = "count"] \in TrackCalls
            BY <1>1 DEF TrackCalls
        <3>2. Append(events, ctr.enqueued + 1) \in Seq(Int)
            BY <1>1, <1>2
        <3> QED
            BY <1>1, <1>2, <1>3, <2>6, <3>1, <3>2 DEF TrackSend
    <2>7. CASE TrackCount
        BY <1>1, <1>2, <1>3, <2>7 DEF TrackCount
    <2> QED
        BY <2>1, <2>2, <2>3, <2>4, <2>5, <2>6, <2>7 DEF Track
<1>5. TrackUnchanged
    BY DEF Reject, Track, TrackBegin, TrackLoadOwned, TrackAdmit, TrackReserve,
       TrackSend, TrackCount
<1> QED
    BY <1>4, <1>5 DEF TypeOK, TrackUnchanged, signals, loop, job, store

\* A Flush call (batcher.go:159-184) keeps the types.
LEMMA FlushType == ASSUME TypeOK, NEW f \in Flushers, Flush(f) PROVE TypeOK'
<1> DEFINE Typed == /\ flusher' \in [Flushers -> FlushCalls]
                    /\ flushRequests' \in Seq(Flushers)
                    /\ FlushUnchanged
<1>1. /\ flusher \in [Flushers -> FlushCalls]
      /\ flushRequests \in Seq(Flushers)
      /\ Unresolved \in SUBSET Int
    BY DEF TypeOK, Unresolved, RestartOwned, Accepted, Counters
<1>2. Typed
    <2>1. flusher[f] \in FlushCalls
        BY <1>1
    <2>2. \A r \in Replies : FlushReturns(f, r) => flusher' \in [Flushers -> FlushCalls]
        <3>1. \A r \in Replies :
                [flusher[f] EXCEPT !.pc = "returned", !.result = r] \in FlushCalls
            BY <2>1 DEF FlushCalls
        <3> QED
            BY <1>1, <3>1 DEF FlushReturns
    <2>3. CASE FlushCall(f)
        <3>1. [flusher[f] EXCEPT !.pc = "calling", !.mark = Unresolved] \in FlushCalls
            BY <1>1, <2>1 DEF FlushCalls
        <3> QED
            BY <1>1, <2>3, <3>1 DEF FlushCall
    <2>4. CASE FlushEnqueue(f)
        <3>1. [flusher[f] EXCEPT !.pc = "waiting"] \in FlushCalls
            BY <2>1 DEF FlushCalls
        <3> QED
            BY <1>1, <2>4, <3>1 DEF FlushEnqueue
    <2>5. CASE FlushReply(f)
        BY <1>1, <2>1, <2>2, <2>5 DEF FlushReply, FlushCalls
    <2>6. CASE FlushClosed(f)
        BY <1>1, <2>2, <2>6 DEF FlushClosed, Replies
    <2>7. CASE FlushAbandon(f)
        BY <1>1, <2>2, <2>7 DEF FlushAbandon, Replies
    <2> QED
        BY <2>3, <2>4, <2>5, <2>6, <2>7 DEF Flush
<1> QED
    BY <1>2 DEF TypeOK, FlushUnchanged, signals, loop, job, store

\* A Shutdown call, its torn deadline report included (batcher.go:456-463),
\* keeps the types.
LEMMA ShutdownType == ASSUME TypeOK, NEW s \in Shutters, Shutdown(s) PROVE TypeOK'
<1> DEFINE Typed == /\ shutter' \in [Shutters -> ShutdownCalls]
                    /\ closed' \in BOOLEAN /\ stopped' \in BOOLEAN /\ doneClosed' \in BOOLEAN
                    /\ ShutdownUnchanged
<1>1. /\ shutter \in [Shutters -> ShutdownCalls]
      /\ shutter[s] \in ShutdownCalls
      /\ closed \in BOOLEAN /\ stopped \in BOOLEAN /\ doneClosed \in BOOLEAN
      /\ ctr \in [Counters -> Int]
      /\ Len(wal) \in Int
    BY DEF TypeOK
<1>2. \A to \in {"stopping", "waiting", "failed", "recoveryFailed", "delivered"}, sum \in Int :
        /\ [shutter[s] EXCEPT !.pc = to] \in ShutdownCalls
        /\ [shutter[s] EXCEPT !.pc = to, !.sum = sum] \in ShutdownCalls
    BY <1>1 DEF ShutdownCalls
<1>3. \A sum \in Int, r \in {"nil", "error", "deadline"} :
        [pc |-> "returned", sum |-> sum, result |-> r] \in ShutdownCalls
    BY DEF ShutdownCalls
<1>4. /\ shutter[s].sum \in Int
      /\ ctr.failed \in Int /\ ctr.recoveryFailed \in Int /\ ctr.enqueued \in Int
      /\ ctr.delivered \in Int /\ ctr.recoveryOwned \in Int
    BY <1>1, CounterTypes DEF ShutdownCalls
<1>5. Typed
    <2>1. CASE ShutdownClose(s)
        BY <1>1, <1>2, <2>1 DEF ShutdownClose
    <2>2. CASE ShutdownStop(s)
        BY <1>1, <1>2, <2>2 DEF ShutdownStop
    <2>3. CASE ShutdownAgain(s)
        BY <1>1, <1>2, <2>3 DEF ShutdownAgain, signals
    <2>4. CASE WaitDone(s)
        BY <1>1, <1>3, <2>4 DEF WaitDone, ShutdownReturns, DurablePending, signals
    <2>5. ASSUME NEW from, NEW to \in {"failed", "recoveryFailed", "delivered"},
                 NEW sum \in Int, DeadlineStep(s, from, to, sum)
          PROVE  Typed
        BY <1>1, <1>2, <2>5 DEF DeadlineStep, signals
    <2>6. CASE DeadlineFailed(s)
        <3>1. -ctr.failed \in Int
            BY <1>4
        <3> QED
            BY <2>5, <2>6, <3>1 DEF DeadlineFailed
    <2>7. CASE DeadlineRecoveryFailed(s)
        <3>1. shutter[s].sum + ctr.recoveryFailed \in Int
            BY <1>4
        <3> QED
            BY <2>5, <2>7, <3>1 DEF DeadlineRecoveryFailed
    <2>8. CASE DeadlineDelivered(s)
        <3> DEFINE sum == shutter[s].sum + ctr.enqueued - ctr.delivered
        <3>1. (IF sum < 0 THEN 0 ELSE sum) \in Int
            BY <1>4
        <3> QED
            BY <2>5, <2>8, <3>1 DEF DeadlineDelivered
    <2>9. CASE DeadlineReturn(s)
        <3>1. shutter[s].sum + ctr.recoveryOwned \in Int
            BY <1>4
        <3> QED
            BY <1>1, <1>3, <2>9, <3>1 DEF DeadlineReturn, ShutdownReturns, signals
    <2> QED
        BY <2>1, <2>2, <2>3, <2>4, <2>6, <2>7, <2>8, <2>9 DEF Shutdown, Deadline
<1> QED
    BY <1>5 DEF TypeOK, ShutdownUnchanged, signals, loop, job, store

\* recoveryOwned is refreshed with an integer.
LEMMA RecoveryOwnedType == ASSUME TypeOK PROVE RecoveryOwnedUpdated \in [Counters -> Int]
<1>1. ctr \in [Counters -> Int] /\ wal \in Seq(LogEntries)
    BY DEF TypeOK
<1>2. ctr["recoveryOwned"] \in Int /\ Len(wal) \in Int
    BY <1>1 DEF Counters
<1> QED
    BY <1>1, <1>2 DEF RecoveryOwnedUpdated, Least, DurablePending, Counters

\* The end of a recovery (batcher.go:406-427) keeps the types of the counters
\* and of the pass.
LEMMA RecoverReturnsType ==
    ASSUME TypeOK, NEW b \in BOOLEAN, RecoverReturns(b)
    PROVE  ctr' \in [Counters -> Int] /\ pc' \in Phases /\ pass' \in Passes
<1>1. pass \in Passes
    BY DEF TypeOK
<1>2. [pass EXCEPT !.blocked = b, !.err = @ \/ b] \in Passes
    BY <1>1 DEF Passes
<1> QED
    BY <1>2, RecoveryOwnedType DEF RecoverReturns, Phases

\* Recovery and the accounting of its progress (batcher.go:406-447) keep the
\* types.
LEMMA RecoverType == ASSUME TypeOK, Recover PROVE TypeOK'
<1> DEFINE Typed == /\ ctr' \in [Counters -> Int]
                    /\ pc' \in Phases
                    /\ pass' \in Passes
                    /\ progress' \in [n : Int, lost : Int, stop : BOOLEAN]
                    /\ wal' \in Seq(LogEntries)
                    /\ confirmed' \in SUBSET Int /\ lost' \in SUBSET Int
                    /\ RecoverUnchanged
<1>1. /\ ctr \in [Counters -> Int]
      /\ pass \in Passes
      /\ progress \in [n : Int, lost : Int, stop : BOOLEAN]
      /\ wal \in Seq(LogEntries)
      /\ confirmed \in SUBSET Int /\ lost \in SUBSET Int
    BY DEF TypeOK
<1>2. \A n \in 1 .. Len(wal) : HeadEvents(n) \in SUBSET Int
    <2>1. \A i \in 1 .. Len(wal) : wal[i].event \in Int
        <3>1. \A i \in 1 .. Len(wal) : wal[i] \in LogEntries
            BY <1>1
        <3> QED
            BY <3>1 DEF LogEntries
    <2> QED
        BY <2>1 DEF HeadEvents
<1>3. \A n \in 1 .. Len(wal), losses \in Int, stop \in BOOLEAN :
        RecordResolved(n, losses, stop) =>
            /\ wal' \in Seq(LogEntries) /\ pc' \in Phases /\ ctr' = ctr
            /\ progress' \in [n : Int, lost : Int, stop : BOOLEAN]
            /\ RecoverUnchanged
    <2> TAKE n \in 1 .. Len(wal), losses \in Int, stop \in BOOLEAN
    <2> HAVE RecordResolved(n, losses, stop)
    <2>1. wal' \in Seq(LogEntries)
        BY <1>1 DEF RecordResolved, Suffix
    <2>2. progress' \in [n : Int, lost : Int, stop : BOOLEAN]
        BY <1>1 DEF RecordResolved
    <2>3. pc' \in Phases /\ ctr' = ctr /\ RecoverUnchanged
        BY DEF RecordResolved, Phases
    <2> QED
        BY <2>1, <2>2, <2>3
<1>4. Typed
    <2>1. CASE RecoverEnds
        BY <1>1, <2>1, RecoverReturnsType DEF RecoverEnds, store
    <2>2. CASE RecoverBlocked
        BY <1>1, <2>2, RecoverReturnsType DEF RecoverBlocked, store
    <2>3. CASE RecoverDelivered
        <3>1. PICK n \in 1 .. Len(wal), stop \in BOOLEAN :
                 RecordResolved(n, 0, stop) /\ confirmed' = confirmed \union HeadEvents(n)
            BY <2>3 DEF RecoverDelivered
        <3>2. /\ wal' \in Seq(LogEntries) /\ pc' \in Phases /\ ctr' = ctr
              /\ progress' \in [n : Int, lost : Int, stop : BOOLEAN]
              /\ RecoverUnchanged
            BY <1>3, <3>1
        <3>3. confirmed' \in SUBSET Int
            BY <1>1, <1>2, <3>1
        <3> QED
            BY <1>1, <2>3, <3>2, <3>3 DEF RecoverDelivered
    <2>4. CASE RecoverTerminal
        <3>1. [pass EXCEPT !.err = TRUE] \in Passes
            BY <1>1 DEF Passes
        <3>2. PICK n \in 1 .. Len(wal) :
                 RecordResolved(n, n, FALSE) /\ lost' = lost \union HeadEvents(n)
            BY <2>4 DEF RecoverTerminal
        <3>3. /\ wal' \in Seq(LogEntries) /\ pc' \in Phases /\ ctr' = ctr
              /\ progress' \in [n : Int, lost : Int, stop : BOOLEAN]
              /\ RecoverUnchanged
            <4>1. n \in Int /\ FALSE \in BOOLEAN
                OBVIOUS
            <4> QED
                BY <1>3, <3>2, <4>1
        <3>4. lost' \in SUBSET Int
            BY <1>1, <1>2, <3>2
        <3>5. pass' \in Passes /\ confirmed' \in SUBSET Int
            BY <1>1, <2>4, <3>1 DEF RecoverTerminal
        <3> QED
            BY <1>1, <3>3, <3>4, <3>5
    <2>5. ASSUME NEW from, NEW to \in Phases, NEW counters \in [Counters -> Int],
                 CountStep(from, to, counters)
          PROVE  Typed
        <3>1. /\ pc' \in Phases /\ ctr' \in [Counters -> Int]
              /\ pass' = pass /\ progress' = progress /\ RecoverUnchanged
              /\ wal' = wal /\ confirmed' = confirmed /\ lost' = lost
            BY <2>5 DEF CountStep, store
        <3> QED
            BY <1>1, <3>1
    <2>6. /\ {"failed", "recoveryFailed", "durableCurrent", "delivered"} \subseteq Counters
          /\ progress.lost \in Int /\ progress.n \in Int /\ -progress.n \in Int
          /\ "countRecoveryFailed" \in Phases /\ "countDurable" \in Phases
          /\ "countDelivered" \in Phases /\ "countOwned" \in Phases
        BY <1>1 DEF Counters, Phases
    <2>7. CASE CountFailed
        <3>1. Bump("failed", progress.lost) \in [Counters -> Int]
            BY <1>1, <2>6, PlusType DEF Bump
        <3> QED
            BY <2>5, <2>6, <2>7, <3>1 DEF CountFailed
    <2>8. CASE CountRecoveryFailed
        <3>1. Bump("recoveryFailed", progress.lost) \in [Counters -> Int]
            BY <1>1, <2>6, PlusType DEF Bump
        <3> QED
            BY <2>5, <2>6, <2>8, <3>1 DEF CountRecoveryFailed
    <2>9. CASE CountDurable
        <3>1. Bump("durableCurrent", -progress.n) \in [Counters -> Int]
            BY <1>1, <2>6, PlusType DEF Bump
        <3> QED
            BY <2>5, <2>6, <2>9, <3>1 DEF CountDurable
    <2>10. CASE CountDelivered
        <3>1. Bump("delivered", progress.n) \in [Counters -> Int]
            BY <1>1, <2>6, PlusType DEF Bump
        <3> QED
            BY <2>5, <2>6, <2>10, <3>1 DEF CountDelivered
    <2>11. CASE CountOwned
        <3>1. NoProgress \in [n : Int, lost : Int, stop : BOOLEAN]
            BY DEF NoProgress
        <3>2. CASE progress.stop
            BY <1>1, <2>11, <3>1, <3>2, RecoverReturnsType DEF CountOwned, store
        <3>3. CASE ~progress.stop
            BY <1>1, <2>11, <3>1, <3>3, RecoveryOwnedType DEF CountOwned, store, Phases
        <3> QED
            BY <3>2, <3>3
    <2> QED
        BY <2>1, <2>2, <2>3, <2>4, <2>7, <2>8, <2>9, <2>10, <2>11 DEF Recover
<1> QED
    BY <1>4 DEF TypeOK, RecoverUnchanged, LoopUnchanged, job

Select == LoopStop \/ LoopEvent \/ LoopTick \/ LoopFlush

\* The pass that the select starts has the type of a pass.
LEMMA StartPassType ==
    ASSUME NEW purpose \in Purposes, NEW f \in Flushers \union {NoFlusher},
           StartPass(purpose, f)
    PROVE  pc' \in Phases /\ pass' \in Passes
<1>1. [NoPass EXCEPT !.purpose = purpose, !.serving = f] \in Passes
    BY DEF NoPass, Passes
<1> QED
    BY <1>1 DEF StartPass, Phases

\* Each case of the select of the loop (batcher.go:255-299) keeps the types.
LEMMA SelectType == ASSUME TypeOK, Select PROVE TypeOK'
<1> DEFINE Typed == /\ events' \in Seq(Int) /\ flushRequests' \in Seq(Flushers)
                    /\ pending' \in Seq(Int)
                    /\ flusher' \in [Flushers -> FlushCalls]
                    /\ pc' \in Phases /\ pass' \in Passes
                    /\ UNCHANGED <<ctr, doneClosed, progress, job, store>>
                    /\ LoopUnchanged
<1>1. /\ events \in Seq(Int) /\ flushRequests \in Seq(Flushers)
      /\ pending \in Seq(Int) /\ flusher \in [Flushers -> FlushCalls]
      /\ pc \in Phases /\ pass \in Passes
    BY DEF TypeOK
<1>2. {"size", "tick", "flush", "finish"} \subseteq Purposes
    BY DEF Purposes
<1>3. CASE LoopStop
    <2>1. pc' \in Phases /\ pass' \in Passes
        BY <1>2, <1>3, StartPassType DEF LoopStop
    <2> QED
        BY <1>1, <1>3, <2>1 DEF LoopStop, TypeOK, LoopUnchanged, job, store
<1>4. CASE LoopTick
    <2>1. pc' \in Phases /\ pass' \in Passes
        BY <1>2, <1>4, StartPassType DEF LoopTick
    <2> QED
        BY <1>1, <1>4, <2>1 DEF LoopTick, TypeOK, LoopUnchanged, job, store
<1>5. CASE LoopEvent
    <2>1. pc' \in Phases /\ pass' \in Passes
        BY <1>1, <1>2, <1>5, StartPassType DEF LoopEvent
    <2>2. events' \in Seq(Int) /\ pending' \in Seq(Int)
        BY <1>1, <1>5 DEF LoopEvent
    <2> QED
        BY <1>1, <1>5, <2>1, <2>2 DEF LoopEvent, TypeOK, LoopUnchanged, job, store
<1>6. CASE LoopFlush
    <2>1. Head(flushRequests) \in Flushers /\ flushRequests' \in Seq(Flushers)
        BY <1>1, <1>6 DEF LoopFlush
    <2>2. pc' \in Phases /\ pass' \in Passes
        BY <1>2, <1>6, <2>1, StartPassType DEF LoopFlush
    <2>3. events' \in Seq(Int) /\ pending' \in Seq(Int)
        BY <1>6, DrainLengths DEF LoopFlush
    <2>4. flusher' \in [Flushers -> FlushCalls]
        <3> DEFINE f == Head(flushRequests)
        <3>1. flusher[f] \in FlushCalls
            BY <1>1, <2>1
        <3>2. flusher[f].mark \in SUBSET Int /\ flusher[f].due \in SUBSET Int
            BY <3>1 DEF FlushCalls
        <3>3. flusher[f].due \union (flusher[f].mark \cap Unresolved) \in SUBSET Int
            BY <3>2
        <3>4. [flusher[f] EXCEPT !.due = @ \union (flusher[f].mark \cap Unresolved)]
                \in FlushCalls
            BY <3>1, <3>3 DEF FlushCalls
        <3>5. flusher' = [flusher EXCEPT ![f].due =
                            @ \union (flusher[f].mark \cap Unresolved)]
            BY <1>6 DEF LoopFlush
        <3> QED
            BY <1>1, <2>1, <3>4, <3>5
    <2> QED
        BY <1>1, <1>6, <2>1, <2>2, <2>3, <2>4 DEF LoopFlush, TypeOK, LoopUnchanged, job, store
<1> QED
    BY <1>3, <1>4, <1>5, <1>6 DEF Select

\* Answering a Flush call keeps the type of the calls.
LEMMA AnswerType ==
    ASSUME TypeOK, NEW f \in Flushers \union {NoFlusher}, NEW reply \in Replies
    PROVE  Answer(f, reply) \in [Flushers -> FlushCalls]
<1>1. flusher \in [Flushers -> FlushCalls]
    BY DEF TypeOK
<1>2. CASE f = NoFlusher
    BY <1>1, <1>2 DEF Answer
<1>3. CASE f # NoFlusher
    <2>1. f \in Flushers /\ flusher[f] \in FlushCalls
        BY <1>1, <1>3
    <2>2. [flusher[f] EXCEPT !.reply = reply] \in FlushCalls
        BY <2>1 DEF FlushCalls
    <2> QED
        BY <1>1, <1>3, <2>1, <2>2 DEF Answer
<1> QED
    BY <1>2, <1>3

\* The return to the select, with the answer to the Flush call, keeps the
\* types.
LEMMA EndPassType ==
    ASSUME TypeOK, EndPass
    PROVE  pc' \in Phases /\ pass' \in Passes /\ flusher' \in [Flushers -> FlushCalls]
<1>1. pass.serving \in Flushers \union {NoFlusher}
    BY DEF TypeOK, Passes
<1>2. flusher' \in [Flushers -> FlushCalls]
    <2>1. (IF pass.err THEN "error" ELSE "nil") \in Replies
        BY DEF Replies
    <2> QED
        BY <1>1, <2>1, AnswerType DEF EndPass
<1>3. NoPass \in Passes
    BY DEF NoPass, Passes, Purposes
<1> QED
    BY <1>2, <1>3 DEF EndPass, Phases

\* What finish drains before a chunk is still a sequence of events, and none
\* is lost by number.
LEMMA WaitingLengths ==
    ASSUME TypeOK
    PROVE  /\ Waiting \in Seq(Int) /\ Undrained \in Seq(Int)
           /\ Len(Waiting) + Len(Undrained) = Len(pending) + Len(events)
           /\ Len(Undrained) <= Len(events)
<1>1. events \in Seq(Int) /\ pending \in Seq(Int)
    BY DEF TypeOK
<1>2. CASE pass.purpose = "finish"
    <2>1. /\ Drained \in Seq(Int) /\ Suffix(events, DrainCount) \in Seq(Int)
          /\ Len(Drained) = Len(pending) + DrainCount
          /\ Len(Suffix(events, DrainCount)) = Len(events) - DrainCount
          /\ DrainCount \in 0 .. Len(events)
        BY DrainLengths
    <2>2. Waiting = Drained /\ Undrained = Suffix(events, DrainCount)
        BY <1>2 DEF Waiting, Undrained
    <2>3. Len(events) \in Nat /\ Len(pending) \in Nat
        BY <1>1
    <2>4. Len(Waiting) = Len(pending) + DrainCount /\ Len(Undrained) = Len(events) - DrainCount
        BY <2>1, <2>2
    <2>5. Waiting \in Seq(Int) /\ Undrained \in Seq(Int)
        BY <2>1, <2>2
    <2>6. Len(Waiting) + Len(Undrained) = Len(pending) + Len(events)
          /\ Len(Undrained) <= Len(events)
        BY <2>1, <2>3, <2>4
    <2> QED
        BY <2>5, <2>6
<1>3. CASE pass.purpose # "finish"
    BY <1>1, <1>3 DEF Waiting, Undrained
<1> QED
    BY <1>2, <1>3

\* Cutting pending into chunks (batcher.go:331-404) keeps the types.
LEMMA SendChunksType == ASSUME TypeOK, SendChunks PROVE TypeOK'
<1>1. /\ events \in Seq(Int) /\ pending \in Seq(Int) /\ chunk \in Seq(Int)
      /\ flusher \in [Flushers -> FlushCalls] /\ pass \in Passes /\ pc \in Phases
    BY DEF TypeOK
<1>2. CASE PassBlocked
    BY <1>2, EndPassType DEF PassBlocked, TypeOK, LoopUnchanged, job, store
<1>3. CASE PersistPending
    <2>1. [pass EXCEPT !.purpose = "persist"] \in Passes
        BY <1>1 DEF Passes, Purposes
    <2>2. events' \in Seq(Int) /\ pending' \in Seq(Int)
        BY <1>3, DrainLengths DEF PersistPending
    <2>3. pc' \in Phases /\ pass' \in Passes
        BY <1>3, <2>1 DEF PersistPending, Phases
    <2> QED
        BY <1>3, <2>2, <2>3 DEF PersistPending, TypeOK, LoopUnchanged, job, store
<1>4. CASE StartChunks
    <2>1. events' \in Seq(Int) /\ pending' \in Seq(Int)
        BY <1>1, <1>4, DrainLengths DEF StartChunks
    <2>2. pc' \in Phases
        BY <1>4 DEF StartChunks, Phases
    <2> QED
        BY <1>4, <2>1, <2>2 DEF StartChunks, TypeOK, LoopUnchanged, job, store
<1>5. CASE NextChunk
    <2> DEFINE size == Least(FlushSize, Len(Waiting))
    <2>1. size \in 0 .. Len(Waiting)
        BY WaitingLengths, ConfigAssumption DEF Least
    <2>2. chunk' \in Seq(Int) /\ pending' \in Seq(Int) /\ ends' \in Seq(Nat)
        <3>1. chunk' = Prefix(Waiting, size) /\ pending' = Suffix(Waiting, size)
              /\ ends' = <<size>>
            BY <1>5 DEF NextChunk
        <3>2. Prefix(Waiting, size) \in Seq(Int) /\ Suffix(Waiting, size) \in Seq(Int)
            BY <2>1, WaitingLengths, SplitLengths
        <3>3. <<size>> \in Seq(Nat)
            BY <2>1, WaitingLengths
        <3> QED
            BY <3>1, <3>2, <3>3
    <2>3. events' \in Seq(Int)
        BY <1>5, WaitingLengths DEF NextChunk
    <2>4. settled' \in Nat /\ sendsLeft' \in Nat /\ pc' \in Phases
        BY <1>5, ConfigAssumption DEF NextChunk, Phases
    <2> QED
        BY <1>5, <2>2, <2>3, <2>4 DEF NextChunk, TypeOK, LoopUnchanged, store
<1>6. CASE NoMoreChunks
    <2>1. pc' \in Phases /\ pass' \in Passes /\ flusher' \in [Flushers -> FlushCalls]
        <3>1. CASE pass.purpose \in {"finish", "persist"}
            <4>1. NoPass \in Passes
                BY DEF NoPass, Passes, Purposes
            <4> QED
                BY <1>1, <1>6, <3>1, <4>1 DEF NoMoreChunks, Phases
        <3>2. CASE pass.purpose \notin {"finish", "persist"}
            BY <1>6, <3>2, EndPassType DEF NoMoreChunks
        <3> QED
            BY <3>1, <3>2
    <2> QED
        BY <1>6, <2>1 DEF NoMoreChunks, TypeOK, LoopUnchanged, job, store
<1> QED
    BY <1>2, <1>3, <1>4, <1>5, <1>6 DEF SendChunks

\* The exit of the loop keeps the types.
LEMMA ExitType == ASSUME TypeOK, Exit PROVE TypeOK'
<1>1. flushRequests \in Seq(Flushers)
    BY DEF TypeOK
<1>2. CASE ReplyPendingFlush
    <2>1. Head(flushRequests) \in Flushers /\ flushRequests' \in Seq(Flushers)
        BY <1>1, <1>2 DEF ReplyPendingFlush
    <2>2. flusher' \in [Flushers -> FlushCalls]
        BY <1>2, <2>1, AnswerType DEF ReplyPendingFlush, Replies
    <2> QED
        BY <1>2, <2>1, <2>2 DEF ReplyPendingFlush, ExitUnchanged, TypeOK, LoopUnchanged, job, store
<1>3. CASE NoPendingFlush
    <2>1. pc' \in Phases
        BY <1>3 DEF NoPendingFlush, Phases
    <2> QED
        BY <1>3, <2>1 DEF NoPendingFlush, ExitUnchanged, TypeOK, LoopUnchanged, job, store
<1>4. CASE CloseDone
    <2>1. pc' \in Phases /\ doneClosed' \in BOOLEAN
        BY <1>4 DEF CloseDone, Phases
    <2> QED
        BY <1>4, <2>1 DEF CloseDone, ExitUnchanged, TypeOK, LoopUnchanged, job, store
<1> QED
    BY <1>2, <1>3, <1>4 DEF Exit

\* The current piece is a non-empty part of the chunk.
LEMMA CurrentPiece ==
    ASSUME TypeOK, JobOK, pc \in Sends
    PROVE  /\ ends # <<>> /\ Head(ends) = ends[1] /\ Head(ends) \in Nat
           /\ settled < Head(ends) /\ Head(ends) <= Len(chunk)
           /\ PieceSize \in Nat \ {0} /\ Len(chunk) \in Nat /\ Len(ends) \in Nat \ {0}
<1>1. ends \in Seq(Nat) /\ chunk \in Seq(Int) /\ settled \in Nat
    BY DEF TypeOK
<1>2. ends # <<>> /\ settled < ends[1] /\ ends[Len(ends)] = Len(chunk)
    BY DEF JobOK
<1>3. Len(ends) \in Nat \ {0} /\ Head(ends) = ends[1] /\ ends[1] \in Nat /\ Len(chunk) \in Nat
    BY <1>1, <1>2
<1>4. ends[1] <= Len(chunk)
    <2>1. CASE Len(ends) = 1
        BY <1>2, <1>3, <2>1
    <2>2. CASE Len(ends) # 1
        <3>1. 1 \in 1 .. Len(ends) /\ Len(ends) \in 1 .. Len(ends) /\ 1 < Len(ends)
            BY <1>3, <2>2
        <3>2. ends[1] < ends[Len(ends)]
            BY <3>1 DEF JobOK
        <3> QED
            BY <1>2, <1>3, <3>2
    <2> QED
        BY <2>1, <2>2
<1> QED
    BY <1>1, <1>2, <1>3, <1>4 DEF PieceSize

\* The piece being delivered is a sequence of events, and so are its records
\* in the log.
LEMMA PieceType ==
    ASSUME TypeOK, JobOK, pc \in Sends
    PROVE  /\ Piece \in Seq(Int) /\ Len(Piece) = PieceSize
           /\ EventsOf(Piece) \in SUBSET Int
           /\ Put \in Seq(LogEntries) /\ Len(Put) = Len(wal) + PieceSize
<1>1. chunk \in Seq(Int) /\ settled \in Nat /\ wal \in Seq(LogEntries)
    BY DEF TypeOK
<1>2. Piece \in Seq(Int) /\ Len(Piece) = PieceSize /\ PieceSize \in Nat \ {0}
    BY <1>1, CurrentPiece DEF Piece, PieceSize
<1>3. \A i \in 1 .. Len(Piece) : Piece[i] \in Int
    BY <1>2
<1>4. EventsOf(Piece) \in SUBSET Int
    BY <1>3 DEF EventsOf
<1>5. AsRecord(Piece) \in Seq(LogEntries) /\ Len(AsRecord(Piece)) = PieceSize
    <2>1. \A i \in 1 .. Len(Piece) : Entry(Piece[i], Piece[1]) \in LogEntries
        BY <1>2, <1>3 DEF Entry, LogEntries
    <2> QED
        BY <1>2, <2>1 DEF AsRecord
<1>6. Put \in Seq(LogEntries) /\ Len(Put) = Len(wal) + PieceSize
    BY <1>1, <1>5, ConcatLengths DEF Put
<1> QED
    BY <1>2, <1>4, <1>6

\* The halves of a piece take its place, in order.
LEMMA HalvesType ==
    ASSUME TypeOK, JobOK, pc = "deliver", PieceSize > 1
    PROVE  /\ Halves \in Seq(Nat) /\ Len(Halves) = Len(ends) + 1
           /\ settled < Halves[1] /\ Halves[1] < ends[1]
           /\ \A i \in 1 .. Len(ends) : Halves[i + 1] = ends[i]
<1> DEFINE half == settled + (PieceSize \div 2)
<1>1. ends \in Seq(Nat) /\ settled \in Nat /\ PieceSize \in Nat
      /\ Head(ends) = ends[1] /\ Head(ends) \in Nat /\ PieceSize = Head(ends) - settled
    BY CurrentPiece DEF TypeOK, Sends, PieceSize
<1>2. PieceSize \div 2 \in Nat /\ 1 <= PieceSize \div 2 /\ PieceSize \div 2 < PieceSize
    BY <1>1
<1>3. half \in Nat /\ settled < half /\ half < ends[1]
    BY <1>1, <1>2
<1>4. <<half>> \in Seq(Nat) /\ Len(<<half>>) = 1 /\ <<half>>[1] = half
    BY <1>3
<1> HIDE DEF half
<1>5. Halves = <<half>> \o ends
    BY DEF Halves, half
<1> QED
    BY <1>1, <1>3, <1>4, <1>5

\* Delivering, splitting and settling a piece (batcher.go:484-541) keeps the
\* types; JobOK says that there is a next piece end to take.
LEMMA DeliverType == ASSUME TypeOK, JobOK, Deliver PROVE TypeOK'
<1>1. /\ ctr \in [Counters -> Int] /\ pass \in Passes /\ pc \in Phases
      /\ chunk \in Seq(Int) /\ settled \in Nat /\ ends \in Seq(Nat) /\ sendsLeft \in Nat
      /\ confirmed \in SUBSET Int /\ lost \in SUBSET Int /\ wal \in Seq(LogEntries)
    BY DEF TypeOK
<1>2. ASSUME pc \in {"deliver", "persist"}, sendsLeft' \in Nat,
             NEW f \in {"delivered", "retained", "lost"}, NEW err \in BOOLEAN,
             Resolve(f, err)
      PROVE  TypeOK'
    <2>1. [pass EXCEPT !.err = @ \/ err] \in Passes
        BY <1>1 DEF Passes
    <2>2. pc \in Sends
        BY <1>2 DEF Sends
    <2>3. /\ wal' \in Seq(LogEntries) /\ confirmed' \in SUBSET Int /\ lost' \in SUBSET Int
        BY <1>1, <1>2, <2>2, PieceType DEF Resolve
    <2>4. /\ pc' \in Phases /\ pass' \in Passes
          /\ fate' \in {"none", "delivered", "retained", "lost"}
          /\ UNCHANGED <<ctr, chunk, settled, ends>>
          /\ DeliverUnchanged
        BY <1>2, <2>1 DEF Resolve, FirstErr, Phases
    <2> QED
        BY <1>2, <2>3, <2>4 DEF TypeOK, DeliverUnchanged, LoopUnchanged
<1>3. Sending => pc \in {"deliver", "persist"} /\ sendsLeft' \in Nat
    BY <1>1 DEF Sending
<1>4. CASE SplitLimit
    BY <1>1, <1>2, <1>4 DEF SplitLimit
<1>5. CASE SendDelivered
    <2>1. PICK warned \in {FALSE, Durable} : Resolve("delivered", warned)
        BY <1>5 DEF SendDelivered
    <2>2. warned \in BOOLEAN
        BY ConfigAssumption
    <2> QED
        BY <1>2, <1>3, <1>5, <2>1, <2>2 DEF SendDelivered
<1>6. CASE SendTerminal
    BY <1>2, <1>3, <1>6 DEF SendTerminal
<1>7. CASE SendSplit
    <2>1. ends' \in Seq(Nat)
        BY <1>7, HalvesType DEF SendSplit, Sending
    <2>2. sendsLeft' \in Nat
        BY <1>3, <1>7 DEF SendSplit
    <2>3. UNCHANGED <<ctr, pc, pass, chunk, settled, fate, store>> /\ DeliverUnchanged
        BY <1>7 DEF SendSplit
    <2> QED
        BY <2>1, <2>2, <2>3 DEF TypeOK, DeliverUnchanged, LoopUnchanged, store
<1>8. CASE SendRetained
    BY <1>2, <1>3, <1>8 DEF SendRetained
<1>9. CASE SendFailed
    BY <1>2, <1>3, <1>9 DEF SendFailed
<1>10. CASE SendUnstored
    BY <1>2, <1>3, <1>10 DEF SendUnstored
<1>11. CASE Persisted
    BY <1>1, <1>2, <1>11 DEF Persisted
<1>12. CASE NotPersisted
    BY <1>1, <1>2, <1>12 DEF NotPersisted
<1>13. CASE Settle
    <2>1. pc \in Sends
        BY <1>13 DEF Settle, Sends
    <2>2. ctr' \in [Counters -> Int]
        <3>1. "unsent" \in Counters /\ -PieceSize \in Int
            BY <2>1, CurrentPiece DEF Counters
        <3> QED
            BY <1>1, <1>13, <3>1, PlusType DEF Settle, Release, Bump
    <2>3. pc' \in Phases /\ UNCHANGED <<pass, job, store>> /\ DeliverUnchanged
        BY <1>13 DEF Settle, Phases
    <2> QED
        BY <2>2, <2>3 DEF TypeOK, DeliverUnchanged, LoopUnchanged, job, store
<1>14. CASE Account
    <2>1. pc \in Sends
        BY <1>14 DEF Account, Sends
    <2>2. ctr' \in [Counters -> Int]
        <3>1. OutcomeCounter \in Counters
            BY DEF OutcomeCounter, Counters
        <3>2. PieceSize \in Int
            BY <2>1, CurrentPiece
        <3> QED
            BY <1>1, <1>14, <3>1, <3>2, PlusType DEF Account, Bump
    <2>3. ends' \in Seq(Nat) /\ settled' \in Nat /\ sendsLeft' \in Nat /\ chunk' \in Seq(Int)
        BY <1>1, <1>14, <2>1, CurrentPiece DEF Account
    <2>4. NoPass \in Passes
        BY DEF NoPass, Passes, Purposes
    <2>5. /\ pc' \in Phases /\ pass' \in Passes
          /\ fate' \in {"none", "delivered", "retained", "lost"}
          /\ UNCHANGED store /\ DeliverUnchanged
        BY <1>1, <1>14, <2>4 DEF Account, Phases
    <2> QED
        BY <2>2, <2>3, <2>5 DEF TypeOK, DeliverUnchanged, LoopUnchanged, store
<1> QED
    BY <1>4, <1>5, <1>6, <1>7, <1>8, <1>9, <1>10, <1>11, <1>12, <1>13, <1>14 DEF Deliver

---------------------------------------------------------------------------
(* The queue: QueueInv and UnsentAccounted are preserved together *)

IInv == TypeOK /\ QueueInv /\ UnsentAccounted

\* JobOK depends on chunk, pieces, pass and pc alone.
LEMMA JobKept ==
    ASSUME JobOK, UNCHANGED <<pc, pass, ends, chunk, settled>>
    PROVE  JobOK'
BY DEF JobOK

\* LogCounted depends on the log and on the two counters that divide it.
LEMMA LogKept ==
    ASSUME LogCounted, UNCHANGED <<pc, pass, job, progress, wal>>,
           ctr'.recoveryOwned = ctr.recoveryOwned, ctr'.durableCurrent = ctr.durableCurrent
    PROVE  LogCounted'
BY DEF LogCounted, InTransit, PieceSize, job

\* CallOK depends on the enqueueing call alone.
LEMMA CallKept == ASSUME CallOK, UNCHANGED track PROVE CallOK'
BY DEF CallOK

\* Unsettled is the size of what follows the current piece, or starts with it.
LEMMA UnsettledType ==
    ASSUME TypeOK, JobOK
    PROVE  Unsettled \in Nat
<1>1. CASE pc \in Sends
    <2>1. settled \in Nat
        BY DEF TypeOK
    <2> QED
        BY <1>1, <2>1, CurrentPiece DEF Unsettled
<1>2. CASE pc \notin Sends
    BY <1>2 DEF Unsettled, JobOK
<1> QED
    BY <1>1, <1>2

\* The enqueueing call keeps the invariant: its compare-and-swap on unsent
\* makes the bound it loaded sufficient, however stale the other two counters
\* are.
LEMMA TrackInv == ASSUME IInv, Reject \/ Track PROVE IInv'
<1>1. TypeOK /\ JobOK /\ LogCounted /\ CallOK /\ UnsentAccounted
    BY DEF IInv, QueueInv
<1>2. /\ ctr \in [Counters -> Int] /\ track \in TrackCalls
      /\ events \in Seq(Int) /\ pending \in Seq(Int)
    BY <1>1 DEF TypeOK
<1>3. /\ ctr.unsent \in Int /\ ctr.recoveryOwned \in Int /\ ctr.durableCurrent \in Int
      /\ ctr.recoveryOwned >= 0 /\ ctr.durableCurrent >= 0
      /\ track.unsent \in Int /\ track.total \in Int /\ QueueLimit \in Int
    BY <1>1, <1>2, CounterTypes, ConfigAssumption DEF LogCounted, TrackCalls
<1>4. TypeOK'
    BY <1>1, TrackType
<1>5. /\ UNCHANGED <<pc, pass, job, progress, wal, pending, ends, chunk, settled>>
    <2>1. TrackUnchanged
        BY DEF Reject, Track, TrackBegin, TrackLoadOwned, TrackAdmit, TrackReserve,
           TrackSend, TrackCount
    <2> QED
        BY <2>1 DEF TrackUnchanged, loop, job, store
<1>6. JobOK'
    BY <1>1, <1>5, JobKept
<1>7. Unsettled' = Unsettled
    BY <1>5 DEF Unsettled
<1> DEFINE Keeps == /\ CallOK' /\ UnsentAccounted'
                    /\ ctr'.recoveryOwned = ctr.recoveryOwned
                    /\ ctr'.durableCurrent = ctr.durableCurrent
<1>8. \A c \in {"rejected", "dropped", "enqueued"} :
        ctr' = Bump(c, 1) => /\ ctr'.unsent = ctr.unsent
                             /\ ctr'.recoveryOwned = ctr.recoveryOwned
                             /\ ctr'.durableCurrent = ctr.durableCurrent
    BY <1>2 DEF Bump, Plus, Counters
<1>9. CASE Reject
    <2>1. /\ ctr'.unsent = ctr.unsent /\ ctr'.recoveryOwned = ctr.recoveryOwned
          /\ ctr'.durableCurrent = ctr.durableCurrent
          /\ UNCHANGED <<events, track>>
        BY <1>8, <1>9 DEF Reject
    <2> QED
        BY <1>1, <1>4, <1>5, <1>6, <1>7, <2>1, LogKept, CallKept
           DEF UnsentAccounted, IInv, QueueInv
<1>10. ASSUME TrackBegin PROVE Keeps
    BY <1>1, <1>2, <1>3, <1>5, <1>7, <1>10
       DEF TrackBegin, LoadedUnsent, CallOK, UnsentAccounted
<1>11. ASSUME TrackLoadOwned PROVE Keeps
    BY <1>1, <1>2, <1>3, <1>5, <1>7, <1>11 DEF TrackLoadOwned, CallOK, UnsentAccounted
<1>12. ASSUME TrackAdmit PROVE Keeps
    <2>1. CASE track.total + ctr.durableCurrent >= QueueLimit
        <3>1. /\ ctr' = Bump("dropped", 1) /\ track' = IdleTrack /\ events' = events
              /\ track.pc = "durable"
            BY <1>12, <2>1 DEF TrackAdmit
        <3>2. /\ ctr'.unsent = ctr.unsent /\ ctr'.recoveryOwned = ctr.recoveryOwned
              /\ ctr'.durableCurrent = ctr.durableCurrent
            BY <1>8, <3>1
        <3> QED
            BY <1>1, <1>5, <1>7, <3>1, <3>2 DEF IdleTrack, CallOK, UnsentAccounted
    <2>2. CASE ~(track.total + ctr.durableCurrent >= QueueLimit)
        <3>1. /\ ctr' = ctr /\ track' = [track EXCEPT !.pc = "cas"] /\ events' = events
              /\ track.pc = "durable"
            BY <1>12, <2>2 DEF TrackAdmit
        <3>2. track'.pc = "cas" /\ track'.unsent = track.unsent
            BY <1>2, <3>1 DEF TrackCalls
        <3>3. track.unsent < QueueLimit
            BY <1>1, <1>3, <2>2, <3>1 DEF CallOK
        <3> QED
            BY <1>1, <1>5, <1>7, <3>1, <3>2, <3>3 DEF CallOK, UnsentAccounted
    <2> QED
        BY <2>1, <2>2
<1>13. ASSUME TrackReserve PROVE Keeps
    <2>1. CASE ctr.unsent = track.unsent
        <3>1. /\ ctr' = Bump("unsent", 1) /\ track' = [IdleTrack EXCEPT !.pc = "send"]
              /\ events' = events /\ track.pc = "cas"
            BY <1>13, <2>1 DEF TrackReserve, Reserved
        <3>2. /\ ctr'.unsent = ctr.unsent + 1 /\ ctr'.recoveryOwned = ctr.recoveryOwned
              /\ ctr'.durableCurrent = ctr.durableCurrent
            BY <1>2, <3>1 DEF Bump, Plus, Counters
        <3>3. track'.pc = "send"
            BY <3>1 DEF IdleTrack
        <3>4. ctr.unsent < QueueLimit
            BY <1>1, <2>1, <3>1 DEF CallOK
        <3>5. UnsentAccounted'
            BY <1>1, <1>2, <1>3, <1>5, <1>7, <3>1, <3>2, <3>3, <3>4, UnsettledType
               DEF UnsentAccounted
        <3> QED
            BY <3>2, <3>3, <3>5 DEF CallOK
    <2>2. CASE ctr.unsent # track.unsent
        BY <1>1, <1>2, <1>3, <1>5, <1>7, <1>13, <2>2
           DEF TrackReserve, LoadedUnsent, CallOK, UnsentAccounted
    <2> QED
        BY <2>1, <2>2
<1>14. ASSUME TrackSend PROVE Keeps
    <2>1. CASE Len(events) < QueueLimit
        <3>1. /\ ctr' = ctr /\ track' = [track EXCEPT !.pc = "count"]
              /\ events' = Append(events, ctr.enqueued + 1) /\ track.pc = "send"
            BY <1>14, <2>1 DEF TrackSend
        <3>2. track'.pc = "count" /\ Len(events') = Len(events) + 1
            BY <1>2, <3>1 DEF TrackCalls
        <3>3. UnsentAccounted'
            BY <1>1, <1>2, <1>3, <1>5, <1>7, <3>1, <3>2, UnsettledType DEF UnsentAccounted
        <3> QED
            BY <3>1, <3>2, <3>3 DEF CallOK
    <2>2. CASE ~(Len(events) < QueueLimit)
        <3>1. /\ ctr' = Plus(Bump("unsent", -1), "dropped", 1) /\ track' = IdleTrack
              /\ events' = events /\ track.pc = "send"
            BY <1>14, <2>2 DEF TrackSend
        <3>2. /\ ctr'.unsent = ctr.unsent - 1 /\ ctr'.recoveryOwned = ctr.recoveryOwned
              /\ ctr'.durableCurrent = ctr.durableCurrent
            BY <1>2, <3>1 DEF Bump, Plus, Counters
        <3>3. track'.pc = "idle"
            BY <3>1 DEF IdleTrack
        <3>4. UnsentAccounted'
            BY <1>1, <1>2, <1>3, <1>5, <1>7, <3>1, <3>2, <3>3, UnsettledType
               DEF UnsentAccounted
        <3> QED
            BY <3>2, <3>3, <3>4 DEF CallOK
    <2> QED
        BY <2>1, <2>2
<1>15. ASSUME TrackCount PROVE Keeps
    <2>1. /\ ctr' = Bump("enqueued", 1) /\ track' = IdleTrack /\ events' = events
          /\ track.pc = "count"
        BY <1>15 DEF TrackCount
    <2>2. /\ ctr'.unsent = ctr.unsent /\ ctr'.recoveryOwned = ctr.recoveryOwned
          /\ ctr'.durableCurrent = ctr.durableCurrent
        BY <1>8, <2>1
    <2> QED
        BY <1>1, <1>5, <1>7, <2>1, <2>2 DEF IdleTrack, CallOK, UnsentAccounted
<1>16. CASE Track
    <2>1. Keeps
        BY <1>10, <1>11, <1>12, <1>13, <1>14, <1>15, <1>16 DEF Track
    <2> QED
        BY <1>1, <1>4, <1>5, <1>6, <2>1, LogKept DEF IInv, QueueInv
<1> QED
    BY <1>9, <1>16

\* Flush, Shutdown and the loop's exit do not touch the queue.
LEMMA CallersInv ==
    ASSUME IInv, TypeOK',
           UNCHANGED <<ctr, events, pending, track, pc, pass, job, progress, wal>>
    PROVE  IInv'
<1>1. UNCHANGED <<ends, chunk, settled>>
    BY DEF job
<1>2. JobOK' /\ LogCounted' /\ CallOK'
    BY <1>1, JobKept, LogKept, CallKept DEF IInv, QueueInv
<1>3. UnsentAccounted'
    BY <1>1 DEF IInv, UnsentAccounted, Unsettled
<1> QED
    BY <1>2, <1>3 DEF IInv, QueueInv

\* drainChannel moves events from the channel to pending, and keeps their number.
LEMMA DrainKeeps ==
    ASSUME TypeOK, pending' = Drained, events' = Suffix(events, DrainCount)
    PROVE  Len(events') + Len(pending') = Len(events) + Len(pending)
<1>1. events \in Seq(Int) /\ pending \in Seq(Int)
    BY DEF TypeOK
<1>2. DrainCount \in 0 .. Len(events) /\ Len(pending') = Len(pending) + DrainCount
      /\ Len(events') = Len(events) - DrainCount
    BY DrainLengths
<1>3. Len(events) \in Nat /\ Len(pending) \in Nat
    BY <1>1
<1> QED
    BY <1>2, <1>3

\* Moving events between channel and pending does not change their number.
LEMMA UnsentKept ==
    ASSUME UnsentAccounted, Len(events') + Len(pending') = Len(events) + Len(pending),
           Unsettled' = Unsettled, ctr'.unsent = ctr.unsent, UNCHANGED track, TypeOK, TypeOK'
    PROVE  UnsentAccounted'
<1>1. /\ Len(events) \in Nat /\ Len(pending) \in Nat
      /\ Len(events') \in Nat /\ Len(pending') \in Nat
    <2>1. events \in Seq(Int) /\ pending \in Seq(Int)
        BY DEF TypeOK
    <2>2. events' \in Seq(Int) /\ pending' \in Seq(Int)
        BY DEF TypeOK
    <2> QED
        BY <2>1, <2>2
<1>2. Len(events') + Len(pending') = Len(events) + Len(pending)
    OBVIOUS
<1> QED
    BY <1>1, <1>2 DEF UnsentAccounted

\* Each case of the select keeps the invariant: events move from channel to
\* pending, and no counter changes.
LEMMA SelectInv == ASSUME IInv, Select PROVE IInv'
<1>1. TypeOK /\ JobOK /\ LogCounted /\ CallOK /\ UnsentAccounted
    BY DEF IInv, QueueInv
<1>2. TypeOK'
    BY <1>1, SelectType
<1>3. /\ pc = "select" /\ UNCHANGED <<ctr, progress, ends, chunk, settled, fate, wal, track>>
      /\ \/ UNCHANGED <<pc, pass>>
         \/ pc' = "recover" /\ pass'.purpose \in {"size", "tick", "flush", "finish"}
    <2>1. ASSUME NEW purpose \in {"size", "tick", "flush", "finish"}, NEW f,
                 StartPass(purpose, f)
          PROVE  pc' = "recover" /\ pass'.purpose \in {"size", "tick", "flush", "finish"}
        BY <2>1 DEF StartPass, NoPass
    <2>2. CASE LoopStop
        BY <2>1, <2>2 DEF LoopStop, LoopUnchanged, job, store
    <2>3. CASE LoopTick
        BY <2>1, <2>3 DEF LoopTick, LoopUnchanged, job, store
    <2>4. CASE LoopEvent
        BY <2>1, <2>4 DEF LoopEvent, LoopUnchanged, job, store
    <2>5. CASE LoopFlush
        <3>1. StartPass("flush", Head(flushRequests))
            BY <2>5 DEF LoopFlush
        <3> QED
            BY <2>1, <2>5, <3>1 DEF LoopFlush, LoopUnchanged, job, store
    <2> QED
        BY <2>2, <2>3, <2>4, <2>5 DEF Select
<1>4. JobOK'
    BY <1>1, <1>3 DEF JobOK, Sends
<1>5. LogCounted'
    <2>1. CASE UNCHANGED <<pc, pass>>
        BY <1>1, <1>3, <2>1 DEF LogCounted, InTransit, PieceSize
    <2>2. CASE pc' = "recover"
        <3>1. InTransit = 0 /\ InTransit' = 0
            BY <1>3, <2>2 DEF InTransit, Counts
        <3>2. \/ ctr.recoveryOwned = 0 \/ ctr.durableCurrent = 0
            BY <1>1, <1>3 DEF LogCounted, JobOK, Sends
        <3> QED
            BY <1>1, <1>3, <2>2, <3>1, <3>2 DEF LogCounted, Counts, Sends
    <2> QED
        BY <1>3, <2>1, <2>2
<1>6. CallOK'
    BY <1>1, <1>3, CallKept
<1>7. UnsentAccounted'
    <2>1. Unsettled' = Unsettled
        BY <1>1, <1>3 DEF Unsettled, JobOK, Sends
    <2>2. Len(events') + Len(pending') = Len(events) + Len(pending)
        <3>1. events \in Seq(Int) /\ pending \in Seq(Int)
            BY <1>1 DEF TypeOK
        <3>2. CASE LoopStop
            BY <3>2 DEF LoopStop
        <3>3. CASE LoopTick
            BY <3>3 DEF LoopTick
        <3>4. CASE LoopEvent
            <4>1. events # <<>> /\ events' = Tail(events)
                  /\ pending' = Append(pending, Head(events))
                BY <3>4 DEF LoopEvent
            <4> QED
                BY <3>1, <4>1
        <3>5. CASE LoopFlush
            BY <1>1, <3>5, DrainKeeps DEF LoopFlush
        <3> QED
            BY <3>2, <3>3, <3>4, <3>5 DEF Select
    <2> QED
        BY <1>1, <1>2, <1>3, <2>1, <2>2, UnsentKept
<1> QED
    BY <1>2, <1>4, <1>5, <1>6, <1>7 DEF IInv, QueueInv

\* Recovery keeps the invariant: while a record is accounted for, its events
\* are in transit between log and counters.
LEMMA RecoverInv == ASSUME IInv, Recover PROVE IInv'
<1>1. TypeOK /\ JobOK /\ LogCounted /\ CallOK /\ UnsentAccounted
    BY DEF IInv, QueueInv
<1>2. /\ TypeOK'
      /\ ctr \in [Counters -> Int] /\ wal \in Seq(LogEntries) /\ pass \in Passes
      /\ progress \in [n : Int, lost : Int, stop : BOOLEAN]
    BY <1>1, RecoverType DEF TypeOK
<1>3. /\ ctr.recoveryOwned \in Int /\ ctr.durableCurrent \in Int
      /\ Len(wal) \in Nat /\ progress.n \in Int /\ progress.lost \in Int
    BY <1>2, CounterTypes
<1>4. RecoverUnchanged /\ pc \in {"recover"} \union Counts
    BY DEF Recover, RecoverEnds, RecoverBlocked, RecoverDelivered, RecoverTerminal,
       RecordResolved, CountFailed, CountRecoveryFailed, CountDurable, CountDelivered,
       CountOwned, CountStep, Counts
<1>5. UNCHANGED <<ends, chunk, settled, fate, track, events, pending>>
    BY <1>4 DEF RecoverUnchanged, LoopUnchanged, job
<1>6. pass.purpose # "persist" /\ (ctr.recoveryOwned = 0 \/ ctr.durableCurrent = 0)
      /\ ends = <<>>
    BY <1>1, <1>4 DEF JobOK, LogCounted, Counts, Sends
\* what a step of the recovery may do to the counters and to the log
<1> DEFINE Steps == /\ ctr'.unsent = ctr.unsent
                    /\ pc' \in {"recover", "recovered"} \union Counts
                    /\ pass'.purpose # "persist"
                    /\ LogCounted'
<1>7. ASSUME NEW b \in BOOLEAN, RecoverReturns(b)
      PROVE  /\ pc' = "recovered" /\ pass'.purpose # "persist" /\ pass'.blocked = b
             /\ ctr' = RecoveryOwnedUpdated
    BY <1>2, <1>6, <1>7 DEF RecoverReturns, Passes
<1>8. /\ RecoveryOwnedUpdated.unsent = ctr.unsent
      /\ RecoveryOwnedUpdated.durableCurrent = ctr.durableCurrent
      /\ RecoveryOwnedUpdated.recoveryOwned = Least(ctr.recoveryOwned, Len(wal))
    BY <1>2 DEF RecoveryOwnedUpdated, DurablePending, Counters
<1>9. ASSUME pc = "recover", NEW b \in BOOLEAN, RecoverReturns(b), UNCHANGED <<progress, wal>>,
             ~b => wal = <<>>
      PROVE  Steps
    <2>1. InTransit = 0 /\ InTransit' = 0
        BY <1>7, <1>9 DEF InTransit, Counts
    <2>2. ctr.recoveryOwned >= 0 /\ ctr.durableCurrent >= 0
          /\ ctr.recoveryOwned + ctr.durableCurrent = Len(wal)
        BY <1>1, <1>3, <2>1 DEF LogCounted
    <2>3. ctr'.recoveryOwned = ctr.recoveryOwned /\ ctr'.durableCurrent = ctr.durableCurrent
        BY <1>3, <1>7, <1>8, <1>9, <2>2 DEF Least
    <2>4. LogCounted'
        BY <1>6, <1>7, <1>9, <2>1, <2>2, <2>3 DEF LogCounted, Counts, Sends
    <2> QED
        BY <1>7, <1>8, <1>9, <2>4
<1>10. ASSUME NEW n \in 1 .. Len(wal), NEW losses \in Int, NEW stop \in BOOLEAN,
              RecordResolved(n, losses, stop), pc = "recover",
              pass'.purpose = pass.purpose
       PROVE  Steps
    <2>1. /\ wal' = Suffix(wal, n) /\ progress' = [n |-> n, lost |-> losses, stop |-> stop]
          /\ ctr' = ctr
          /\ pc' = IF losses > 0 THEN "countFailed"
                   ELSE IF ctr.recoveryOwned > 0 THEN "countOwned" ELSE "countDurable"
        BY <1>10 DEF RecordResolved
    <2>2. Len(wal') = Len(wal) - n /\ progress'.n = n
        BY <1>2, <2>1, SplitLengths
    <2>3. InTransit = 0 /\ ctr.recoveryOwned >= 0 /\ ctr.durableCurrent >= 0
          /\ ctr.recoveryOwned + ctr.durableCurrent = Len(wal)
        BY <1>1, <1>3, <1>10 DEF LogCounted, InTransit, Counts
    <2>4. InTransit' = n
        BY <1>3, <2>1, <2>2, <2>3 DEF InTransit, Counts
    <2>5. LogCounted'
        BY <1>3, <1>6, <1>10, <2>1, <2>2, <2>3, <2>4 DEF LogCounted, Counts, Sends
    <2> QED
        BY <1>6, <1>10, <2>1, <2>5 DEF Counts
<1>11. ASSUME NEW c \in {"failed", "recoveryFailed", "delivered"}, NEW k \in Int,
              ctr' = Bump(c, k)
       PROVE  /\ ctr'.unsent = ctr.unsent /\ ctr'.recoveryOwned = ctr.recoveryOwned
              /\ ctr'.durableCurrent = ctr.durableCurrent
    BY <1>2, <1>11 DEF Bump, Plus, Counters
<1>12. Steps
    <2>1. CASE RecoverEnds
        BY <1>9, <2>1 DEF RecoverEnds, store
    <2>2. CASE RecoverBlocked
        BY <1>9, <2>2 DEF RecoverBlocked, store
    <2>3. CASE RecoverDelivered
        <3>1. PICK n \in 1 .. Len(wal), stop \in BOOLEAN : RecordResolved(n, 0, stop)
            BY <2>3 DEF RecoverDelivered
        <3>2. pc = "recover" /\ pass' = pass
            BY <2>3 DEF RecoverDelivered
        <3> QED
            BY <1>10, <3>1, <3>2
    <2>4. CASE RecoverTerminal
        <3>1. PICK n \in 1 .. Len(wal) : RecordResolved(n, n, FALSE)
            BY <2>4 DEF RecoverTerminal
        <3>2. pc = "recover" /\ pass'.purpose = pass.purpose
            BY <1>2, <2>4 DEF RecoverTerminal, Passes
        <3>3. n \in Int /\ FALSE \in BOOLEAN
            OBVIOUS
        <3> QED
            BY <1>10, <3>1, <3>2, <3>3
    <2>5. CASE CountFailed
        <3>1. /\ pc = "countFailed" /\ ctr' = Bump("failed", progress.lost)
              /\ pc' = IF ctr.recoveryOwned > 0 THEN "countRecoveryFailed" ELSE "countDurable"
              /\ UNCHANGED <<pass, progress, wal>>
            BY <2>5 DEF CountFailed, CountStep, store
        <3>2. /\ ctr'.unsent = ctr.unsent /\ ctr'.recoveryOwned = ctr.recoveryOwned
              /\ ctr'.durableCurrent = ctr.durableCurrent
            BY <1>3, <1>11, <3>1
        <3>3. InTransit = progress.n /\ InTransit' = progress.n
            BY <1>3, <3>1, <3>2 DEF InTransit, Counts
        <3>4. LogCounted'
            BY <1>1, <1>3, <1>6, <3>1, <3>2, <3>3 DEF LogCounted, Counts, Sends
        <3> QED
            BY <1>6, <3>1, <3>2, <3>4 DEF Counts
    <2>6. CASE CountRecoveryFailed
        <3>1. /\ pc = "countRecoveryFailed" /\ ctr' = Bump("recoveryFailed", progress.lost)
              /\ pc' = "countOwned" /\ UNCHANGED <<pass, progress, wal>>
            BY <2>6 DEF CountRecoveryFailed, CountStep, store
        <3>2. /\ ctr'.unsent = ctr.unsent /\ ctr'.recoveryOwned = ctr.recoveryOwned
              /\ ctr'.durableCurrent = ctr.durableCurrent
            BY <1>3, <1>11, <3>1
        <3>3. InTransit = progress.n /\ InTransit' = progress.n
            BY <1>1, <1>3, <3>1, <3>2 DEF LogCounted, InTransit, Counts
        <3>4. LogCounted'
            BY <1>1, <1>3, <1>6, <3>1, <3>2, <3>3 DEF LogCounted, Counts, Sends
        <3> QED
            BY <1>6, <3>1, <3>2, <3>4 DEF Counts
    <2>7. CASE CountDurable
        <3>1. /\ pc = "countDurable" /\ ctr' = Bump("durableCurrent", -progress.n)
              /\ pc' \in {"countDelivered", "countOwned"} /\ UNCHANGED <<pass, progress, wal>>
            BY <2>7 DEF CountDurable, CountStep, store
        <3>2. /\ ctr'.unsent = ctr.unsent /\ ctr'.recoveryOwned = ctr.recoveryOwned
              /\ ctr'.durableCurrent = ctr.durableCurrent - progress.n
            BY <1>2, <1>3, <3>1 DEF Bump, Plus, Counters
        <3>3. ctr.recoveryOwned = 0 /\ InTransit = progress.n /\ InTransit' = 0
            BY <1>1, <3>1, <3>2 DEF LogCounted, InTransit, Counts
        <3>4. LogCounted'
            BY <1>1, <1>3, <1>6, <3>1, <3>2, <3>3 DEF LogCounted, Counts, Sends
        <3> QED
            BY <1>6, <3>1, <3>2, <3>4 DEF Counts
    <2>8. CASE CountDelivered
        <3>1. /\ pc = "countDelivered" /\ ctr' = Bump("delivered", progress.n)
              /\ pc' = "countOwned" /\ UNCHANGED <<pass, progress, wal>>
            BY <2>8 DEF CountDelivered, CountStep, store
        <3>2. /\ ctr'.unsent = ctr.unsent /\ ctr'.recoveryOwned = ctr.recoveryOwned
              /\ ctr'.durableCurrent = ctr.durableCurrent
            BY <1>3, <1>11, <3>1
        <3>3. ctr.recoveryOwned = 0 /\ InTransit = 0 /\ InTransit' = 0
            BY <1>1, <3>1, <3>2 DEF LogCounted, InTransit, Counts
        <3>4. LogCounted'
            BY <1>1, <1>3, <1>6, <3>1, <3>2, <3>3 DEF LogCounted, Counts, Sends
        <3> QED
            BY <1>6, <3>1, <3>2, <3>4 DEF Counts
    <2>9. CASE CountOwned
        <3>1. /\ pc = "countOwned" /\ wal' = wal /\ ctr' = RecoveryOwnedUpdated
              /\ pc' \in {"recover", "recovered"} /\ pass'.purpose # "persist"
              /\ pc' = "recovered" => pass'.blocked
            BY <1>6, <1>7, <2>9 DEF CountOwned, store
        <3>2. /\ ctr'.unsent = ctr.unsent /\ ctr'.durableCurrent = ctr.durableCurrent
              /\ ctr'.recoveryOwned = Least(ctr.recoveryOwned, Len(wal))
            BY <1>8, <3>1
        <3>3. /\ InTransit = IF ctr.recoveryOwned > 0 THEN progress.n ELSE 0
              /\ InTransit' = 0 /\ progress.n >= 1
            BY <1>1, <3>1 DEF LogCounted, InTransit, Counts
        <3>4. ctr'.recoveryOwned + ctr'.durableCurrent = Len(wal)
              /\ ctr'.recoveryOwned >= 0 /\ ctr'.durableCurrent >= 0
              /\ (ctr'.recoveryOwned = 0 \/ ctr'.durableCurrent = 0)
            BY <1>1, <1>3, <1>6, <3>2, <3>3 DEF LogCounted, Least
        <3>5. LogCounted'
            BY <3>1, <3>3, <3>4 DEF LogCounted, Counts, Sends
        <3> QED
            BY <3>1, <3>2, <3>5
    <2> QED
        BY <2>1, <2>2, <2>3, <2>4, <2>5, <2>6, <2>7, <2>8, <2>9 DEF Recover
<1>13. JobOK'
    BY <1>5, <1>6, <1>12 DEF JobOK, Sends, Counts
<1>14. UnsentAccounted'
    <2>1. Unsettled' = Unsettled
        BY <1>5, <1>6 DEF Unsettled
    <2> QED
        BY <1>1, <1>5, <1>12, <2>1 DEF UnsentAccounted
<1>15. CallOK'
    BY <1>1, <1>5, CallKept
<1> QED
    BY <1>2, <1>12, <1>13, <1>14, <1>15 DEF IInv, QueueInv

\* Cutting pending into chunks keeps the invariant: the new chunk is one
\* unresolved piece.
LEMMA SendChunksInv == ASSUME IInv, SendChunks PROVE IInv'
<1>1. TypeOK /\ JobOK /\ LogCounted /\ CallOK /\ UnsentAccounted
    BY DEF IInv, QueueInv
<1>2. /\ TypeOK'
      /\ events \in Seq(Int) /\ pending \in Seq(Int) /\ wal \in Seq(LogEntries)
      /\ pass \in Passes
    BY <1>1, SendChunksType DEF TypeOK
<1>3. pc \in {"recovered", "chunk"} /\ UNCHANGED <<ctr, track, progress, wal>>
    BY DEF SendChunks, PassBlocked, PersistPending, StartChunks, NextChunk, NoMoreChunks,
       LoopUnchanged, store
<1>4. ends = <<>> /\ InTransit = 0 /\ Unsettled = 0
    BY <1>1, <1>3 DEF JobOK, InTransit, Unsettled, Sends, Counts
<1>5. /\ ctr.recoveryOwned >= 0 /\ ctr.durableCurrent >= 0
      /\ ctr.recoveryOwned + ctr.durableCurrent = Len(wal)
      /\ ctr.recoveryOwned \in Int /\ ctr.durableCurrent \in Int /\ Len(wal) \in Nat
    <2>1. ctr \in [Counters -> Int]
        BY <1>1 DEF TypeOK
    <2>2. ctr.recoveryOwned \in Int /\ ctr.durableCurrent \in Int /\ Len(wal) \in Nat
        BY <1>2, <2>1, CounterTypes
    <2>3. ctr.recoveryOwned + ctr.durableCurrent = Len(wal) + InTransit
        BY <1>1 DEF LogCounted
    <2>4. ctr.recoveryOwned >= 0 /\ ctr.durableCurrent >= 0
        BY <1>1 DEF LogCounted
    <2> QED
        BY <1>4, <2>2, <2>3, <2>4
<1>6. CallOK'
    BY <1>1, <1>3, CallKept
\* a step that starts no chunk
<1>7. ASSUME UNCHANGED <<ends, chunk, settled>>,
             Len(events') + Len(pending') = Len(events) + Len(pending),
             pc' \in {"select", "chunk", "exit"},
             pass'.purpose = "persist" => pc' = "chunk",
             \/ ctr.recoveryOwned = 0 /\ pc' # "persist"
             \/ pc' = "select" /\ (ctr.recoveryOwned = 0 \/ ctr.durableCurrent = 0)
             \/ pass'.purpose = "persist"
             \/ pc' = "exit"
      PROVE  IInv'
    <2>1. JobOK'
        BY <1>4, <1>7 DEF JobOK, Sends
    <2>2. InTransit' = 0 /\ Unsettled' = 0
        BY <1>4, <1>7 DEF InTransit, Unsettled, Counts
    <2>3. LogCounted'
        BY <1>3, <1>5, <1>7, <2>2 DEF LogCounted, Counts, Sends
    <2>4. UnsentAccounted'
        BY <1>1, <1>2, <1>3, <1>4, <1>7, <2>2, UnsentKept
    <2> QED
        BY <1>2, <1>6, <2>1, <2>3, <2>4 DEF IInv, QueueInv
<1>8. CASE PassBlocked
    <2>1. /\ pc = "recovered" /\ pass.purpose # "finish"
          /\ pc' = "select" /\ pass' = NoPass
          /\ UNCHANGED <<ends, chunk, settled, events, pending>>
        BY <1>8 DEF PassBlocked, EndPass, job
    <2>2. ctr.recoveryOwned = 0 \/ ctr.durableCurrent = 0
        BY <1>1, <2>1 DEF LogCounted, JobOK, Sends
    <2>3. pass'.purpose # "persist"
        BY <2>1 DEF NoPass
    <2>4. Len(events') + Len(pending') = Len(events) + Len(pending)
        BY <2>1
    <2> QED
        BY <1>7, <2>1, <2>2, <2>3, <2>4
<1>9. CASE PersistPending
    <2>1. /\ pc' = "chunk" /\ pass' = [pass EXCEPT !.purpose = "persist"]
          /\ UNCHANGED <<ends, chunk, settled>>
          /\ pending' = Drained /\ events' = Suffix(events, DrainCount)
        BY <1>9 DEF PersistPending, job
    <2>2. pass'.purpose = "persist"
        BY <1>2, <2>1 DEF Passes
    <2>3. Len(events') + Len(pending') = Len(events) + Len(pending)
        BY <1>1, <2>1, DrainKeeps
    <2> QED
        BY <1>7, <2>1, <2>2, <2>3
<1>10. CASE StartChunks
    <2>1. /\ pc = "recovered" /\ ~pass.blocked
          /\ pc' = "chunk" /\ pass' = pass /\ UNCHANGED <<ends, chunk, settled>>
        BY <1>10 DEF StartChunks, job
    <2>2. wal = <<>> /\ ctr.recoveryOwned = 0
        BY <1>1, <1>5, <2>1 DEF LogCounted
    <2>3. Len(events') + Len(pending') = Len(events) + Len(pending)
        <3>1. CASE pass.purpose \in {"tick", "flush"}
            BY <1>1, <1>10, <3>1, DrainKeeps DEF StartChunks
        <3>2. CASE pass.purpose \notin {"tick", "flush"}
            BY <1>10, <3>2 DEF StartChunks
        <3> QED
            BY <3>1, <3>2
    <2> QED
        BY <1>7, <2>1, <2>2, <2>3
<1>11. CASE NextChunk
    <2> DEFINE size == Least(FlushSize, Len(Waiting))
    <2>1. /\ Waiting \in Seq(Int) /\ Waiting # <<>> /\ Undrained \in Seq(Int)
          /\ Len(Waiting) + Len(Undrained) = Len(pending) + Len(events)
        BY <1>1, <1>11, WaitingLengths DEF NextChunk
    <2>2. size \in 1 .. Len(Waiting)
        BY <2>1, ConfigAssumption DEF Least
    <2>3. /\ chunk' = Prefix(Waiting, size) /\ pending' = Suffix(Waiting, size)
          /\ ends' = <<size>> /\ events' = Undrained /\ settled' = 0
          /\ pc' = IF pass.purpose = "persist" THEN "persist" ELSE "deliver"
          /\ pass' = pass /\ fate' = fate /\ pc = "chunk"
        BY <1>11 DEF NextChunk
    <2> HIDE DEF size
    <2>4. Len(chunk') = size /\ Len(pending') = Len(Waiting) - size
        <3>1. size \in 0 .. Len(Waiting)
            BY <2>2
        <3> QED
            BY <2>1, <2>3, <3>1, SplitLengths
    <2>5. /\ Len(ends') = 1 /\ ends'[1] = size /\ Head(ends') = size /\ ends' # <<>>
        BY <2>2, <2>3
    <2>6. JobOK'
        BY <2>2, <2>3, <2>4, <2>5 DEF JobOK, Sends
    <2>7. InTransit' = 0
        BY <2>3 DEF InTransit, Counts
    <2>8. LogCounted'
        BY <1>1, <1>3, <1>5, <2>3, <2>7 DEF LogCounted, Counts, Sends
    <2>9. Unsettled' = size
        BY <2>2, <2>3, <2>4, <2>5 DEF Unsettled
    <2>10. UnsentAccounted'
        <3>1. /\ Len(events) \in Nat /\ Len(pending) \in Nat /\ Len(Waiting) \in Nat
              /\ Len(Undrained) \in Nat
            BY <1>2, <2>1
        <3>2. Len(events') + Len(pending') + Unsettled' = Len(events) + Len(pending) + Unsettled
            BY <1>4, <2>1, <2>2, <2>3, <2>4, <2>9, <3>1
        <3> QED
            BY <1>1, <1>3, <3>2 DEF UnsentAccounted
    <2> QED
        BY <1>2, <1>6, <2>6, <2>8, <2>10 DEF IInv, QueueInv
<1>12. CASE NoMoreChunks
    <2>1. /\ pc = "chunk" /\ UNCHANGED <<ends, chunk, settled, events, pending>>
          /\ pass' = NoPass
          /\ pc' = IF pass.purpose \in {"finish", "persist"} THEN "exit" ELSE "select"
        BY <1>12 DEF NoMoreChunks, EndPass, job
    <2>2. pass'.purpose # "persist"
        BY <2>1 DEF NoPass
    <2>3. pc' = "select" => ctr.recoveryOwned = 0
        BY <1>1, <2>1 DEF LogCounted
    <2>4. Len(events') + Len(pending') = Len(events) + Len(pending)
        BY <2>1
    <2> QED
        BY <1>7, <2>1, <2>2, <2>3, <2>4
<1> QED
    BY <1>8, <1>9, <1>10, <1>11, <1>12 DEF SendChunks

\* The exit of the loop keeps the invariant.
LEMMA ExitInv == ASSUME IInv, Exit PROVE IInv'
<1>1. TypeOK /\ JobOK /\ LogCounted /\ CallOK /\ UnsentAccounted
    BY DEF IInv, QueueInv
<1>2. TypeOK'
    BY <1>1, ExitType
<1>3. /\ pc \in {"exit", "closing"} /\ pc' \in {"exit", "closing", "done"}
      /\ ExitUnchanged
    BY DEF Exit, ReplyPendingFlush, NoPendingFlush, CloseDone, ExitUnchanged
<1>4. UNCHANGED <<ctr, events, pending, track, pass, progress, wal, ends, chunk, settled>>
    BY <1>3 DEF ExitUnchanged, LoopUnchanged, job, store
<1>5. JobOK'
    BY <1>1, <1>3, <1>4 DEF JobOK, Sends
<1>6. LogCounted'
    BY <1>1, <1>3, <1>4 DEF LogCounted, InTransit, Counts, Sends
<1>7. UnsentAccounted'
    BY <1>1, <1>3, <1>4 DEF UnsentAccounted, Unsettled
<1>8. CallOK'
    BY <1>1, <1>4, CallKept
<1> QED
    BY <1>2, <1>5, <1>6, <1>7, <1>8 DEF IInv, QueueInv

\* Delivering a piece keeps the invariant: splitting refines the pieces, and
\* settling releases as many slots as the piece has events.
LEMMA DeliverInv == ASSUME IInv, Deliver PROVE IInv'
<1>1. TypeOK /\ JobOK /\ LogCounted /\ CallOK /\ UnsentAccounted
    BY DEF IInv, QueueInv
<1>2. /\ TypeOK'
      /\ ctr \in [Counters -> Int] /\ ends \in Seq(Nat) /\ chunk \in Seq(Int)
      /\ settled \in Nat /\ wal \in Seq(LogEntries) /\ pass \in Passes
      /\ fate \in {"none", "delivered", "retained", "lost"}
    BY <1>1, DeliverType DEF TypeOK
<1>3. DeliverUnchanged /\ pc \in Sends
    BY DEF Deliver, SplitLimit, SendDelivered, SendTerminal, SendSplit, SendRetained,
       SendFailed, SendUnstored, Persisted, NotPersisted, Settle, Account, Sending,
       Resolve, Sends
<1>4. UNCHANGED <<events, pending, track, progress>>
    BY <1>3 DEF DeliverUnchanged, LoopUnchanged
<1>5. CallOK'
    BY <1>1, <1>4, CallKept
<1>6. /\ ends # <<>> /\ Head(ends) = ends[1] /\ Head(ends) \in Nat
      /\ settled < Head(ends) /\ Head(ends) <= Len(chunk)
      /\ PieceSize \in Nat \ {0} /\ PieceSize = Head(ends) - settled
      /\ Len(chunk) \in Nat /\ Len(ends) \in Nat \ {0} /\ ends[Len(ends)] = Len(chunk)
    BY <1>1, <1>3, CurrentPiece DEF PieceSize, JobOK
<1>7. /\ ctr.recoveryOwned \in Int /\ ctr.durableCurrent \in Int /\ ctr.unsent \in Int
      /\ Len(wal) \in Nat /\ ctr.recoveryOwned >= 0 /\ ctr.durableCurrent >= 0
      /\ Len(events) \in Nat /\ Len(pending) \in Nat
    <2>1. Len(wal) \in Nat
        BY <1>2
    <2>2. events \in Seq(Int) /\ pending \in Seq(Int)
        BY <1>1 DEF TypeOK
    <2> QED
        BY <1>1, <1>2, <2>1, <2>2, CounterTypes DEF LogCounted
<1>8. pass.purpose # "persist" => ctr.recoveryOwned = 0
    BY <1>1, <1>3 DEF LogCounted
\* the outcome of a piece reaches the log before it reaches the counters
<1>9. ASSUME pc \in {"deliver", "persist"}, NEW f \in {"delivered", "retained", "lost"},
             NEW err \in BOOLEAN, Resolve(f, err)
      PROVE  IInv'
    <2>1. /\ pc' = "settle" /\ fate' = f /\ UNCHANGED <<ctr, chunk, settled, ends>>
          /\ pass' = [pass EXCEPT !.err = @ \/ err]
          /\ wal' = IF f = "retained" THEN Put ELSE wal
        BY <1>9 DEF Resolve, FirstErr
    <2>2. pass'.purpose = pass.purpose
        BY <1>2, <2>1 DEF Passes
    <2>3. JobOK'
        BY <1>1, <1>3, <1>6, <2>1, <2>2 DEF JobOK, Sends
    <2>4. PieceSize' = PieceSize
        BY <2>1 DEF PieceSize
    <2>5. InTransit = 0 /\ InTransit' = IF f = "retained" THEN -PieceSize ELSE 0
        BY <1>9, <2>1, <2>4 DEF InTransit, Counts
    <2>6. Len(wal') + InTransit' = Len(wal) + InTransit
        <3>1. CASE f = "retained"
            <4>1. Len(Put) = Len(wal) + PieceSize
                BY <1>1, <1>3, PieceType
            <4>2. Len(wal') = Len(wal) + PieceSize /\ InTransit = 0 /\ InTransit' = -PieceSize
                BY <2>1, <2>5, <3>1, <4>1
            <4> QED
                BY <1>6, <1>7, <4>2
        <3>2. CASE f # "retained"
            BY <2>1, <2>5, <3>2
        <3> QED
            BY <3>1, <3>2
    <2>7. LogCounted'
        BY <1>1, <1>7, <1>8, <2>1, <2>2, <2>6 DEF LogCounted, Counts, Sends
    <2>8. Unsettled' = Unsettled
        BY <1>9, <2>1 DEF Unsettled
    <2>9. UnsentAccounted'
        BY <1>1, <1>4, <2>1, <2>8 DEF UnsentAccounted
    <2> QED
        BY <1>2, <1>5, <2>3, <2>7, <2>9 DEF IInv, QueueInv
<1>10. CASE SplitLimit
    BY <1>9, <1>10 DEF SplitLimit
<1>11. CASE SendDelivered
    <2>1. PICK warned \in {FALSE, Durable} : Resolve("delivered", warned)
        BY <1>11 DEF SendDelivered
    <2>2. warned \in BOOLEAN /\ pc = "deliver"
        BY <1>11, ConfigAssumption DEF SendDelivered, Sending
    <2> QED
        BY <1>9, <2>1, <2>2
<1>12. CASE SendTerminal
    BY <1>9, <1>12 DEF SendTerminal, Sending
<1>13. CASE SendSplit
    <2>1. /\ pc = "deliver" /\ PieceSize > 1 /\ ends' = Halves
          /\ UNCHANGED <<ctr, pc, pass, chunk, settled, fate, wal>>
        BY <1>13 DEF SendSplit, Sending, store
    <2>2. /\ Halves \in Seq(Nat) /\ Len(Halves) = Len(ends) + 1
          /\ settled < Halves[1] /\ Halves[1] < ends[1]
          /\ \A i \in 1 .. Len(ends) : Halves[i + 1] = ends[i]
        BY <1>1, <2>1, HalvesType
    <2>3. ends' # <<>> /\ ends'[Len(ends')] = Len(chunk') /\ settled' < ends'[1]
        <3>1. Len(ends) \in 1 .. Len(ends)
            BY <1>6
        <3>2. Halves[Len(ends) + 1] = ends[Len(ends)]
            BY <2>2, <3>1
        <3>3. ends' # <<>>
            BY <1>6, <2>1, <2>2
        <3> QED
            BY <1>6, <2>1, <2>2, <3>2, <3>3
    <2>4. \A i, j \in 1 .. Len(ends') : i < j => ends'[i] < ends'[j]
        <3> SUFFICES ASSUME NEW i \in 1 .. Len(ends) + 1, NEW j \in 1 .. Len(ends) + 1, i < j
                     PROVE  Halves[i] < Halves[j]
            BY <2>1, <2>2
        <3>1. j - 1 \in 1 .. Len(ends) /\ Halves[j] = ends[j - 1] /\ ends[j - 1] \in Nat
            <4>1. j - 1 \in 1 .. Len(ends) /\ (j - 1) + 1 = j
                BY <1>6
            <4>2. Halves[(j - 1) + 1] = ends[j - 1]
                BY <2>2, <4>1
            <4> QED
                BY <1>2, <4>1, <4>2
        <3>2. ends[1] <= ends[j - 1]
            <4>1. 1 \in 1 .. Len(ends)
                BY <1>6
            <4>2. CASE j - 1 = 1
                BY <3>1, <4>2
            <4>3. CASE j - 1 # 1
                <5>1. 1 < j - 1
                    BY <1>6, <3>1, <4>3
                <5>2. ends[1] < ends[j - 1]
                    BY <1>1, <3>1, <4>1, <5>1 DEF JobOK
                <5> QED
                    BY <1>6, <3>1, <5>2
            <4> QED
                BY <4>2, <4>3
        <3>3. CASE i = 1
            <4>1. Halves[1] \in Nat /\ ends[1] \in Nat
                BY <1>6, <2>2
            <4> QED
                BY <2>2, <3>1, <3>2, <3>3, <4>1
        <3>4. CASE i # 1
            <4>1. i - 1 \in 1 .. Len(ends) /\ (i - 1) + 1 = i /\ i - 1 < j - 1
                BY <1>6, <3>4
            <4>2. Halves[(i - 1) + 1] = ends[i - 1]
                BY <2>2, <4>1
            <4>3. ends[i - 1] < ends[j - 1]
                BY <1>1, <3>1, <4>1 DEF JobOK
            <4> QED
                BY <3>1, <4>1, <4>2, <4>3
        <3> QED
            BY <3>3, <3>4
    <2>5. JobOK'
        <3>1. pc' = "deliver" /\ pass'.purpose # "persist"
            BY <1>1, <2>1 DEF JobOK
        <3> QED
            BY <2>3, <2>4, <3>1 DEF JobOK, Sends
    <2>6. InTransit = 0 /\ InTransit' = 0
        BY <2>1 DEF InTransit, Counts
    <2>7. LogCounted'
        BY <1>1, <2>1, <2>6 DEF LogCounted, Counts, Sends
    <2>8. Unsettled' = Unsettled
        BY <1>6, <2>1, <2>3 DEF Unsettled
    <2>9. UnsentAccounted'
        BY <1>1, <1>4, <2>1, <2>8 DEF UnsentAccounted
    <2> QED
        BY <1>2, <1>5, <2>5, <2>7, <2>9 DEF IInv, QueueInv
<1>14. CASE SendRetained
    BY <1>9, <1>14 DEF SendRetained, Sending
<1>15. CASE SendFailed
    BY <1>9, <1>15 DEF SendFailed, Sending
<1>16. CASE SendUnstored
    BY <1>9, <1>16 DEF SendUnstored, Sending
<1>17. CASE Persisted
    BY <1>9, <1>17 DEF Persisted
<1>18. CASE NotPersisted
    BY <1>9, <1>18 DEF NotPersisted
<1>19. CASE Settle
    <2>1. /\ pc = "settle" /\ pc' = "account" /\ ctr' = Bump("unsent", -PieceSize)
          /\ UNCHANGED <<pass, chunk, settled, ends, fate, wal>>
        BY <1>19 DEF Settle, Release, job, store
    <2>2. /\ ctr'.unsent = ctr.unsent - PieceSize
          /\ ctr'.recoveryOwned = ctr.recoveryOwned /\ ctr'.durableCurrent = ctr.durableCurrent
        <3>1. -PieceSize \in Int
            BY <1>6
        <3> QED
            BY <1>2, <1>6, <2>1, <3>1 DEF Bump, Plus, Counters
    <2>3. JobOK'
        BY <1>1, <1>6, <2>1 DEF JobOK, Sends
    <2>4. InTransit' = InTransit
        BY <2>1 DEF InTransit, Counts, PieceSize
    <2>5. LogCounted'
        BY <1>1, <2>1, <2>2, <2>4 DEF LogCounted, Counts, Sends
    <2>6. Unsettled' = Unsettled - PieceSize /\ Unsettled \in Nat
        BY <1>1, <1>2, <1>6, <2>1, UnsettledType DEF Unsettled
    <2>7. UnsentAccounted'
        <3> DEFINE slot == IF track.pc = "send" THEN 1 ELSE 0
        <3>1. ctr.unsent = Len(events) + Len(pending) + Unsettled + slot
              /\ ctr.unsent <= QueueLimit
            BY <1>1 DEF UnsentAccounted
        <3>2. slot \in Nat /\ QueueLimit \in Nat
            BY <1>4, ConfigAssumption
        <3> HIDE DEF slot
        <3>3. ctr'.unsent = Len(events) + Len(pending) + Unsettled' + slot
              /\ ctr'.unsent <= QueueLimit
            <4>1. PieceSize \in Nat /\ ctr'.unsent = ctr.unsent - PieceSize
                  /\ Unsettled' = Unsettled - PieceSize /\ Unsettled \in Nat
                BY <1>6, <2>2, <2>6
            <4>2. ctr.unsent \in Int /\ Len(events) \in Nat /\ Len(pending) \in Nat
                BY <1>7
            <4> QED
                BY <3>1, <3>2, <4>1, <4>2
        <3> QED
            BY <1>4, <3>3 DEF slot, UnsentAccounted
    <2> QED
        BY <1>2, <1>5, <2>3, <2>5, <2>7 DEF IInv, QueueInv
<1>20. CASE Account
    <2>1. /\ pc = "account" /\ ctr' = Bump(OutcomeCounter, PieceSize) /\ fate' = "none"
          /\ ends' = Tail(ends) /\ wal' = wal
        BY <1>20 DEF Account, store
    <2>2. /\ ctr'.unsent = ctr.unsent /\ ctr'.recoveryOwned = ctr.recoveryOwned
          /\ ctr'.durableCurrent = IF fate = "retained" THEN ctr.durableCurrent + PieceSize
                                   ELSE ctr.durableCurrent
        <3>1. PieceSize \in Int
            BY <1>6
        <3>2. OutcomeCounter \in {"delivered", "durableCurrent", "failed"}
              /\ (OutcomeCounter = "durableCurrent" <=> fate = "retained")
            BY <1>2 DEF OutcomeCounter
        <3> QED
            BY <1>2, <2>1, <3>1, <3>2 DEF Bump, Plus, Counters
    <2>3. InTransit = IF fate = "retained" THEN -PieceSize ELSE 0
        BY <2>1 DEF InTransit, Counts
    <2>4. ctr'.recoveryOwned + ctr'.durableCurrent = Len(wal)
          /\ ctr'.recoveryOwned >= 0 /\ ctr'.durableCurrent >= 0
        <3>1. ctr.recoveryOwned + ctr.durableCurrent = Len(wal) + InTransit
            BY <1>1 DEF LogCounted
        <3>2. CASE fate = "retained"
            <4>1. ctr'.recoveryOwned = ctr.recoveryOwned
                  /\ ctr'.durableCurrent = ctr.durableCurrent + PieceSize
                  /\ InTransit = -PieceSize
                BY <2>2, <2>3, <3>2
            <4>2. PieceSize \in Nat
                BY <1>6
            <4> QED
                BY <1>7, <3>1, <4>1, <4>2
        <3>3. CASE fate # "retained"
            BY <1>6, <1>7, <2>2, <2>3, <3>1, <3>3
        <3> QED
            BY <3>2, <3>3
    <2>5. CASE Len(ends) > 1
        <3>1. /\ settled' = Head(ends) /\ pc' = "deliver" /\ chunk' = chunk /\ pass' = pass
            BY <1>20, <2>5 DEF Account
        <3>2. /\ Len(Tail(ends)) = Len(ends) - 1 /\ Tail(ends) # <<>>
              /\ \A i \in 1 .. Len(ends) - 1 : Tail(ends)[i] = ends[i + 1]
            BY <1>2, <1>6, <2>5, TailFacts
        <3>3. Tail(ends)[1] = ends[2] /\ Tail(ends)[Len(ends) - 1] = ends[Len(ends)]
              /\ ends[1] < ends[2]
            BY <1>1, <1>6, <2>5, <3>2 DEF JobOK
        <3>4. \A i, j \in 1 .. Len(ends) - 1 : i < j => Tail(ends)[i] < Tail(ends)[j]
            BY <1>1, <1>6, <3>2 DEF JobOK
        <3>5. pass.purpose # "persist"
            BY <1>1, <1>6, <2>5 DEF JobOK
        <3>6. JobOK'
            BY <1>6, <2>1, <3>1, <3>2, <3>3, <3>4, <3>5 DEF JobOK, Sends
        <3>7. InTransit' = 0
            BY <3>1 DEF InTransit, Counts
        <3>8. LogCounted'
            BY <1>8, <2>1, <2>2, <2>4, <3>1, <3>5, <3>7 DEF LogCounted, Counts, Sends
        <3>9. Unsettled' = Unsettled
            BY <1>6, <2>1, <3>1, <3>2 DEF Unsettled
        <3>10. UnsentAccounted'
            BY <1>1, <1>4, <2>2, <3>1, <3>9 DEF UnsentAccounted
        <3> QED
            BY <1>2, <1>5, <3>6, <3>8, <3>10 DEF IInv, QueueInv
    <2>6. CASE ~(Len(ends) > 1)
        <3>1. /\ pc' = IF pass.purpose = "size" THEN "select" ELSE "chunk"
              /\ pass' = IF pass.purpose = "size" THEN NoPass ELSE pass
            BY <1>20, <2>6 DEF Account
        <3>2. Len(ends) = 1 /\ ends' = <<>>
            <4>1. Len(ends) = 1
                BY <1>6, <2>6
            <4>2. Tail(ends) \in Seq(Nat) /\ Len(Tail(ends)) = 0
                BY <1>2, <1>6, <4>1, TailFacts
            <4> QED
                BY <2>1, <4>1, <4>2
        <3>3. pass'.purpose = "persist" => pass.purpose = "persist" /\ pc' = "chunk"
            BY <3>1 DEF NoPass
        <3>4. JobOK'
            BY <3>1, <3>2, <3>3 DEF JobOK, Sends
        <3>5. InTransit' = 0
            BY <3>1 DEF InTransit, Counts
        <3>6. pass'.purpose = "persist" \/ ctr'.recoveryOwned = 0
            BY <1>8, <2>2, <3>1
        <3>7. LogCounted'
            BY <2>1, <2>4, <3>1, <3>5, <3>6 DEF LogCounted, Counts, Sends
        <3>8. Unsettled = 0 /\ Unsettled' = 0
            BY <1>6, <2>1, <3>2 DEF Unsettled
        <3>9. UnsentAccounted'
            BY <1>1, <1>4, <2>2, <3>8 DEF UnsentAccounted
        <3> QED
            BY <1>2, <1>5, <3>4, <3>7, <3>9 DEF IInv, QueueInv
    <2> QED
        BY <2>5, <2>6
<1> QED
    BY <1>10, <1>11, <1>12, <1>13, <1>14, <1>15, <1>16, <1>17, <1>18, <1>19, <1>20
       DEF Deliver

\* The invariant holds initially.
LEMMA InitInv == Init => IInv
<1> SUFFICES ASSUME Init PROVE IInv
    OBVIOUS
<1>1. TypeOK
    BY TypeInit
<1>2. /\ ends = <<>> /\ events = <<>> /\ pending = <<>> /\ pc = "select"
      /\ pass.purpose = "none" /\ track.pc = "idle"
    BY DEF Init, NoPass, IdleTrack
<1>3. JobOK
    BY <1>2 DEF JobOK, Sends
<1>4. /\ ctr.recoveryOwned = Recovered /\ ctr.durableCurrent = 0 /\ ctr.unsent = 0
      /\ Recovered \in Nat
    BY ConfigAssumption DEF Init, Counters
<1>5. Len(wal) = Recovered
    BY DEF Init, InitWal, RecoveredWal
<1>6. LogCounted
    BY <1>2, <1>4, <1>5 DEF LogCounted, InTransit, Counts, Sends
<1>7. CallOK
    BY <1>2 DEF CallOK
<1>8. UnsentAccounted
    BY <1>2, <1>4, ConfigAssumption DEF UnsentAccounted, Unsettled
<1> QED
    BY <1>1, <1>3, <1>6, <1>7, <1>8 DEF IInv, QueueInv

\* Every step keeps the invariant.
LEMMA NextInv == IInv /\ [Next]_vars => IInv'
<1> SUFFICES ASSUME IInv, [Next]_vars PROVE IInv'
    OBVIOUS
<1>1. TypeOK
    BY DEF IInv
<1>2. CASE Reject \/ Track
    BY <1>2, TrackInv
<1>3. ASSUME NEW f \in Flushers, Flush(f) PROVE IInv'
    <2>1. TypeOK'
        BY <1>1, <1>3, FlushType
    <2>2. FlushUnchanged
        BY <1>3 DEF Flush, FlushCall, FlushEnqueue, FlushReply, FlushClosed, FlushAbandon
    <2>3. UNCHANGED <<ctr, events, pending, track, pc, pass, job, progress, wal>>
        BY <2>2 DEF FlushUnchanged, loop, store
    <2> QED
        BY <2>1, <2>3, CallersInv
<1>4. ASSUME NEW s \in Shutters, Shutdown(s) PROVE IInv'
    <2>1. TypeOK'
        BY <1>1, <1>4, ShutdownType
    <2>2. ShutdownUnchanged
        BY <1>4 DEF Shutdown, ShutdownClose, ShutdownStop, ShutdownAgain, WaitDone, Deadline,
           DeadlineFailed, DeadlineRecoveryFailed, DeadlineDelivered, DeadlineReturn,
           DeadlineStep
    <2>3. UNCHANGED <<ctr, events, pending, track, pc, pass, job, progress, wal>>
        BY <2>2 DEF ShutdownUnchanged, loop, store
    <2> QED
        BY <2>1, <2>3, CallersInv
<1>5. CASE Select
    BY <1>5, SelectInv
<1>6. CASE Recover
    BY <1>6, RecoverInv
<1>7. CASE SendChunks
    BY <1>7, SendChunksInv
<1>8. CASE Deliver
    BY <1>8, DeliverInv
<1>9. CASE Exit
    BY <1>9, ExitInv
<1>10. ASSUME UNCHANGED vars PROVE IInv'
    <2>1. UNCHANGED <<ctr, events, pending, track, pc, pass, job, progress, wal>>
        BY <1>10 DEF vars, loop, store
    <2>2. TypeOK'
        BY <1>1, <1>10 DEF TypeOK, vars, loop, store, job, signals
    <2> QED
        BY <2>1, <2>2, CallersInv
<1>11. CASE Finished
    BY <1>10, <1>11 DEF Finished
<1> QED
    BY <1>2, <1>3, <1>4, <1>5, <1>6, <1>7, <1>8, <1>9, <1>10, <1>11
       DEF Next, LoopWork, Select

---------------------------------------------------------------------------
(* The theorems *)

\* The conjunction of types, queue structure and slot accounting is an
\* inductive invariant of the batcher, for all sizes, budgets, callers and
\* contents of the log.
THEOREM Invariance == Spec => []IInv
<1>1. Init => IInv
    BY InitInv
<1>2. IInv /\ [Next]_vars => IInv'
    BY NextInv
<1> QED
    BY <1>1, <1>2, PTL DEF Spec

\* Every variable of the batcher keeps its type, whatever the queue limit, the
\* flush size, the number of calls and the content of the log.
THEOREM TypeCorrect == Spec => []TypeOK
<1>1. IInv => TypeOK
    BY DEF IInv
<1> QED
    BY <1>1, Invariance, PTL

\* The structure behind the counters: pieces partition the chunk, and every
\* entry of the log is counted exactly once.
THEOREM QueueStructure == Spec => []QueueInv
<1>1. IInv => QueueInv
    BY DEF IInv
<1> QED
    BY <1>1, Invariance, PTL

\* unsent counts exactly the slots in use and never exceeds the queue size
\* (batcher.go:135-157, 484-541).
THEOREM UnsentCorrect == Spec => []UnsentAccounted
<1>1. IInv => UnsentAccounted
    BY DEF IInv
<1> QED
    BY <1>1, Invariance, PTL

\* A call that reserved a slot finds room in the channel: the default branch
\* of enqueue (batcher.go:151-156) is dead code.
THEOREM SlotExists == Spec => []ReservedSlotExists
<1>1. IInv => ReservedSlotExists
    <2> SUFFICES ASSUME IInv, track.pc = "send" PROVE Len(events) < QueueLimit
        BY DEF ReservedSlotExists
    <2>1. Unsettled \in Nat
        BY UnsettledType DEF IInv, QueueInv
    <2>2. events \in Seq(Int) /\ pending \in Seq(Int)
        BY DEF IInv, TypeOK
    <2>3. Len(events) \in Nat /\ Len(pending) \in Nat
        BY <2>2
    <2>4. ctr.unsent = Len(events) + Len(pending) + Unsettled + 1 /\ ctr.unsent <= QueueLimit
        BY DEF IInv, UnsentAccounted
    <2> QED
        BY <2>1, <2>3, <2>4, ConfigAssumption
<1> QED
    BY <1>1, Invariance, PTL

=============================================================================
