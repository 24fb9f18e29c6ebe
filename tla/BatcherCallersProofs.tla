------------------------- MODULE BatcherCallersProofs -------------------------
(***************************************************************************)
(* Theorems about what the callers of Batcher are told: what a Flush, a    *)
(* Shutdown and a deadline report mean, that nothing is stranded, and that *)
(* the batcher implements the delivery contract.                           *)
(***************************************************************************)
EXTENDS BatcherEventsProofs

---------------------------------------------------------------------------
(* Shutdown closes, stops and empties: ClosedOK *)

\* drainChannel (batcher.go:371-380) always empties the channel: the events in
\* memory never exceed its budget.
LEMMA DrainsAll ==
    ASSUME IInv
    PROVE  /\ DrainCount = Len(events) /\ Suffix(events, DrainCount) = <<>>
           /\ Drained = <<>> => events = <<>> /\ pending = <<>>
<1>1. TypeOK /\ JobOK /\ UnsentAccounted
    BY DEF IInv, QueueInv
<1>2. /\ events \in Seq(Int) /\ pending \in Seq(Int)
      /\ Len(events) \in Nat /\ Len(pending) \in Nat
    BY <1>1 DEF TypeOK
<1>3. Unsettled \in Nat /\ QueueLimit \in Nat
    BY <1>1, UnsettledType, ConfigAssumption
<1>4. Len(events) + Len(pending) <= QueueLimit
    <2> DEFINE r == IF track.pc = "send" THEN 1 ELSE 0
    <2>1. r \in Nat
        OBVIOUS
    <2>2. Len(events) + Len(pending) + Unsettled + r <= QueueLimit
        BY <1>1 DEF UnsentAccounted
    <2> HIDE DEF r
    <2> QED
        BY <1>2, <1>3, <2>1, <2>2
<1>5. DrainCount = Len(events)
    BY <1>2, <1>3, <1>4 DEF DrainCount, Least
<1>6. Suffix(events, Len(events)) = <<>>
    <2>1. /\ Suffix(events, Len(events)) \in Seq(Int)
          /\ Len(Suffix(events, Len(events))) = Len(events) - Len(events)
        BY <1>2, SplitLengths
    <2>2. Len(Suffix(events, Len(events))) = 0
        BY <1>2, <2>1
    <2> QED
        BY <2>1, <2>2
<1>7. ASSUME Drained = <<>> PROVE events = <<>> /\ pending = <<>>
    <2>1. Len(Drained) = Len(pending) + DrainCount /\ Len(Drained) = 0
        BY <1>1, <1>7, DrainLengths
    <2>2. Len(events) = 0 /\ Len(pending) = 0
        <3>1. Len(pending) + Len(events) = 0
            BY <1>5, <2>1
        <3> QED
            BY <1>2, <3>1
    <2> QED
        BY <1>2, <2>2
<1> QED
    BY <1>5, <1>6, <1>7

\* ClosedOK in two parts: why the loop stops and what it then holds, and how the
\* calls get there.
LoopClosed ==
    /\ pass.purpose \in {"finish", "persist"} \/ pc \in {"exit", "closing", "done"} => stopped
    /\ pass.purpose = "persist" => events = <<>>
    /\ pc = "persist" => pass.purpose = "persist"
    /\ pc \in {"exit", "closing", "done"} => events = <<>> /\ pending = <<>>
    /\ doneClosed <=> pc = "done"

CallsClosed ==
    /\ closed => track.pc = "idle"
    /\ stopped => closed
    /\ \A s \in Shutters : /\ shutter[s].pc # "idle" => closed
                           /\ shutter[s].pc \notin {"idle", "stopping"} => stopped
                           /\ shutter[s].result # "none" => shutter[s].pc = "returned"

\* A call in enqueue keeps the client open (batcher.go:135-157), so none is left
\* when the loop empties memory.
LEMMA TrackClosed ==
    ASSUME IInv, MemoryOK, ClosedOK, Reject \/ Track
    PROVE  ClosedOK'
<1>1. track \in TrackCalls
    BY DEF IInv, TypeOK
<1>2. TrackUnchanged
    BY DEF Reject, Track, TrackBegin, TrackLoadOwned, TrackAdmit, TrackReserve,
       TrackSend, TrackCount
<1>3. UNCHANGED <<closed, stopped, doneClosed, shutter, pc, pass, pending>>
    BY <1>2 DEF TrackUnchanged, loop, signals
<1>4. CASE Reject
    BY <1>3, <1>4 DEF Reject, ClosedOK
<1>5. CASE Track
    <2>1. ~closed
        BY <1>5 DEF Track, TrackBegin, TrackLoadOwned, TrackAdmit, TrackReserve, TrackSend,
           TrackCount, ClosedOK
    <2>2. ~stopped
        BY <2>1 DEF ClosedOK
    <2> QED
        BY <1>3, <2>1, <2>2 DEF ClosedOK
<1> QED
    BY <1>4, <1>5

\* Close comes before stop, and stop before any wait (alitycs.go:188-196).
LEMMA ShutdownClosed ==
    ASSUME TypeOK, ClosedOK, NEW s \in Shutters, Shutdown(s)
    PROVE  ClosedOK'
<1>1. UNCHANGED <<events, pending, track, pc, pass>>
    <2>1. ShutdownUnchanged
        BY DEF Shutdown, ShutdownClose, ShutdownStop, ShutdownAgain, WaitDone, Deadline,
           DeadlineFailed, DeadlineRecoveryFailed, DeadlineDelivered, DeadlineReturn,
           DeadlineStep
    <2> QED
        BY <2>1 DEF ShutdownUnchanged, loop
<1>2. shutter \in [Shutters -> ShutdownCalls]
    BY DEF TypeOK
<1>3. /\ closed => closed'
      /\ stopped => stopped'
      /\ doneClosed' = doneClosed
      /\ closed' => closed \/ track.pc = "idle"
      /\ stopped' => stopped \/ shutter[s].pc = "stopping"
      /\ \E c \in ShutdownCalls : shutter' = [shutter EXCEPT ![s] = c]
      /\ shutter'[s].pc \notin {"idle", "stopping"} => stopped'
      /\ shutter'[s].pc # "idle" => closed'
      /\ shutter'[s].result # "none" => shutter'[s].pc = "returned"
    <2>1. stopped => closed
        BY DEF ClosedOK
    <2>2. /\ shutter[s].pc # "idle" => closed
          /\ shutter[s].pc \notin {"idle", "stopping"} => stopped
          /\ shutter[s].result # "none" => shutter[s].pc = "returned"
        BY DEF ClosedOK
    <2>3. shutter[s] \in ShutdownCalls
        BY <1>2
    <2>4. CASE ShutdownClose(s)
        <3>1. shutter' = [shutter EXCEPT ![s].pc = "stopping"]
            BY <2>4 DEF ShutdownClose
        <3>2. [shutter[s] EXCEPT !.pc = "stopping"] \in ShutdownCalls
            BY <2>3 DEF ShutdownCalls
        <3>3. shutter'[s].pc = "stopping" /\ shutter'[s].result = shutter[s].result
            BY <1>2, <2>3, <3>1 DEF ShutdownCalls
        <3>4. shutter[s].pc = "idle"
            BY <2>4 DEF ShutdownClose
        <3>5. shutter'[s].result = "none"
            BY <2>2, <3>3, <3>4
        <3> QED
            BY <2>4, <3>1, <3>2, <3>3, <3>5 DEF ShutdownClose
    <2>5. CASE ShutdownStop(s)
        <3>1. shutter' = [shutter EXCEPT ![s].pc = "waiting"]
            BY <2>5 DEF ShutdownStop
        <3>2. [shutter[s] EXCEPT !.pc = "waiting"] \in ShutdownCalls
            BY <2>3 DEF ShutdownCalls
        <3>3. shutter'[s].result = "none"
            <4>1. shutter[s].pc = "stopping"
                BY <2>5 DEF ShutdownStop
            <4>2. shutter'[s].result = shutter[s].result
                BY <1>2, <2>3, <3>1 DEF ShutdownCalls
            <4> QED
                BY <2>2, <4>1, <4>2
        <3> QED
            BY <2>2, <2>5, <3>1, <3>2, <3>3 DEF ShutdownStop
    <2>6. CASE ShutdownAgain(s)
        <3>1. shutter' = [shutter EXCEPT ![s].pc = "waiting"] /\ stopped
              /\ UNCHANGED <<closed, stopped, doneClosed>>
            BY <2>6 DEF ShutdownAgain, signals
        <3>2. [shutter[s] EXCEPT !.pc = "waiting"] \in ShutdownCalls
            BY <2>3 DEF ShutdownCalls
        <3>3. shutter'[s].result = "none"
            <4>1. shutter[s].pc = "idle"
                BY <2>6 DEF ShutdownAgain
            <4>2. shutter'[s].result = shutter[s].result
                BY <1>2, <2>3, <3>1 DEF ShutdownCalls
            <4> QED
                BY <2>2, <4>1, <4>2
        <3> QED
            BY <2>1, <3>1, <3>2, <3>3
    <2>7. CASE WaitDone(s) \/ Deadline(s)
        <3>1. shutter[s].pc \notin {"idle", "stopping"}
              /\ UNCHANGED <<closed, stopped, doneClosed>>
            BY <2>7 DEF WaitDone, Deadline, DeadlineFailed, DeadlineRecoveryFailed,
               DeadlineDelivered, DeadlineReturn, DeadlineStep, signals
        <3>2. stopped' /\ closed'
            BY <2>2, <3>1
        <3>3. shutter' \in [Shutters -> ShutdownCalls]
            <4>1. Shutdown(s) => TypeOK'
                BY ShutdownType
            <4> QED
                BY <4>1 DEF TypeOK
        <3>4. shutter' = [shutter EXCEPT ![s] = shutter'[s]]
            <4>1. \E c : shutter' = [shutter EXCEPT ![s] = c]
                BY <2>7 DEF WaitDone, Deadline, DeadlineFailed, DeadlineRecoveryFailed,
                   DeadlineDelivered, DeadlineReturn, DeadlineStep, ShutdownReturns
            <4> QED
                BY <1>2, <4>1
        <3>5. shutter'[s] \in ShutdownCalls
            BY <3>3
        <3>6. shutter'[s].result # "none" => shutter'[s].pc = "returned"
            <4>1. CASE WaitDone(s) \/ DeadlineReturn(s)
                BY <1>2, <4>1 DEF WaitDone, DeadlineReturn, ShutdownReturns
            <4>2. CASE DeadlineFailed(s) \/ DeadlineRecoveryFailed(s) \/ DeadlineDelivered(s)
                <5>1. shutter[s].pc # "returned"
                    BY <4>2 DEF DeadlineFailed, DeadlineRecoveryFailed, DeadlineDelivered,
                       DeadlineStep
                <5>2. shutter'[s].result = shutter[s].result
                    BY <1>2, <2>3, <4>2 DEF DeadlineFailed, DeadlineRecoveryFailed,
                       DeadlineDelivered, DeadlineStep, ShutdownCalls
                <5> QED
                    BY <2>2, <5>1, <5>2
            <4> QED
                BY <2>7, <4>1, <4>2 DEF Deadline
        <3> QED
            BY <3>1, <3>2, <3>4, <3>5, <3>6
    <2> QED
        BY <2>4, <2>5, <2>6, <2>7 DEF Shutdown
<1>4. PICK c \in ShutdownCalls : shutter' = [shutter EXCEPT ![s] = c]
    BY <1>3
<1>5. \A t \in Shutters : t # s => shutter'[t] = shutter[t]
    BY <1>2, <1>4
<1>6. CallsClosed'
    <2>1. (closed => track.pc = "idle")'
        <3>1. closed => track.pc = "idle"
            BY DEF ClosedOK
        <3>2. closed' => closed \/ track.pc = "idle"
            BY <1>3
        <3> QED
            BY <1>1, <3>1, <3>2
    <2>2. (stopped => closed)'
        <3>1. (stopped => closed) /\ (shutter[s].pc # "idle" => closed)
            BY DEF ClosedOK
        <3>2. shutter[s].pc = "stopping" => shutter[s].pc # "idle"
            OBVIOUS
        <3>3. stopped' => stopped \/ shutter[s].pc = "stopping"
            BY <1>3
        <3>4. closed => closed'
            BY <1>3
        <3> QED
            BY <3>1, <3>2, <3>3, <3>4
    <2>3. ASSUME NEW t \in Shutters
          PROVE  /\ shutter'[t].pc # "idle" => closed'
                 /\ shutter'[t].pc \notin {"idle", "stopping"} => stopped'
                 /\ shutter'[t].result # "none" => shutter'[t].pc = "returned"
        <3>1. CASE t = s
            <4>1. shutter'[s].pc \notin {"idle", "stopping"} => stopped'
                BY <1>3
            <4>2. shutter'[s].pc # "idle" => closed'
                BY <1>3
            <4>3. shutter'[s].result # "none" => shutter'[s].pc = "returned"
                BY <1>3
            <4> QED
                BY <3>1, <4>1, <4>2, <4>3
        <3>2. CASE t # s
            <4>1. shutter'[t] = shutter[t]
                BY <1>5, <3>2
            <4>2. /\ shutter[t].pc # "idle" => closed
                  /\ shutter[t].pc \notin {"idle", "stopping"} => stopped
                  /\ shutter[t].result # "none" => shutter[t].pc = "returned"
                BY DEF ClosedOK
            <4>3. closed => closed'
                BY <1>3
            <4>4. stopped => stopped'
                BY <1>3
            <4> QED
                BY <4>1, <4>2, <4>3, <4>4
        <3> QED
            BY <3>1, <3>2
    <2> QED
        BY <2>1, <2>2, <2>3 DEF CallsClosed
<1>7. LoopClosed'
    <2>1. LoopClosed
        BY DEF ClosedOK, LoopClosed
    <2>2. stopped => stopped'
        BY <1>3
    <2>3. doneClosed' = doneClosed
        BY <1>3
    <2> QED
        BY <1>1, <2>1, <2>2, <2>3 DEF LoopClosed
<1> QED
    BY <1>6, <1>7 DEF ClosedOK, CallsClosed, LoopClosed

\* The loop's select (batcher.go:255-299) finishes only once stopped.
LEMMA SelectClosed ==
    ASSUME IInv, ClosedOK, Select
    PROVE  ClosedOK'
<1>1. TypeOK /\ JobOK
    BY DEF IInv, QueueInv
<1>2. /\ pc = "select" /\ pc' \in {"select", "recover"}
      /\ UNCHANGED <<closed, stopped, doneClosed, track, shutter>>
    BY DEF Select, LoopStop, LoopEvent, LoopTick, LoopFlush, StartPass, LoopUnchanged
<1>3. pass.purpose # "persist"
    BY <1>1, <1>2 DEF JobOK, Sends
<1>4. /\ pass'.purpose \in {"size", "tick", "flush", pass.purpose} \/ stopped
      /\ pass'.purpose # "persist"
    <2>1. ASSUME NEW purpose, NEW f, StartPass(purpose, f) PROVE pass'.purpose = purpose
        BY <2>1 DEF StartPass, NoPass
    <2>2. CASE LoopStop
        BY <2>1, <2>2 DEF LoopStop
    <2>3. CASE LoopTick
        BY <2>1, <2>3 DEF LoopTick
    <2>4. CASE LoopEvent
        BY <1>3, <2>1, <2>4 DEF LoopEvent
    <2>5. CASE LoopFlush
        <3>1. StartPass("flush", Head(flushRequests))
            BY <2>5 DEF LoopFlush
        <3> QED
            BY <2>1, <3>1
    <2> QED
        BY <2>2, <2>3, <2>4, <2>5 DEF Select
<1>5. LoopClosed'
    BY <1>2, <1>4 DEF ClosedOK, LoopClosed
<1>6. CallsClosed'
    BY <1>2 DEF ClosedOK, CallsClosed
<1> QED
    BY <1>5, <1>6 DEF ClosedOK, CallsClosed, LoopClosed

\* Only finish leaves the passes for good (batcher.go:301-366), with nothing left in
\* channel or pending.
LEMMA SendChunksClosed ==
    ASSUME IInv, ClosedOK, SendChunks
    PROVE  ClosedOK'
<1>1. TypeOK /\ JobOK
    BY DEF IInv, QueueInv
<1>2. /\ pc \in {"recovered", "chunk"}
      /\ UNCHANGED <<closed, stopped, doneClosed, track, shutter>>
    BY DEF SendChunks, PassBlocked, PersistPending, StartChunks, NextChunk, NoMoreChunks,
       LoopUnchanged
<1>3. CallsClosed'
    BY <1>2 DEF ClosedOK, CallsClosed
<1>4. pass \in Passes
    BY <1>1 DEF TypeOK
<1>5. ~doneClosed /\ ~doneClosed'
    BY <1>2 DEF ClosedOK
<1>6. ASSUME EndPass PROVE LoopClosed'
    BY <1>5, <1>6 DEF EndPass, NoPass, LoopClosed
<1>7. ASSUME PassBlocked PROVE LoopClosed'
    BY <1>6, <1>7 DEF PassBlocked
<1>8. ASSUME PersistPending PROVE LoopClosed'
    <2>1. /\ pass.purpose = "finish" /\ pc' = "chunk" /\ pass' = [pass EXCEPT !.purpose = "persist"]
          /\ events' = <<>>
        BY <1>8, DrainsAll DEF PersistPending
    <2>2. stopped
        BY <2>1 DEF ClosedOK
    <2>3. pass'.purpose = "persist"
        BY <1>4, <2>1 DEF Passes
    <2> QED
        BY <1>2, <1>5, <2>1, <2>2, <2>3 DEF LoopClosed
<1>9. ASSUME StartChunks PROVE LoopClosed'
    <2>1. pass' = pass /\ pc' = "chunk"
        BY <1>9 DEF StartChunks
    <2>2. pass.purpose # "persist"
        BY <1>1, <1>9 DEF StartChunks, JobOK, Sends
    <2> QED
        BY <1>2, <1>5, <2>1, <2>2 DEF ClosedOK, LoopClosed
<1>10. ASSUME NextChunk PROVE LoopClosed'
    <2>1. /\ pass' = pass /\ pc' = IF pass.purpose = "persist" THEN "persist" ELSE "deliver"
          /\ events' = Undrained
        BY <1>10 DEF NextChunk
    <2>2. pass.purpose = "persist" => events' = <<>>
        BY <2>1 DEF Undrained, ClosedOK
    <2> QED
        BY <1>2, <1>5, <2>1, <2>2 DEF ClosedOK, LoopClosed
<1>11. ASSUME NoMoreChunks, pass.purpose \in {"finish", "persist"} PROVE LoopClosed'
    <2>1. /\ pc' = "exit" /\ pass' = NoPass /\ UNCHANGED <<events, pending>> /\ Waiting = <<>>
        BY <1>11 DEF NoMoreChunks
    <2>2. stopped
        BY <1>11 DEF ClosedOK
    <2>3. events = <<>> /\ pending = <<>>
        <3>1. CASE pass.purpose = "finish"
            BY <2>1, <3>1, DrainsAll DEF Waiting
        <3>2. CASE pass.purpose = "persist"
            BY <2>1, <3>2 DEF Waiting, ClosedOK
        <3> QED
            BY <1>11, <3>1, <3>2
    <2> QED
        BY <1>2, <1>5, <2>1, <2>2, <2>3 DEF NoPass, LoopClosed
<1>12. ASSUME NoMoreChunks, pass.purpose \notin {"finish", "persist"} PROVE LoopClosed'
    BY <1>6, <1>12 DEF NoMoreChunks
<1> QED
    BY <1>3, <1>7, <1>8, <1>9, <1>10, <1>11, <1>12
    DEF SendChunks, ClosedOK, CallsClosed, LoopClosed

\* A step of deliver stays within its pass, or ends it.
LEMMA DeliverPass ==
    ASSUME TypeOK, JobOK, Deliver
    PROVE  /\ DeliverUnchanged /\ pc \in Sends
           /\ pc' \in {"settle", "account", "deliver", "select", "chunk"}
           /\ \/ /\ pass'.purpose = pass.purpose /\ pass'.serving = pass.serving
                 /\ pass'.blocked = pass.blocked
                 /\ pass.err => pass'.err
              \/ pass' = NoPass /\ pc' = "select" /\ pass.purpose = "size"
<1>1. pass \in Passes
    BY DEF TypeOK
<1>2. DeliverUnchanged /\ pc \in Sends
    BY DEF Deliver, SplitLimit, SendDelivered, SendTerminal, SendSplit, SendRetained,
       SendFailed, SendUnstored, Persisted, NotPersisted, Settle, Account, Sending,
       Resolve, Sends
<1>3. ASSUME NEW f \in Outcomes, NEW err \in BOOLEAN, Decides(f, err)
      PROVE  /\ pc' = "settle" /\ pass'.purpose = pass.purpose /\ pass'.serving = pass.serving
             /\ pass'.blocked = pass.blocked
             /\ pass.err => pass'.err
    <2>1. pc' = "settle" /\ pass' = [pass EXCEPT !.err = @ \/ err]
        BY <1>3 DEF Decides, Resolve, FirstErr
    <2> QED
        BY <1>1, <2>1 DEF Passes
<1>4. CASE SendSplit
    BY <1>2, <1>4 DEF SendSplit, Sending
<1>5. CASE Settle
    BY <1>2, <1>5 DEF Settle
<1>6. CASE Account
    BY <1>2, <1>6 DEF Account
<1> QED
    BY <1>2, <1>3, <1>4, <1>5, <1>6, DeliverCases

\* ClosedOK is kept by every step.
LEMMA ClosedNext ==
    ASSUME IInv, MemoryOK, ClosedOK, [Next]_vars
    PROVE  ClosedOK'
<1>1. TypeOK /\ JobOK
    BY DEF IInv, QueueInv
<1>2. CASE Reject \/ Track
    BY <1>2, TrackClosed
<1>3. CASE Select
    BY <1>3, SelectClosed
<1>4. CASE Recover
    <2>1. /\ RecoverUnchanged /\ pc \in {"recover"} \union Counts
          /\ pc' \in {"recover", "recovered"} \union Counts
          /\ pass'.purpose = pass.purpose /\ pass.purpose # "persist"
        BY <1>4, RecoverMemory
    <2>2. UNCHANGED <<closed, stopped, doneClosed, track, shutter, events, pending>>
        BY <2>1 DEF RecoverUnchanged, LoopUnchanged
    <2>3. {pc, pc'} \cap {"exit", "closing", "done", "persist"} = {}
        BY <2>1 DEF Counts
    <2>4. CallsClosed'
        BY <2>2 DEF ClosedOK, CallsClosed
    <2>5. LoopClosed'
        BY <2>1, <2>2, <2>3 DEF ClosedOK, LoopClosed
    <2> QED
        BY <2>4, <2>5 DEF ClosedOK, CallsClosed, LoopClosed
<1>5. CASE SendChunks
    BY <1>5, SendChunksClosed
<1>6. CASE Deliver
    <2>1. /\ DeliverUnchanged /\ pc \in Sends
          /\ pc' \in {"settle", "account", "deliver", "select", "chunk"}
          /\ pass'.purpose = pass.purpose \/ pass' = NoPass
        BY <1>1, <1>6, DeliverPass
    <2>2. UNCHANGED <<closed, stopped, doneClosed, track, shutter, events, pending>>
        BY <2>1 DEF DeliverUnchanged, LoopUnchanged
    <2>3. CallsClosed'
        BY <2>2 DEF ClosedOK, CallsClosed
    <2>4. LoopClosed'
        BY <2>1, <2>2 DEF ClosedOK, LoopClosed, Sends, NoPass
    <2> QED
        BY <2>3, <2>4 DEF ClosedOK, CallsClosed, LoopClosed
<1>7. CASE Exit
    <2>1. /\ UNCHANGED <<closed, stopped, track, shutter, events, pending, pass>>
          /\ pc \in {"exit", "closing"} /\ pc' \in {"exit", "closing", "done"}
          /\ \/ doneClosed' = doneClosed /\ pc' # "done"
             \/ doneClosed' /\ pc' = "done"
        BY <1>7 DEF Exit, ReplyPendingFlush, NoPendingFlush, CloseDone, ExitUnchanged,
           LoopUnchanged
    <2>2. CallsClosed'
        BY <2>1 DEF ClosedOK, CallsClosed
    <2>3. LoopClosed'
        BY <2>1 DEF ClosedOK, LoopClosed
    <2> QED
        BY <2>2, <2>3 DEF ClosedOK, CallsClosed, LoopClosed
<1>8. ASSUME NEW f \in Flushers, Flush(f) PROVE ClosedOK'
    <2>1. FlushUnchanged
        BY <1>8 DEF Flush, FlushCall, FlushEnqueue, FlushReply, FlushClosed, FlushAbandon
    <2>2. UNCHANGED <<closed, stopped, doneClosed, track, shutter, events, pending, pass, pc>>
        BY <2>1 DEF FlushUnchanged, signals, loop
    <2> QED
        BY <2>2 DEF ClosedOK
<1>9. ASSUME NEW s \in Shutters, Shutdown(s) PROVE ClosedOK'
    BY <1>1, <1>9, ShutdownClosed
<1>10. CASE UNCHANGED vars
    <2>1. UNCHANGED <<closed, stopped, doneClosed, track, shutter, events, pending, pass, pc>>
        BY <1>10 DEF vars, signals, loop
    <2> QED
        BY <2>1 DEF ClosedOK
<1>11. CASE Finished
    BY <1>10, <1>11 DEF Finished
<1> QED
    BY <1>2, <1>3, <1>4, <1>5, <1>6, <1>7, <1>8, <1>9, <1>10, <1>11
    DEF Next, LoopWork, Select

---------------------------------------------------------------------------
(* A Flush call sends one request, and only that one is answered *)

\* Flush call f has a request in the channel.
Queued(f) == \E i \in 1 .. Len(flushRequests) : flushRequests[i] = f

\* Asked carries over when nothing new is asked of the loop or promised to the call
\* (batcher.go:159-184).
LEMMA AskedKept ==
    ASSUME NEW f \in Flushers, Asked(f),
           flusher'[f].pc \in {"idle", "calling"} =>
              flusher[f].pc \in {"idle", "calling"} /\ flusher'[f].reply = flusher[f].reply
              /\ flusher'[f].result = flusher[f].result,
           flusher'[f].due = flusher[f].due,
           Queued(f)' => Queued(f),
           pass'.serving = f => pass.serving = f
    PROVE  Asked(f)'
<1>1. /\ flusher[f].pc \in {"idle", "calling"} => ~Queued(f)
      /\ Queued(f) => flusher[f].due = {} /\ pass.serving # f
    BY DEF Asked, Queued
<1>2. /\ flusher'[f].pc \in {"idle", "calling"} => ~Queued(f)'
      /\ Queued(f)' => flusher'[f].due = {} /\ pass'.serving # f
    BY <1>1
<1>3. flusher'[f].pc \in {"idle", "calling"} =>
          /\ pass'.serving # f /\ flusher'[f].reply = "none" /\ flusher'[f].result = "none"
          /\ flusher'[f].due = {}
    BY DEF Asked
<1> QED
    BY <1>2, <1>3 DEF Asked, Queued

\* Steps that touch neither the request channel nor a Flush call, and serve no other
\* call, keep the requests in order.
LEMMA RequestsQuiet ==
    ASSUME RequestsOK, UNCHANGED <<flushRequests, flusher>>,
           pass'.serving \in {pass.serving, NoFlusher}
    PROVE  RequestsOK'
<1>1. ASSUME NEW f \in Flushers PROVE Asked(f)'
    <2>1. f # NoFlusher
        BY ConfigAssumption
    <2>2. Asked(f)
        BY DEF RequestsOK
    <2>3. Queued(f)' => Queued(f)
        BY DEF Queued
    <2> QED
        BY <2>1, <2>2, <2>3, AskedKept
<1> QED
    BY <1>1 DEF RequestsOK

\* What Answer does to the call it answers, and that it leaves the others alone.
LEMMA AnswerFacts ==
    ASSUME flusher \in [Flushers -> FlushCalls], NEW h \in Flushers \union {NoFlusher},
           NEW reply, flusher' = Answer(h, reply), NEW f \in Flushers
    PROVE  /\ flusher'[f].pc = flusher[f].pc /\ flusher'[f].result = flusher[f].result
           /\ flusher'[f].due = flusher[f].due /\ flusher'[f].mark = flusher[f].mark
           /\ f # h => flusher'[f].reply = flusher[f].reply
           /\ f = h => flusher'[f].reply = reply
<1>1. flusher[f] \in FlushCalls
    OBVIOUS
<1>2. f # NoFlusher
    BY ConfigAssumption
<1>3. CASE f = h
    BY <1>1, <1>2, <1>3 DEF Answer, FlushCalls
<1>4. CASE f # h
    BY <1>1, <1>2, <1>4 DEF Answer, FlushCalls
<1> QED
    BY <1>3, <1>4

\* An answer goes to a call that waits for one, or has given up waiting.
LEMMA AnswerRequests ==
    ASSUME TypeOK, RequestsOK, NEW h \in Flushers \union {NoFlusher}, NEW reply,
           flusher' = Answer(h, reply), pass'.serving \in {pass.serving, NoFlusher},
           h \in Flushers => flusher[h].pc \notin {"idle", "calling"},
           NEW q \in Seq(Flushers), flushRequests' = q,
           q = flushRequests \/ (flushRequests # <<>> /\ q = Tail(flushRequests))
    PROVE  RequestsOK'
<1>1. flusher \in [Flushers -> FlushCalls] /\ flushRequests \in Seq(Flushers)
    BY DEF TypeOK
<1>2. /\ Len(q) <= Len(flushRequests)
      /\ \E d \in {0, 1} : Len(q) + d = Len(flushRequests)
                         /\ \A i \in 1 .. Len(q) : q[i] = flushRequests[i + d]
    <2>1. CASE q = flushRequests
        BY <1>1, <2>1
    <2>2. CASE flushRequests # <<>> /\ q = Tail(flushRequests)
        <3>1. /\ Len(q) = Len(flushRequests) - 1
              /\ \A i \in 1 .. Len(flushRequests) - 1 : q[i] = flushRequests[i + 1]
            BY <1>1, <2>2, TailFacts
        <3> QED
            BY <1>1, <3>1
    <2> QED
        BY <2>1, <2>2
<1>3. PICK d \in {0, 1} : Len(q) + d = Len(flushRequests)
                          /\ \A i \in 1 .. Len(q) : q[i] = flushRequests[i + d]
    BY <1>2
<1>4. ASSUME NEW f \in Flushers PROVE Asked(f)'
    <2>1. f # NoFlusher
        BY ConfigAssumption
    <2>2. Asked(f)
        BY DEF RequestsOK
    <2>3. Queued(f)' => Queued(f)
        <3>1. ASSUME NEW i \in 1 .. Len(q), q[i] = f PROVE Queued(f)
            <4>1. i + d \in 1 .. Len(flushRequests) /\ flushRequests[i + d] = f
                BY <1>1, <1>3, <3>1
            <4> QED
                BY <4>1 DEF Queued
        <3> QED
            BY <3>1 DEF Queued
    <2>4. /\ flusher'[f].pc = flusher[f].pc /\ flusher'[f].result = flusher[f].result
          /\ flusher'[f].due = flusher[f].due
          /\ f # h => flusher'[f].reply = flusher[f].reply
        BY <1>1, AnswerFacts
    <2> QED
        BY <2>1, <2>2, <2>3, <2>4, AskedKept
<1>5. ASSUME NEW i \in 1 .. Len(q), NEW j \in 1 .. Len(q), i # j
      PROVE  q[i] # q[j]
    <2>1. i + d \in 1 .. Len(flushRequests) /\ j + d \in 1 .. Len(flushRequests) /\ i + d # j + d
        BY <1>1, <1>3, <1>5
    <2>2. flushRequests[i + d] # flushRequests[j + d]
        BY <2>1 DEF RequestsOK
    <2> QED
        BY <1>3, <2>2
<1> QED
    BY <1>4, <1>5 DEF RequestsOK

\* A step of a Flush call (batcher.go:159-184) changes its own entry and, at most,
\* puts its one request into the channel.
LEMMA FlushRequestsOK ==
    ASSUME TypeOK, RequestsOK, NEW f \in Flushers, Flush(f)
    PROVE  RequestsOK'
<1>1. flusher \in [Flushers -> FlushCalls] /\ flushRequests \in Seq(Flushers)
    BY DEF TypeOK
<1>2. UNCHANGED pass
    BY DEF Flush, FlushCall, FlushEnqueue, FlushReply, FlushClosed, FlushAbandon,
       FlushUnchanged, loop
<1>3. \A g \in Flushers : Asked(g)
    BY DEF RequestsOK
<1>4. flusher[f] \in FlushCalls
    BY <1>1
<1>5. ASSUME NEW g \in Flushers, g # f PROVE flusher'[g] = flusher[g]
    BY <1>1, <1>5 DEF Flush, FlushCall, FlushEnqueue, FlushReply, FlushClosed, FlushAbandon,
       FlushReturns
<1>6. CASE FlushEnqueue(f)
    <2>1. /\ flusher[f].pc = "calling" /\ flushRequests' = Append(flushRequests, f)
          /\ flusher' = [flusher EXCEPT ![f].pc = "waiting"]
        BY <1>6 DEF FlushEnqueue
    <2>2. flusher'[f].pc = "waiting" /\ flusher'[f].due = flusher[f].due
        BY <1>1, <1>4, <2>1 DEF FlushCalls
    <2>3. ~Queued(f) /\ flusher[f].due = {} /\ pass.serving # f
        BY <1>3, <2>1 DEF Asked, Queued
    <2>4. /\ Len(flushRequests') = Len(flushRequests) + 1 /\ Len(flushRequests) \in Nat
          /\ \A i \in 1 .. Len(flushRequests) : flushRequests'[i] = flushRequests[i]
          /\ flushRequests'[Len(flushRequests) + 1] = f
        BY <1>1, <2>1
    <2>5. ASSUME NEW g \in Flushers PROVE Asked(g)'
        <3>1. CASE g = f
            BY <1>2, <2>2, <2>3, <3>1 DEF Asked
        <3>2. CASE g # f
            <4>1. Queued(g)' => Queued(g)
                <5>1. ASSUME NEW i \in 1 .. Len(flushRequests'), flushRequests'[i] = g
                      PROVE  Queued(g)
                    <6>1. i \in 1 .. Len(flushRequests) /\ flushRequests[i] = g
                        BY <2>4, <3>2, <5>1
                    <6> QED
                        BY <6>1 DEF Queued
                <5> QED
                    BY <5>1 DEF Queued
            <4>2. flusher'[g] = flusher[g]
                BY <1>5, <3>2
            <4> QED
                BY <1>2, <1>3, <4>1, <4>2, AskedKept
        <3> QED
            BY <3>1, <3>2
    <2>6. ASSUME NEW i \in 1 .. Len(flushRequests'), NEW j \in 1 .. Len(flushRequests'), i # j
          PROVE  flushRequests'[i] # flushRequests'[j]
        <3>1. \A k \in 1 .. Len(flushRequests) : flushRequests[k] # f
            BY <2>3 DEF Queued
        <3>2. \A k, l \in 1 .. Len(flushRequests) : k # l => flushRequests[k] # flushRequests[l]
            BY DEF RequestsOK
        <3> QED
            BY <2>4, <2>6, <3>1, <3>2
    <2> QED
        BY <2>5, <2>6 DEF RequestsOK
<1>7. CASE FlushCall(f) \/ FlushReply(f) \/ FlushClosed(f) \/ FlushAbandon(f)
    <2>1. flushRequests' = flushRequests
        BY <1>7 DEF FlushCall, FlushReply, FlushClosed, FlushAbandon
    <2>2. /\ flusher'[f].due = flusher[f].due
          /\ flusher'[f].pc \in {"idle", "calling"} =>
                flusher[f].pc \in {"idle", "calling"} /\ flusher'[f].reply = flusher[f].reply
                /\ flusher'[f].result = flusher[f].result
        <3>1. CASE FlushCall(f)
            <4>1. flusher' = [flusher EXCEPT ![f].pc = "calling", ![f].mark = Unresolved]
                  /\ flusher[f].pc = "idle"
                BY <3>1 DEF FlushCall
            <4> QED
                BY <1>1, <1>4, <4>1 DEF FlushCalls
        <3>2. CASE FlushReply(f) \/ FlushClosed(f) \/ FlushAbandon(f)
            <4>1. PICK result : FlushReturns(f, result)
                BY <3>2 DEF FlushReply, FlushClosed, FlushAbandon
            <4> QED
                BY <1>1, <1>4, <4>1 DEF FlushReturns, FlushCalls
        <3> QED
            BY <1>7, <3>1, <3>2
    <2>3. ASSUME NEW g \in Flushers PROVE Asked(g)'
        <3>1. Queued(g)' => Queued(g)
            BY <2>1 DEF Queued
        <3>2. CASE g = f
            BY <1>2, <1>3, <2>2, <3>1, <3>2, AskedKept
        <3>3. CASE g # f
            <4>1. flusher'[g] = flusher[g]
                BY <1>5, <3>3
            <4> QED
                BY <1>2, <1>3, <3>1, <4>1, AskedKept
        <3> QED
            BY <3>2, <3>3
    <2> QED
        BY <2>1, <2>3 DEF RequestsOK
<1> QED
    BY <1>6, <1>7 DEF Flush

\* The loop takes the oldest request out of the channel to serve it
\* (batcher.go:294-297).
LEMMA LoopFlushRequests ==
    ASSUME TypeOK, RequestsOK, LoopFlush
    PROVE  RequestsOK'
<1>1. flusher \in [Flushers -> FlushCalls] /\ flushRequests \in Seq(Flushers)
    BY DEF TypeOK
<1>2. flushRequests # <<>> /\ flushRequests' = Tail(flushRequests)
    BY DEF LoopFlush
<1>3. Len(flushRequests) \in Nat \ {0} /\ Head(flushRequests) = flushRequests[1]
      /\ Head(flushRequests) \in Flushers
    BY <1>1, <1>2
<1> DEFINE h == Head(flushRequests)
<1>4. /\ pass'.serving = h
      /\ flusher' = [flusher EXCEPT ![h].due = @ \union (flusher[h].mark \cap Unresolved)]
    BY DEF LoopFlush, StartPass, NoPass
<1>5. /\ Len(flushRequests') = Len(flushRequests) - 1
      /\ \A i \in 1 .. Len(flushRequests) - 1 : flushRequests'[i] = flushRequests[i + 1]
    BY <1>1, <1>2, TailFacts
<1>6. Queued(h)
    BY <1>3 DEF Queued
<1>7. flusher[h].pc \notin {"idle", "calling"}
    BY <1>3, <1>6 DEF RequestsOK, Asked, Queued
<1>8. \A k, l \in 1 .. Len(flushRequests) : k # l => flushRequests[k] # flushRequests[l]
    BY DEF RequestsOK
<1>9. \A g \in Flushers : Queued(g)' => Queued(g) /\ g # h
    <2>1. ASSUME NEW g \in Flushers, NEW i \in 1 .. Len(flushRequests'), flushRequests'[i] = g
          PROVE  Queued(g) /\ g # h
        <3>1. i + 1 \in 1 .. Len(flushRequests) /\ flushRequests[i + 1] = g /\ i + 1 # 1
            BY <1>3, <1>5, <2>1
        <3>2. g # h
            BY <1>3, <1>8, <3>1
        <3> QED
            BY <3>1, <3>2 DEF Queued
    <2> QED
        BY <2>1 DEF Queued
<1>10. ASSUME NEW g \in Flushers PROVE Asked(g)'
    <2>1. CASE g = h
        <3>1. flusher'[h].pc = flusher[h].pc
            BY <1>1, <1>3, <1>4 DEF FlushCalls
        <3> QED
            BY <1>7, <1>9, <2>1, <3>1 DEF Asked, Queued
    <2>2. CASE g # h
        <3>1. flusher'[g] = flusher[g]
            BY <1>1, <1>4, <2>2
        <3>2. Asked(g)
            BY DEF RequestsOK
        <3>3. pass'.serving # g
            BY <1>4, <2>2
        <3>4. Queued(g)' => Queued(g)
            BY <1>9
        <3> QED
            BY <3>1, <3>2, <3>3, <3>4, AskedKept
    <2> QED
        BY <2>1, <2>2
<1>11. ASSUME NEW i \in 1 .. Len(flushRequests'), NEW j \in 1 .. Len(flushRequests'), i # j
       PROVE  flushRequests'[i] # flushRequests'[j]
    <2>1. i + 1 \in 1 .. Len(flushRequests) /\ j + 1 \in 1 .. Len(flushRequests) /\ i + 1 # j + 1
        BY <1>3, <1>5, <1>11
    <2>2. flushRequests[i + 1] # flushRequests[j + 1]
        BY <1>8, <2>1
    <2> QED
        BY <1>3, <1>5, <2>2
<1> QED
    BY <1>10, <1>11 DEF RequestsOK

\* RequestsOK is kept by every step.
LEMMA RequestsNext ==
    ASSUME IInv, MemoryOK, RequestsOK, [Next]_vars
    PROVE  RequestsOK'
<1>1. TypeOK /\ JobOK
    BY DEF IInv, QueueInv
<1>2. flushRequests \in Seq(Flushers) /\ pass \in Passes
    BY <1>1 DEF TypeOK
<1>3. pass.serving \in Flushers \union {NoFlusher}
    BY <1>2 DEF Passes
<1>4. CASE Reject \/ Track
    <2>1. TrackUnchanged
        BY <1>4 DEF Reject, Track, TrackBegin, TrackLoadOwned, TrackAdmit, TrackReserve,
           TrackSend, TrackCount
    <2>2. UNCHANGED <<flushRequests, flusher, pass>>
        BY <2>1 DEF TrackUnchanged, loop
    <2> QED
        BY <2>2, RequestsQuiet
<1>5. CASE LoopStop \/ LoopEvent \/ LoopTick
    <2>1. UNCHANGED <<flushRequests, flusher>>
        BY <1>5 DEF LoopStop, LoopEvent, LoopTick
    <2>2. pass'.serving \in {pass.serving, NoFlusher}
        BY <1>5 DEF LoopStop, LoopEvent, LoopTick, StartPass, NoPass
    <2> QED
        BY <2>1, <2>2, RequestsQuiet
<1>6. CASE LoopFlush
    BY <1>1, <1>6, LoopFlushRequests
<1>7. CASE Recover
    <2>1. RecoverUnchanged /\ pass'.serving = pass.serving
        BY <1>7, RecoverMemory
    <2> QED
        BY <2>1, RequestsQuiet DEF RecoverUnchanged
<1>8. CASE SendChunks
    <2>1. flushRequests' = flushRequests
        BY <1>8 DEF SendChunks, PassBlocked, PersistPending, StartChunks, NextChunk,
           NoMoreChunks
    <2>2. CASE EndPass
        <3>1. pass.serving \in Flushers => flusher[pass.serving].pc \notin {"idle", "calling"}
            BY DEF RequestsOK, Asked
        <3>2. pass'.serving = NoFlusher
            BY <2>2 DEF EndPass, NoPass
        <3>3. flusher' = Answer(pass.serving, IF pass.err THEN "error" ELSE "nil")
            BY <2>2 DEF EndPass
        <3> QED
            BY <1>1, <1>2, <1>3, <2>1, <3>1, <3>2, <3>3, AnswerRequests
    <2>3. CASE ~EndPass
        <3>1. flusher' = flusher
            BY <1>8, <2>3 DEF SendChunks, PassBlocked, PersistPending, StartChunks, NextChunk,
               NoMoreChunks
        <3>2. pass'.serving \in {pass.serving, NoFlusher}
            BY <1>2, <1>8, <2>3 DEF SendChunks, PassBlocked, PersistPending, StartChunks,
               NextChunk, NoMoreChunks, NoPass, Passes
        <3> QED
            BY <2>1, <3>1, <3>2, RequestsQuiet
    <2> QED
        BY <2>2, <2>3
<1>9. CASE Deliver
    <2>1. DeliverUnchanged /\ pass'.serving \in {pass.serving, NoFlusher}
        BY <1>1, <1>9, DeliverPass DEF NoPass
    <2> QED
        BY <2>1, RequestsQuiet DEF DeliverUnchanged
<1>10. CASE ReplyPendingFlush
    <2>1. /\ flushRequests # <<>> /\ flushRequests' = Tail(flushRequests)
          /\ flusher' = Answer(Head(flushRequests), "closed") /\ pass' = pass
        BY <1>10 DEF ReplyPendingFlush, ExitUnchanged
    <2>2. /\ Head(flushRequests) = flushRequests[1] /\ Len(flushRequests) \in Nat \ {0}
          /\ Head(flushRequests) \in Flushers
        BY <1>2, <2>1
    <2>3. Queued(Head(flushRequests))
        BY <2>2 DEF Queued
    <2>4. flusher[Head(flushRequests)].pc \notin {"idle", "calling"}
        BY <2>2, <2>3 DEF RequestsOK, Asked, Queued
    <2>5. Tail(flushRequests) \in Seq(Flushers)
        BY <1>2, <2>1
    <2> QED
        BY <1>1, <2>1, <2>2, <2>4, <2>5, AnswerRequests
<1>11. CASE NoPendingFlush \/ CloseDone
    <2>1. UNCHANGED <<flushRequests, flusher, pass>>
        BY <1>11 DEF NoPendingFlush, CloseDone, ExitUnchanged
    <2> QED
        BY <2>1, RequestsQuiet
<1>12. ASSUME NEW f \in Flushers, Flush(f) PROVE RequestsOK'
    BY <1>1, <1>12, FlushRequestsOK
<1>13. ASSUME NEW s \in Shutters, Shutdown(s) PROVE RequestsOK'
    <2>1. ShutdownUnchanged
        BY <1>13 DEF Shutdown, ShutdownClose, ShutdownStop, ShutdownAgain, WaitDone, Deadline,
           DeadlineFailed, DeadlineRecoveryFailed, DeadlineDelivered, DeadlineReturn,
           DeadlineStep
    <2>2. UNCHANGED <<flushRequests, flusher, pass>>
        BY <2>1 DEF ShutdownUnchanged, loop
    <2> QED
        BY <2>2, RequestsQuiet
<1>14. CASE UNCHANGED vars
    <2>1. UNCHANGED <<flushRequests, flusher, pass>>
        BY <1>14 DEF vars, loop
    <2> QED
        BY <2>1, RequestsQuiet
<1>15. CASE Finished
    BY <1>14, <1>15 DEF Finished
<1> QED
    BY <1>4, <1>5, <1>6, <1>7, <1>8, <1>9, <1>10, <1>11, <1>12, <1>13, <1>14, <1>15
    DEF Next, LoopWork, Exit

---------------------------------------------------------------------------
(* A Flush call is answered with what its pass achieved: FlushOK *)

\* A pass that got past recovery without an error found or left the log empty.
PassOK ==
    /\ pass.blocked => pass.err
    /\ pc \in {"chunk"} \union Sends /\ pass.purpose # "persist" /\ ~pass.err => wal = <<>>

\* PassOK is kept: an outcome that leaves an entry in the log, or a recovery that
\* cannot go on, is the error of the pass (batcher.go:386-404, 484-541).
LEMMA PassNext ==
    ASSUME IInv, MemoryOK, ClosedOK, PassOK, [Next]_vars
    PROVE  PassOK'
<1>1. TypeOK /\ JobOK /\ LogCounted
    BY DEF IInv, QueueInv
<1>2. pass \in Passes /\ pc \in Phases
    BY <1>1 DEF TypeOK
<1>3. pass.err \in BOOLEAN /\ pass.blocked \in BOOLEAN
    BY <1>2 DEF Passes
<1>4. ASSUME UNCHANGED <<pass, pc, wal>> PROVE PassOK'
    BY <1>4 DEF PassOK
<1>5. CASE Reject \/ Track
    <2>1. TrackUnchanged
        BY <1>5 DEF Reject, Track, TrackBegin, TrackLoadOwned, TrackAdmit, TrackReserve,
           TrackSend, TrackCount
    <2> QED
        BY <1>4, <2>1 DEF TrackUnchanged, loop, store
<1>6. CASE Select
    <2>1. ASSUME NEW purpose, NEW f, StartPass(purpose, f) PROVE PassOK'
        BY <2>1 DEF StartPass, NoPass, PassOK, Sends
    <2>2. CASE LoopStop \/ LoopTick
        BY <2>1, <2>2 DEF LoopStop, LoopTick
    <2>3. CASE LoopEvent
        <3>1. wal' = wal
            BY <2>3 DEF LoopEvent, store
        <3> QED
            BY <1>4, <2>1, <2>3, <3>1 DEF LoopEvent
    <2>4. CASE LoopFlush
        <3>1. StartPass("flush", Head(flushRequests))
            BY <2>4 DEF LoopFlush
        <3> QED
            BY <2>1, <3>1
    <2> QED
        BY <1>6, <2>2, <2>3, <2>4 DEF Select
<1>7. CASE Recover
    <2>1. pc' \in {"recover", "recovered"} \union Counts
        BY <1>7, RecoverMemory
    <2>2. pc' \notin {"chunk"} \union Sends
        BY <2>1 DEF Counts, Sends
    <2>3. ASSUME NEW b \in BOOLEAN, RecoverReturns(b) PROVE pass'.blocked => pass'.err
        BY <1>2, <1>3, <2>3 DEF RecoverReturns, Passes
    <2>4. ASSUME pass' = pass PROVE pass'.blocked => pass'.err
        BY <2>4 DEF PassOK
    <2>5. ASSUME RecoverEnds \/ RecoverBlocked PROVE pass'.blocked => pass'.err
        BY <2>3, <2>5 DEF RecoverEnds, RecoverBlocked
    <2>6. ASSUME \/ RecoverDelivered \/ CountFailed \/ CountRecoveryFailed \/ CountDurable
                 \/ CountDelivered
          PROVE  pass'.blocked => pass'.err
        BY <2>4, <2>6 DEF RecoverDelivered, CountFailed, CountRecoveryFailed, CountDurable,
           CountDelivered, CountStep
    <2>7. ASSUME RecoverTerminal PROVE pass'.blocked => pass'.err
        BY <1>2, <2>7 DEF RecoverTerminal, Passes
    <2>8. ASSUME CountOwned PROVE pass'.blocked => pass'.err
        BY <2>3, <2>4, <2>8 DEF CountOwned
    <2>9. pass'.blocked => pass'.err
        BY <1>7, <2>5, <2>6, <2>7, <2>8 DEF Recover
    <2> QED
        BY <2>2, <2>9 DEF PassOK
<1>8. CASE SendChunks
    <2>1. wal' = wal
        BY <1>8 DEF SendChunks, PassBlocked, PersistPending, StartChunks, NextChunk,
           NoMoreChunks, store
    <2>2. ASSUME EndPass PROVE PassOK'
        BY <2>2 DEF EndPass, NoPass, PassOK, Sends
    <2>3. CASE PassBlocked
        BY <2>2, <2>3 DEF PassBlocked
    <2>4. CASE PersistPending
        BY <1>2, <2>4 DEF PersistPending, PassOK, Passes
    <2>5. CASE StartChunks
        <3>1. pass' = pass /\ wal = <<>>
            BY <1>1, <2>5 DEF StartChunks, LogCounted
        <3> QED
            BY <2>1, <3>1 DEF PassOK
    <2>6. CASE NextChunk
        <3>1. pass' = pass /\ pc = "chunk"
            BY <2>6 DEF NextChunk
        <3> QED
            BY <2>1, <3>1 DEF PassOK
    <2>7. CASE NoMoreChunks
        <3>1. CASE EndPass
            BY <2>2, <3>1
        <3>2. CASE ~EndPass
            BY <2>7, <3>2 DEF NoMoreChunks, NoPass, PassOK, Sends
        <3> QED
            BY <3>1, <3>2
    <2> QED
        BY <1>8, <2>3, <2>4, <2>5, <2>6, <2>7 DEF SendChunks
<1>9. CASE Deliver
    <2>1. pc \in Sends
        BY <1>1, <1>9, DeliverPass
    <2>2. ASSUME NEW f \in Outcomes, NEW err \in BOOLEAN, Decides(f, err)
          PROVE  PassOK'
        <3>1. /\ pass' = [pass EXCEPT !.err = @ \/ err]
              /\ wal' = IF f = "retained" THEN Put ELSE wal
              /\ f = "retained" => err \/ pc = "persist"
            BY <2>2 DEF Decides, Resolve, FirstErr
        <3>2. /\ pass'.purpose = pass.purpose /\ pass'.blocked = pass.blocked
              /\ pass'.err = (pass.err \/ err)
            BY <1>2, <3>1 DEF Passes
        <3>3. CASE f = "retained"
            <4>1. CASE err
                BY <3>2, <4>1 DEF PassOK
            <4>2. CASE pc = "persist"
                <5>1. pass.purpose = "persist"
                    BY <4>2 DEF ClosedOK
                <5> QED
                    BY <3>2, <5>1 DEF PassOK
            <4> QED
                BY <3>1, <3>3, <4>1, <4>2
        <3>4. CASE f # "retained"
            <4>1. wal' = wal
                BY <3>1, <3>4
            <4> QED
                BY <2>1, <3>2, <4>1 DEF PassOK
        <3> QED
            BY <3>3, <3>4
    <2>3. CASE SendSplit \/ Settle \/ Account
        <3>1. wal' = wal
            BY <2>3 DEF SendSplit, Settle, Account, store
        <3>2. pass' = pass \/ (pass' = NoPass /\ pc' = "select")
            BY <2>3 DEF SendSplit, Settle, Account
        <3>3. CASE pass' = pass
            BY <2>1, <3>1, <3>3 DEF PassOK
        <3>4. CASE pass' = NoPass /\ pc' = "select"
            BY <3>4 DEF PassOK, NoPass, Sends
        <3> QED
            BY <3>2, <3>3, <3>4
    <2> QED
        BY <1>9, <2>2, <2>3, DeliverCases
<1>10. CASE Aside
    <2>1. pass' = pass /\ wal' = wal
        BY <1>10 DEF Aside, store
    <2>2. pc' = pc \/ pc' \notin {"chunk"} \union Sends
        BY <1>10 DEF Aside, Sends
    <2> QED
        BY <2>1, <2>2 DEF PassOK
<1> QED
    BY <1>5, <1>6, <1>7, <1>8, <1>9, <1>10, StepCases

\* The history only grows, and what is lost during a pass is an error of the pass
\* (batcher.go:386-404, 484-541).
LEMMA HistoryGrows ==
    ASSUME IInv, MemoryOK, [Next]_vars
    PROVE  /\ confirmed \subseteq confirmed' /\ lost \subseteq lost'
           /\ LastAccepted \in Int /\ LastAccepted' \in Int /\ LastAccepted <= LastAccepted'
           /\ lost' = lost \/ pass'.err
<1>1. TypeOK /\ JobOK
    BY DEF IInv, QueueInv
<1>2. LastAccepted \in Int
    BY <1>1, MemoryTypes
<1>3. pass \in Passes
    BY <1>1 DEF TypeOK
<1>4. CASE Keeps
    BY <1>2, <1>4 DEF Keeps, store
<1>5. CASE Accepts
    BY <1>2, <1>5 DEF Accepts, store
<1>6. CASE Dispatches
    <2>1. PICK f \in Outcomes, err \in BOOLEAN : Decides(f, err)
        BY <1>6 DEF Dispatches
    <2>2. /\ confirmed' = IF f = "delivered" THEN confirmed \union EventsOf(Piece) ELSE confirmed
          /\ lost' = IF f = "lost" THEN lost \union EventsOf(Piece) ELSE lost
          /\ pass' = [pass EXCEPT !.err = @ \/ err]
          /\ f = "lost" => err
        BY <2>1 DEF Decides, Resolve, FirstErr
    <2>3. pass'.err = (pass.err \/ err)
        BY <1>3, <2>2 DEF Passes
    <2>4. LastAccepted' = LastAccepted
        BY <1>6 DEF Dispatches
    <2>5. lost' = lost \/ pass'.err
        BY <2>2, <2>3
    <2> QED
        BY <1>2, <2>2, <2>4, <2>5
<1>7. CASE ReplaysRecord
    <2>1. PICK n \in 1 .. Len(wal), stop \in BOOLEAN : Replays(n, 0, stop) \/ Replays(n, n, stop)
        BY <1>7 DEF ReplaysRecord
    <2>2. LastAccepted' = LastAccepted
        BY <1>7 DEF ReplaysRecord
    <2>3. \/ /\ confirmed' = confirmed \union HeadEvents(n) /\ lost' = lost
          \/ /\ lost' = lost \union HeadEvents(n) /\ confirmed' = confirmed
             /\ pass' = [pass EXCEPT !.err = TRUE]
        BY <2>1 DEF Replays
    <2>4. lost' = lost \/ pass'.err
        BY <1>3, <2>3 DEF Passes
    <2> QED
        BY <1>2, <2>2, <2>3, <2>4
<1> QED
    BY <1>4, <1>5, <1>6, <1>7, ViewSteps

\* Events leave the channel in the order in which they entered it, so how far it has
\* been emptied only grows (batcher.go:135-157, 371-380).
LEMMA ChannelAdvances ==
    ASSUME IInv, MemoryOK, [Next]_vars
    PROVE  /\ LastAccepted - Len(events) \in Int /\ LastAccepted' - Len(events') \in Int
           /\ LastAccepted - Len(events) <= LastAccepted' - Len(events')
<1>1. TypeOK /\ JobOK
    BY DEF IInv, QueueInv
<1>2. LastAccepted \in Int /\ events \in Seq(Int) /\ Len(events) \in Nat
    BY <1>1, MemoryTypes
<1>3. ASSUME LastAccepted' = LastAccepted, events' = events
      PROVE  /\ LastAccepted - Len(events) \in Int /\ LastAccepted' - Len(events') \in Int
             /\ LastAccepted - Len(events) <= LastAccepted' - Len(events')
    BY <1>2, <1>3
<1>4. ASSUME LastAccepted' = LastAccepted, NEW n \in Nat, Len(events') = n, n <= Len(events)
      PROVE  /\ LastAccepted - Len(events) \in Int /\ LastAccepted' - Len(events') \in Int
             /\ LastAccepted - Len(events) <= LastAccepted' - Len(events')
    BY <1>2, <1>4
<1>5. ASSUME events' = Suffix(events, DrainCount)
      PROVE  \E n \in Nat : Len(events') = n /\ n <= Len(events)
    <2>1. DrainCount \in 0 .. Len(events) /\ Len(Suffix(events, DrainCount)) = Len(events) - DrainCount
        BY <1>1, DrainLengths
    <2>2. Len(events) - DrainCount \in Nat /\ Len(events) - DrainCount <= Len(events)
        BY <1>2, <2>1
    <2>3. Len(events') = Len(events) - DrainCount
        BY <1>5, <2>1
    <2> QED
        BY <2>2, <2>3
<1>6. CASE Reject \/ Track
    <2>1. \/ LastAccepted' = LastAccepted /\ events' = events
          \/ LastAccepted' = LastAccepted + 1 /\ Len(events') = Len(events) + 1
        BY <1>6, TrackMemory
    <2>2. CASE LastAccepted' = LastAccepted + 1 /\ Len(events') = Len(events) + 1
        BY <1>2, <2>2
    <2> QED
        BY <1>3, <2>1, <2>2
<1>7. CASE Select
    <2>1. LastAccepted' = LastAccepted
        BY <1>7, SelectMemory
    <2>2. CASE LoopStop \/ LoopTick
        BY <1>3, <2>1, <2>2 DEF LoopStop, LoopTick
    <2>3. CASE LoopEvent
        <3>1. events # <<>> /\ events' = Tail(events)
            BY <2>3 DEF LoopEvent
        <3>2. Len(events') = Len(events) - 1 /\ Len(events) - 1 \in Nat
            BY <1>2, <3>1
        <3> QED
            BY <1>2, <1>4, <2>1, <3>2
    <2>4. CASE LoopFlush
        BY <1>4, <1>5, <2>1, <2>4 DEF LoopFlush
    <2> QED
        BY <1>7, <2>2, <2>3, <2>4 DEF Select
<1>8. CASE SendChunks
    <2>1. LastAccepted' = LastAccepted
        BY <1>8, SendChunksMemory
    <2>2. CASE PersistPending
        BY <1>4, <1>5, <2>1, <2>2 DEF PersistPending
    <2>3. CASE StartChunks
        BY <1>3, <1>4, <1>5, <2>1, <2>3 DEF StartChunks
    <2>4. CASE NextChunk
        BY <1>3, <1>4, <1>5, <2>1, <2>4 DEF NextChunk, Undrained
    <2>5. CASE PassBlocked \/ NoMoreChunks
        BY <1>3, <2>1, <2>5 DEF PassBlocked, NoMoreChunks
    <2> QED
        BY <1>8, <2>2, <2>3, <2>4, <2>5 DEF SendChunks
<1>9. CASE Recover
    BY <1>3, <1>9, RecoverMemory DEF RecoverUnchanged
<1>10. CASE Deliver
    <2>1. DeliverUnchanged /\ LastAccepted' = LastAccepted
        BY <1>1, <1>10, DeliverPass, DeliverMemory
    <2> QED
        BY <1>3, <2>1 DEF DeliverUnchanged
<1>11. CASE Aside
    BY <1>3, <1>11, AsideMemory DEF Aside
<1> QED
    BY <1>6, <1>7, <1>8, <1>9, <1>10, <1>11, StepCases

\* Only LoopFlush starts to serve a call; the pass that serves it keeps its purpose
\* and its error until it ends (batcher.go:294-297, 386-404).
LEMMA ServingKept ==
    ASSUME IInv, MemoryOK, [Next]_vars, ~LoopFlush, NEW f \in Flushers, pass'.serving = f
    PROVE  /\ pass.serving = f
           /\ pass.purpose = "flush" => pass'.purpose = "flush"
           /\ pass.err => pass'.err
<1>1. TypeOK /\ JobOK
    BY DEF IInv, QueueInv
<1>2. pass \in Passes
    BY <1>1 DEF TypeOK
<1>3. f # NoFlusher /\ pass' # NoPass
    BY ConfigAssumption DEF NoPass
<1>4. CASE Reject \/ Track
    <2>1. TrackUnchanged
        BY <1>4 DEF Reject, Track, TrackBegin, TrackLoadOwned, TrackAdmit, TrackReserve,
           TrackSend, TrackCount
    <2> QED
        BY <2>1 DEF TrackUnchanged, loop
<1>5. CASE Select
    <2>1. ASSUME NEW purpose PROVE ~StartPass(purpose, NoFlusher)
        BY <1>3 DEF StartPass, NoPass
    <2>2. LoopEvent /\ pass' = pass
        BY <1>5, <2>1 DEF Select, LoopStop, LoopTick, LoopEvent
    <2> QED
        BY <2>2
<1>6. CASE Recover
    <2>1. pass'.purpose = pass.purpose /\ pass'.serving = pass.serving
        BY <1>6, RecoverMemory
    <2>2. pass' = pass \/ (\E b \in BOOLEAN : RecoverReturns(b)) \/ pass' = [pass EXCEPT !.err = TRUE]
        BY <1>6 DEF Recover, RecoverEnds, RecoverBlocked, RecoverDelivered, RecoverTerminal,
           CountFailed, CountRecoveryFailed, CountDurable, CountDelivered, CountStep, CountOwned
    <2>3. pass.err => pass'.err
        BY <1>2, <2>2 DEF RecoverReturns, Passes
    <2> QED
        BY <2>1, <2>3
<1>7. CASE SendChunks
    <2>1. \/ pass' = pass
          \/ pass.purpose = "finish" /\ pass' = [pass EXCEPT !.purpose = "persist"]
        BY <1>3, <1>7 DEF SendChunks, PassBlocked, PersistPending, StartChunks, NextChunk,
           NoMoreChunks, EndPass
    <2> QED
        BY <1>2, <2>1 DEF Passes
<1>8. CASE Deliver
    BY <1>1, <1>3, <1>8, DeliverPass
<1>9. CASE Aside
    BY <1>9 DEF Aside
<1> QED
    BY <1>4, <1>5, <1>6, <1>7, <1>8, <1>9, StepCases

\* What FlushOK says of one call.
Fulfilled(f) ==
    /\ flusher[f].due \subseteq flusher[f].mark
    /\ flusher[f].mark \subseteq (1 - Recovered) .. LastAccepted
    /\ flusher[f].reply = "nil" \/ flusher[f].result = "nil" =>
          flusher[f].due \subseteq confirmed /\ flusher[f].mark \subseteq confirmed \union lost
    /\ pass.serving = f => Served(f)

\* What was promised to a call and told to it stays true while the history grows.
LEMMA FulfilledKept ==
    ASSUME IInv, MemoryOK, [Next]_vars, NEW f \in Flushers, Fulfilled(f),
           flusher'[f].mark = flusher[f].mark, flusher'[f].due = flusher[f].due,
           \/ flusher'[f].reply # "nil" /\ flusher'[f].result # "nil"
           \/ flusher[f].reply = "nil" \/ flusher[f].result = "nil",
           ~LoopFlush \/ pass'.serving # f
    PROVE  Fulfilled(f)'
<1>1. /\ confirmed \subseteq confirmed' /\ lost \subseteq lost'
      /\ LastAccepted \in Int /\ LastAccepted' \in Int /\ LastAccepted <= LastAccepted'
      /\ lost' = lost \/ pass'.err
    BY HistoryGrows
<1>2. /\ LastAccepted - Len(events) \in Int /\ LastAccepted' - Len(events') \in Int
      /\ LastAccepted - Len(events) <= LastAccepted' - Len(events')
    BY ChannelAdvances
<1>3. Recovered \in Int
    BY ConfigAssumption
<1>4. flusher'[f].mark \subseteq (1 - Recovered) .. LastAccepted'
    <2>1. (1 - Recovered) .. LastAccepted \subseteq (1 - Recovered) .. LastAccepted'
        BY <1>1, <1>3
    <2> QED
        BY <2>1 DEF Fulfilled
<1>5. flusher'[f].reply = "nil" \/ flusher'[f].result = "nil" =>
         flusher'[f].due \subseteq confirmed' /\ flusher'[f].mark \subseteq confirmed' \union lost'
    BY <1>1 DEF Fulfilled
<1>6. ASSUME pass'.serving = f
      PROVE  /\ pass'.purpose = "flush"
             /\ flusher'[f].mark \subseteq (1 - Recovered) .. (LastAccepted' - Len(events'))
             /\ ~pass'.err => flusher'[f].due \cap lost' = {}
    <2>1. /\ pass.serving = f
          /\ pass.purpose = "flush" => pass'.purpose = "flush"
          /\ pass.err => pass'.err
        BY <1>6, ServingKept
    <2>2. Served(f)
        BY <2>1 DEF Fulfilled
    <2>3. (1 - Recovered) .. (LastAccepted - Len(events))
             \subseteq (1 - Recovered) .. (LastAccepted' - Len(events'))
        BY <1>2, <1>3
    <2>4. flusher'[f].mark \subseteq (1 - Recovered) .. (LastAccepted' - Len(events'))
        BY <2>2, <2>3 DEF Served
    <2>5. ~pass'.err => flusher'[f].due \cap lost' = {}
        BY <1>1, <2>1, <2>2 DEF Served
    <2> QED
        BY <2>1, <2>2, <2>4, <2>5 DEF Served
<1>7. (pass.serving = f => Served(f))'
    BY <1>6 DEF Served
<1> QED
    BY <1>4, <1>5, <1>7 DEF Fulfilled

\* The step at which the pass of a Flush call succeeds: memory and log are empty but
\* for the events that came after the request (batcher.go:386-404).
LEMMA PassAnswers ==
    ASSUME EInv, PassOK, NEW f \in Flushers, Fulfilled(f), pass.serving = f,
           NoMoreChunks, ~pass.err
    PROVE  flusher[f].due \subseteq confirmed /\ flusher[f].mark \subseteq confirmed \union lost
<1>1. TypeOK /\ JobOK /\ MemoryOK /\ PartitionOK
    BY DEF EInv, IInv, QueueInv, EventsOK
<1>2. pass.purpose = "flush" /\ Served(f)
    BY DEF Fulfilled, Served
<1>3. pc = "chunk" /\ pending = <<>>
    BY <1>2 DEF NoMoreChunks, Waiting
<1>4. wal = <<>>
    BY <1>2, <1>3 DEF PassOK
<1>5. ends = <<>> /\ chunk = <<>>
    BY <1>1, <1>3 DEF JobOK, Sends, MemoryOK
<1>6. LastDecided = LastAccepted - Len(events)
    <2>1. Len(pending) = 0 /\ Len(chunk) = 0 /\ Decided = 0
        BY <1>3, <1>5 DEF Decided
    <2>2. LastAccepted \in Int /\ Len(events) \in Nat
        BY <1>1, MemoryTypes
    <2> QED
        BY <2>1, <2>2 DEF LastDecided, Base
<1>7. WalEvents = {}
    BY <1>4 DEF WalEvents
<1>8. confirmed \union lost = (1 - Recovered) .. LastDecided
    BY <1>1, <1>7 DEF PartitionOK
<1>9. flusher[f].mark \subseteq confirmed \union lost
    BY <1>2, <1>6, <1>8 DEF Served
<1>10. flusher[f].due \subseteq confirmed
    BY <1>2, <1>9 DEF Served, Fulfilled
<1> QED
    BY <1>9, <1>10

\* The step at which the loop takes a request: it drains the channel, and so has all
\* that the call waits for (batcher.go:294-297, 371-380).
LEMMA LoopFlushFulfils ==
    ASSUME EInv, RequestsOK, NEW f \in Flushers, Fulfilled(f), LoopFlush
    PROVE  Fulfilled(f)'
<1>1. IInv /\ TypeOK /\ JobOK /\ MemoryOK /\ PartitionOK
    BY DEF EInv, IInv, QueueInv, EventsOK
<1>2. flusher \in [Flushers -> FlushCalls] /\ flushRequests \in Seq(Flushers) /\ flushRequests # <<>>
    BY <1>1 DEF TypeOK, LoopFlush
<1> DEFINE h == Head(flushRequests)
<1>3. h \in Flushers /\ h = flushRequests[1] /\ Len(flushRequests) \in Nat \ {0}
    BY <1>2
<1>4. flusher' = [flusher EXCEPT ![h].due = @ \union (flusher[h].mark \cap Unresolved)]
      /\ pass'.serving = h /\ pass'.purpose = "flush" /\ events' = Suffix(events, DrainCount)
    BY DEF LoopFlush, StartPass, NoPass
<1>5. Select /\ [Next]_vars
    BY DEF Select, Next
<1>6. flusher[f] \in FlushCalls
    BY <1>2
<1>7. CASE f # h
    <2>1. flusher'[f] = flusher[f]
        BY <1>2, <1>4, <1>7
    <2>2. pass'.serving # f
        BY <1>4, <1>7
    <2> QED
        BY <1>1, <1>5, <2>1, <2>2, FulfilledKept
<1>8. CASE f = h
    <2>1. flusher[f].due = {}
        BY <1>3, <1>8 DEF RequestsOK, Asked
    <2>2. /\ flusher'[f].due = flusher[f].mark \cap Unresolved
          /\ flusher'[f].mark = flusher[f].mark /\ flusher'[f].reply = flusher[f].reply
          /\ flusher'[f].result = flusher[f].result
        BY <1>2, <1>4, <1>6, <1>8, <2>1 DEF FlushCalls
    <2>3. LastAccepted' = LastAccepted /\ UNCHANGED store
        BY <1>1, <1>5, SelectMemory
    <2>4. confirmed' = confirmed /\ lost' = lost
        BY <2>3 DEF store
    <2>5. events' = <<>>
        BY <1>1, <1>4, DrainsAll
    <2>6. LastAccepted' - Len(events') = LastAccepted
        <3>1. LastAccepted \in Int
            BY <1>1, MemoryTypes
        <3>2. Len(events') = 0
            BY <2>5
        <3> QED
            BY <2>3, <3>1, <3>2
    <2>7. flusher'[f].mark \subseteq (1 - Recovered) .. LastAccepted'
        BY <2>2, <2>3 DEF Fulfilled
    <2>8. flusher'[f].due \cap lost' = {}
        BY <2>2, <2>4 DEF Unresolved
    <2>9. Served(f)'
        BY <1>4, <2>2, <2>3, <2>6, <2>7, <2>8 DEF Served
    <2>10. flusher'[f].reply = "nil" \/ flusher'[f].result = "nil" =>
             flusher'[f].due \subseteq confirmed' /\ flusher'[f].mark \subseteq confirmed' \union lost'
        <3>1. ASSUME flusher'[f].reply = "nil" \/ flusher'[f].result = "nil"
              PROVE  flusher[f].mark \subseteq confirmed \union lost
            BY <2>2, <3>1 DEF Fulfilled
        <3>2. ASSUME flusher[f].mark \subseteq confirmed \union lost
              PROVE  flusher[f].mark \cap Unresolved = {}
            BY <3>2 DEF Unresolved
        <3> QED
            BY <2>2, <2>4, <3>1, <3>2
    <2>11. flusher'[f].due \subseteq flusher'[f].mark
        BY <2>2
    <2> QED
        BY <2>7, <2>9, <2>10, <2>11 DEF Fulfilled
<1> QED
    BY <1>7, <1>8

\* The step of EndPass, at which the call that the pass served gets its answer.
LEMMA EndPassFulfils ==
    ASSUME EInv, ClosedOK, PassOK, NEW f \in Flushers, Fulfilled(f), EndPass,
           PassBlocked \/ NoMoreChunks
    PROVE  Fulfilled(f)'
<1>1. IInv /\ TypeOK /\ MemoryOK
    BY DEF EInv, IInv, QueueInv, EventsOK
<1>2. flusher \in [Flushers -> FlushCalls] /\ pass \in Passes
    BY <1>1 DEF TypeOK
<1>3. pass.serving \in Flushers \union {NoFlusher} /\ pass.err \in BOOLEAN
    BY <1>2 DEF Passes
<1>4. [Next]_vars /\ ~LoopFlush
    <2>1. pc \in {"recovered", "chunk"}
        BY DEF PassBlocked, NoMoreChunks
    <2> QED
        BY <2>1 DEF Next, LoopWork, SendChunks, LoopFlush
<1> DEFINE reply == IF pass.err THEN "error" ELSE "nil"
<1>5. flusher' = Answer(pass.serving, reply) /\ pass' = NoPass
    BY DEF EndPass
<1>6. /\ flusher'[f].result = flusher[f].result
      /\ flusher'[f].due = flusher[f].due /\ flusher'[f].mark = flusher[f].mark
      /\ f # pass.serving => flusher'[f].reply = flusher[f].reply
      /\ f = pass.serving => flusher'[f].reply = reply
    <2> HIDE DEF reply
    <2> QED
        BY <1>2, <1>3, <1>5, AnswerFacts
<1>7. pass'.serving # f
    BY <1>5, ConfigAssumption DEF NoPass
<1>8. CASE f = pass.serving /\ ~pass.err
    <2>1. NoMoreChunks
        BY <1>8 DEF PassBlocked, PassOK
    <2>2. flusher[f].due \subseteq confirmed /\ flusher[f].mark \subseteq confirmed \union lost
        BY <1>8, <2>1, PassAnswers
    <2>3. UNCHANGED <<confirmed, lost>> /\ LastAccepted' = LastAccepted
        <3>1. SendChunks
            BY <2>1 DEF SendChunks
        <3> QED
            BY <1>1, <3>1, SendChunksMemory DEF store
    <2>4. /\ flusher'[f].due \subseteq flusher'[f].mark
          /\ flusher'[f].mark \subseteq (1 - Recovered) .. LastAccepted'
        BY <1>6, <2>3 DEF Fulfilled
    <2>5. flusher'[f].due \subseteq confirmed' /\ flusher'[f].mark \subseteq confirmed' \union lost'
        BY <1>6, <2>2, <2>3
    <2> QED
        BY <1>7, <2>4, <2>5 DEF Fulfilled
<1>9. CASE f # pass.serving \/ pass.err
    <2>1. \/ flusher'[f].reply # "nil" /\ flusher'[f].result # "nil"
          \/ flusher[f].reply = "nil" \/ flusher[f].result = "nil"
        BY <1>6, <1>9
    <2> QED
        BY <1>1, <1>4, <1>6, <2>1, FulfilledKept
<1> QED
    BY <1>3, <1>8, <1>9

\* A step of a Flush call: what it waits for is fixed when the call is made, and a reply
\* is passed on as it is (batcher.go:159-184).
LEMMA FlushFulfils ==
    ASSUME EInv, RequestsOK, NEW g \in Flushers, Flush(g), NEW f \in Flushers, Fulfilled(f)
    PROVE  Fulfilled(f)'
<1>1. IInv /\ TypeOK /\ JobOK /\ MemoryOK /\ PartitionOK
    BY DEF EInv, IInv, QueueInv, EventsOK
<1>2. flusher \in [Flushers -> FlushCalls]
    BY <1>1 DEF TypeOK
<1>3. flusher[f] \in FlushCalls /\ flusher[g] \in FlushCalls
    BY <1>2
<1>4. FlushUnchanged
    BY DEF Flush, FlushCall, FlushEnqueue, FlushReply, FlushClosed, FlushAbandon
<1>5. [Next]_vars
    BY DEF Next
<1>6. pass' = pass /\ UNCHANGED <<confirmed, lost, ctr, track, events, pc>>
    BY <1>4 DEF FlushUnchanged, loop, store
<1>7. pass'.serving # f \/ ~LoopFlush
    <2>1. ASSUME LoopFlush PROVE FALSE
        <3>1. pc = "select" /\ pc' = "recover"
            BY <2>1 DEF LoopFlush, StartPass
        <3> QED
            BY <1>6, <3>1
    <2> QED
        BY <2>1
<1>8. CASE f # g
    <2>1. flusher'[f] = flusher[f]
        BY <1>2, <1>8 DEF Flush, FlushCall, FlushEnqueue, FlushReply, FlushClosed,
           FlushAbandon, FlushReturns
    <2> QED
        BY <1>1, <1>5, <1>7, <2>1, FulfilledKept
<1>9. CASE f = g /\ FlushCall(g)
    <2>1. flusher' = [flusher EXCEPT ![f].pc = "calling", ![f].mark = Unresolved]
          /\ flusher[f].pc = "idle"
        BY <1>9 DEF FlushCall
    <2>2. /\ flusher[f].due = {} /\ flusher[f].reply = "none" /\ flusher[f].result = "none"
          /\ pass.serving # f
        BY <2>1 DEF RequestsOK, Asked
    <2>3. /\ flusher'[f].due = {} /\ flusher'[f].reply = "none" /\ flusher'[f].result = "none"
          /\ flusher'[f].mark = Unresolved
        BY <1>2, <1>3, <2>1, <2>2 DEF FlushCalls
    <2>4. LastAccepted' = LastAccepted
        BY <1>6 DEF LastAccepted
    <2>5. Unresolved \subseteq (1 - Recovered) .. LastAccepted
        <3>1. RestartOwned \union Accepted = (1 - Recovered) .. LastAccepted
            BY <1>1, UnresolvedEvents
        <3> QED
            BY <3>1 DEF Unresolved
    <2> QED
        BY <1>6, <2>2, <2>3, <2>4, <2>5 DEF Fulfilled
<1>10. CASE f = g /\ ~FlushCall(g)
    <2>1. /\ flusher'[f].mark = flusher[f].mark /\ flusher'[f].due = flusher[f].due
          /\ \/ flusher'[f].reply # "nil" /\ flusher'[f].result # "nil"
             \/ flusher[f].reply = "nil" \/ flusher[f].result = "nil"
        <3>1. CASE FlushEnqueue(f)
            <4>1. flusher' = [flusher EXCEPT ![f].pc = "waiting"]
                BY <3>1 DEF FlushEnqueue
            <4> QED
                BY <1>2, <1>3, <4>1 DEF FlushCalls
        <3>2. CASE FlushReply(f)
            <4>1. flusher' = [flusher EXCEPT ![f].pc = "returned", ![f].result = flusher[f].reply]
                BY <3>2 DEF FlushReply, FlushReturns
            <4> QED
                BY <1>2, <1>3, <4>1 DEF FlushCalls
        <3>3. CASE FlushClosed(f)
            <4>1. flusher' = [flusher EXCEPT ![f].pc = "returned", ![f].result = "closed"]
                BY <3>3 DEF FlushClosed, FlushReturns
            <4> QED
                BY <1>2, <1>3, <4>1 DEF FlushCalls
        <3>4. CASE FlushAbandon(f)
            <4>1. flusher' = [flusher EXCEPT ![f].pc = "returned", ![f].result = "context"]
                BY <3>4 DEF FlushAbandon, FlushReturns
            <4> QED
                BY <1>2, <1>3, <4>1 DEF FlushCalls
        <3> QED
            BY <1>10, <3>1, <3>2, <3>3, <3>4 DEF Flush
    <2> QED
        BY <1>1, <1>5, <1>7, <2>1, FulfilledKept
<1> QED
    BY <1>8, <1>9, <1>10

\* A step of the loop other than these leaves every call as it is, or tells it that the
\* client is closed (batcher.go:255-366).
LEMMA FlusherUntouched ==
    ASSUME TypeOK, [Next]_vars, ~LoopFlush, ~(EndPass /\ (PassBlocked \/ NoMoreChunks)),
           \A g \in Flushers : ~Flush(g), NEW f \in Flushers
    PROVE  /\ flusher'[f].mark = flusher[f].mark /\ flusher'[f].due = flusher[f].due
           /\ flusher'[f].result = flusher[f].result
           /\ flusher'[f].reply \in {flusher[f].reply, "closed"}
<1>1. CASE UNCHANGED flusher
    BY <1>1
<1>2. CASE ReplyPendingFlush
    <2>1. flusher \in [Flushers -> FlushCalls] /\ flushRequests \in Seq(Flushers)
          /\ flushRequests # <<>> /\ flusher' = Answer(Head(flushRequests), "closed")
        BY <1>2 DEF ReplyPendingFlush, TypeOK
    <2>2. Head(flushRequests) \in Flushers
        BY <2>1
    <2> QED
        BY <2>1, <2>2, AnswerFacts
<1>3. CASE Reject \/ Track
    <2>1. TrackUnchanged
        BY <1>3 DEF Reject, Track, TrackBegin, TrackLoadOwned, TrackAdmit, TrackReserve,
           TrackSend, TrackCount
    <2> QED
        BY <1>1, <2>1 DEF TrackUnchanged
<1>4. CASE \E s \in Shutters : Shutdown(s)
    <2>1. ShutdownUnchanged
        BY <1>4 DEF Shutdown, ShutdownClose, ShutdownStop, ShutdownAgain, WaitDone, Deadline,
           DeadlineFailed, DeadlineRecoveryFailed, DeadlineDelivered, DeadlineReturn,
           DeadlineStep
    <2> QED
        BY <1>1, <2>1 DEF ShutdownUnchanged
<1>5. CASE LoopStop \/ LoopEvent \/ LoopTick
    BY <1>1, <1>5 DEF LoopStop, LoopEvent, LoopTick
<1>6. CASE Recover
    <2>1. RecoverUnchanged
        BY <1>6 DEF Recover, RecoverEnds, RecoverBlocked, RecoverDelivered, RecoverTerminal,
           RecordResolved, CountFailed, CountRecoveryFailed, CountDurable, CountDelivered,
           CountStep, CountOwned
    <2> QED
        BY <1>1, <2>1 DEF RecoverUnchanged
<1>7. CASE SendChunks
    BY <1>1, <1>7 DEF SendChunks, PassBlocked, PersistPending, StartChunks, NextChunk,
       NoMoreChunks
<1>8. CASE Deliver
    <2>1. DeliverUnchanged
        BY <1>8 DEF Deliver, SplitLimit, SendDelivered, SendTerminal, SendSplit, SendRetained,
           SendFailed, SendUnstored, Persisted, NotPersisted, Settle, Account, Sending, Resolve
    <2> QED
        BY <1>1, <2>1 DEF DeliverUnchanged
<1>9. CASE NoPendingFlush \/ CloseDone
    BY <1>1, <1>9 DEF NoPendingFlush, CloseDone
<1>10. CASE UNCHANGED vars \/ Finished
    BY <1>1, <1>10 DEF Finished, vars
<1> QED
    BY <1>2, <1>3, <1>4, <1>5, <1>6, <1>7, <1>8, <1>9, <1>10 DEF Next, LoopWork, Exit

\* FlushOK is kept by every step.
LEMMA FlushNext ==
    ASSUME EInv, ClosedOK, RequestsOK, FlushOK, [Next]_vars
    PROVE  FlushOK'
<1>1. IInv /\ TypeOK /\ MemoryOK
    BY DEF EInv, IInv, QueueInv, EventsOK
<1>2. PassOK /\ \A f \in Flushers : Fulfilled(f)
    BY DEF FlushOK, PassOK, Fulfilled
<1>3. PassOK'
    BY <1>1, <1>2, PassNext
<1>4. ASSUME NEW f \in Flushers PROVE Fulfilled(f)'
    <2>1. CASE LoopFlush
        BY <1>2, <2>1, LoopFlushFulfils
    <2>2. CASE EndPass /\ (PassBlocked \/ NoMoreChunks)
        BY <1>2, <2>2, EndPassFulfils
    <2>3. ASSUME NEW g \in Flushers, Flush(g) PROVE Fulfilled(f)'
        BY <1>2, <2>3, FlushFulfils
    <2>4. CASE ~LoopFlush /\ ~(EndPass /\ (PassBlocked \/ NoMoreChunks))
               /\ \A g \in Flushers : ~Flush(g)
        <3>1. /\ flusher'[f].mark = flusher[f].mark /\ flusher'[f].due = flusher[f].due
              /\ flusher'[f].result = flusher[f].result
              /\ flusher'[f].reply \in {flusher[f].reply, "closed"}
            BY <1>1, <2>4, FlusherUntouched
        <3>2. \/ flusher'[f].reply # "nil" /\ flusher'[f].result # "nil"
              \/ flusher[f].reply = "nil" \/ flusher[f].result = "nil"
            BY <3>1
        <3> QED
            BY <1>1, <1>2, <2>4, <3>1, <3>2, FulfilledKept
    <2> QED
        BY <2>1, <2>2, <2>3, <2>4
<1> QED
    BY <1>3, <1>4 DEF FlushOK, PassOK, Fulfilled

---------------------------------------------------------------------------
(* What Shutdown and its deadline report *)

\* Only a Shutdown call changes its own entry (alitycs.go:188-196).
LEMMA ShutterUntouched ==
    ASSUME TypeOK, [Next]_vars, NEW s \in Shutters, ~Shutdown(s)
    PROVE  shutter'[s] = shutter[s]
<1>1. CASE UNCHANGED shutter
    BY <1>1
<1>2. ASSUME NEW t \in Shutters, Shutdown(t) PROVE shutter'[s] = shutter[s]
    <2>1. shutter \in [Shutters -> ShutdownCalls] /\ s # t
        BY <1>2 DEF TypeOK
    <2> QED
        BY <1>2, <2>1 DEF Shutdown, ShutdownClose, ShutdownStop, ShutdownAgain, WaitDone,
           Deadline, DeadlineFailed, DeadlineRecoveryFailed, DeadlineDelivered,
           DeadlineReturn, DeadlineStep, ShutdownReturns
<1>3. CASE Reject \/ Track
    <2>1. TrackUnchanged
        BY <1>3 DEF Reject, Track, TrackBegin, TrackLoadOwned, TrackAdmit, TrackReserve,
           TrackSend, TrackCount
    <2> QED
        BY <1>1, <2>1 DEF TrackUnchanged
<1>4. ASSUME NEW f \in Flushers, Flush(f) PROVE shutter'[s] = shutter[s]
    <2>1. FlushUnchanged
        BY <1>4 DEF Flush, FlushCall, FlushEnqueue, FlushReply, FlushClosed, FlushAbandon
    <2> QED
        BY <1>1, <2>1 DEF FlushUnchanged
<1>5. CASE Select \/ Recover \/ SendChunks \/ Deliver \/ Exit
    <2>1. LoopUnchanged
        <3>1. CASE Select
            BY <3>1 DEF Select, LoopStop, LoopEvent, LoopTick, LoopFlush
        <3>2. CASE Recover
            BY <3>2 DEF Recover, RecoverEnds, RecoverBlocked, RecoverDelivered, RecoverTerminal,
               RecordResolved, CountFailed, CountRecoveryFailed, CountDurable, CountDelivered,
               CountStep, CountOwned, RecoverUnchanged
        <3>3. CASE SendChunks
            BY <3>3 DEF SendChunks, PassBlocked, PersistPending, StartChunks, NextChunk,
               NoMoreChunks
        <3>4. CASE Deliver
            BY <3>4 DEF Deliver, SplitLimit, SendDelivered, SendTerminal, SendSplit,
               SendRetained, SendFailed, SendUnstored, Persisted, NotPersisted, Settle,
               Account, Sending, Resolve, DeliverUnchanged
        <3>5. CASE Exit
            BY <3>5 DEF Exit, ReplyPendingFlush, NoPendingFlush, CloseDone, ExitUnchanged
        <3> QED
            BY <1>5, <3>1, <3>2, <3>3, <3>4, <3>5
    <2> QED
        BY <1>1, <2>1 DEF LoopUnchanged
<1>6. CASE UNCHANGED vars \/ Finished
    BY <1>1, <1>6 DEF Finished, vars
<1> QED
    BY <1>2, <1>3, <1>4, <1>5, <1>6 DEF Next, LoopWork, Select

\* While the client is closed no event is accepted (alitycs.go:188-196).
LEMMA ClosedAccepts ==
    ASSUME ClosedOK, closed
    PROVE  ~Accepts
BY DEF ClosedOK, Accepts

\* Memory is empty once the loop is gone: every accepted event has its outcome
\* (batcher.go:301-366).
LEMMA DoneDecides ==
    ASSUME EInv, ClosedOK, doneClosed
    PROVE  /\ pc = "done" /\ events = <<>> /\ pending = <<>> /\ chunk = <<>> /\ ends = <<>>
           /\ LastDecided = LastAccepted
<1>1. TypeOK /\ JobOK /\ MemoryOK
    BY DEF EInv, IInv, QueueInv, EventsOK
<1>2. pc = "done" /\ events = <<>> /\ pending = <<>>
    BY DEF ClosedOK
<1>3. ends = <<>> /\ chunk = <<>>
    BY <1>1, <1>2 DEF JobOK, Sends, MemoryOK
<1>4. LastDecided = LastAccepted
    <2>1. Len(pending) = 0 /\ Len(chunk) = 0 /\ Len(events) = 0 /\ Decided = 0
        BY <1>2, <1>3 DEF Decided
    <2>2. LastAccepted \in Int
        BY <1>1, MemoryTypes
    <2> QED
        BY <2>1, <2>2 DEF LastDecided, Base
<1> QED
    BY <1>2, <1>3, <1>4

\* What is due is never negative (batcher.go:406-454, 484-541).
LEMMA DueTypes ==
    ASSUME EInv
    PROVE  DueDelivered \in Nat /\ DueFailed \in Nat /\ DueRecoveryFailed \in Nat
<1>1. TypeOK /\ JobOK /\ LogCounted /\ BooksOK
    BY DEF EInv, IInv, QueueInv, EventsOK
<1>2. progress.n \in Int
    BY <1>1 DEF TypeOK
<1>3. pc \in {"settle", "account"} => PieceSize \in Nat
    <2>1. ASSUME pc \in {"settle", "account"} PROVE PieceSize \in Nat
        BY <1>1, <2>1, CurrentPiece DEF Sends
    <2> QED
        BY <2>1
<1>4. pc \in Counts => progress.n \in Nat /\ progress.lost \in Nat
    <2>1. ASSUME pc \in Counts PROVE progress.n \in Nat
        BY <1>1, <1>2, <2>1 DEF LogCounted
    <2>2. ASSUME pc \in Counts PROVE progress.lost \in {0, progress.n}
        BY <1>1, <2>2 DEF BooksOK
    <2> QED
        BY <2>1, <2>2
<1>5. DueDelivered \in Nat
    BY <1>3, <1>4 DEF DueDelivered, Counts
<1>6. DueFailed \in Nat
    BY <1>3, <1>4 DEF DueFailed, Counts
<1>7. DueRecoveryFailed \in Nat
    BY <1>3, <1>4 DEF DueRecoveryFailed, Counts
<1> QED
    BY <1>5, <1>6, <1>7

\* Shutdown returns nil only when nothing failed and the log is empty, and nothing is
\* accepted any more (batcher.go:196-214, alitycs.go:188-196).
LEMMA ShutdownNilNext ==
    ASSUME EInv, ClosedOK, ClosedOK', ShutdownOK, [Next]_vars
    PROVE  ShutdownOK'
<1>1. IInv /\ TypeOK /\ JobOK /\ MemoryOK /\ PartitionOK /\ BooksOK
    BY DEF EInv, IInv, QueueInv, EventsOK
<1>2. shutter \in [Shutters -> ShutdownCalls]
    BY <1>1 DEF TypeOK
<1>3. confirmed \subseteq confirmed'
    BY <1>1, HistoryGrows
<1>4. ASSUME doneClosed PROVE doneClosed' /\ LastAccepted' = LastAccepted
    <2>1. pc = "done" /\ stopped /\ closed
        BY <1>4 DEF ClosedOK
    <2>2. ~Accepts
        BY <2>1, ClosedAccepts
    <2>3. LastAccepted' = LastAccepted
        BY <1>1, <2>2, ViewSteps DEF Keeps, Dispatches, ReplaysRecord
    <2>4. ~Select /\ ~Recover /\ ~SendChunks /\ ~Deliver
        BY <2>1 DEF Select, LoopStop, LoopEvent, LoopTick, LoopFlush, Recover, RecoverEnds,
           RecoverBlocked, RecoverDelivered, RecoverTerminal, CountFailed,
           CountRecoveryFailed, CountDurable, CountDelivered, CountStep, CountOwned,
           SendChunks, PassBlocked, PersistPending, StartChunks, NextChunk, NoMoreChunks,
           Deliver, SplitLimit, SendDelivered, SendTerminal, SendSplit, SendRetained,
           SendFailed, SendUnstored, Persisted, NotPersisted, Settle, Account, Sending
    <2>5. pc' = "done"
        <3>1. CASE Reject \/ Track
            BY <1>1, <2>1, <3>1, TrackMemory
        <3>2. CASE Exit
            BY <2>1, <3>2 DEF Exit, ReplyPendingFlush, NoPendingFlush, CloseDone
        <3>3. ASSUME NEW f \in Flushers, Flush(f) PROVE pc' = "done"
            <4>1. FlushUnchanged
                BY <3>3 DEF Flush, FlushCall, FlushEnqueue, FlushReply, FlushClosed, FlushAbandon
            <4> QED
                BY <2>1, <4>1 DEF FlushUnchanged, loop
        <3>4. ASSUME NEW s \in Shutters, Shutdown(s) PROVE pc' = "done"
            <4>1. ShutdownUnchanged
                BY <3>4 DEF Shutdown, ShutdownClose, ShutdownStop, ShutdownAgain, WaitDone,
                   Deadline, DeadlineFailed, DeadlineRecoveryFailed, DeadlineDelivered,
                   DeadlineReturn, DeadlineStep
            <4> QED
                BY <2>1, <4>1 DEF ShutdownUnchanged, loop
        <3>5. CASE UNCHANGED vars \/ Finished
            BY <2>1, <3>5 DEF Finished, vars, loop
        <3> QED
            BY <2>4, <3>1, <3>2, <3>3, <3>4, <3>5 DEF Next, LoopWork, Select
    <2> QED
        BY <2>3, <2>5 DEF ClosedOK
<1>5. ASSUME NEW s \in Shutters, shutter'[s].result = "nil"
      PROVE  doneClosed /\ (1 - Recovered) .. LastAccepted \subseteq confirmed
    <2>1. CASE shutter[s].result = "nil"
        BY <2>1 DEF ShutdownOK
    <2>2. CASE shutter[s].result # "nil"
        <3>1. Shutdown(s)
            BY <1>1, <1>5, <2>2, ShutterUntouched
        <3>2. CASE WaitDone(s)
            <4>1. NothingToReport
                BY <1>2, <1>5, <3>2 DEF WaitDone, ShutdownReturns
            <4>2. doneClosed
                BY <3>2 DEF WaitDone
            <4>3. pc = "done" /\ LastDecided = LastAccepted
                BY <4>2, DoneDecides
            <4>4. wal = <<>>
                <5>1. Len(wal) = 0
                    BY <4>1 DEF NothingToReport, DurablePending
                <5> QED
                    BY <1>1, <5>1 DEF TypeOK
            <4>5. lost = {}
                <5>1. ctr.failed = 0
                    BY <4>1 DEF NothingToReport
                <5>2. DueFailed = 0
                    BY <4>3 DEF DueFailed
                <5>3. Cardinality(lost) = 0
                    BY <1>1, <5>1, <5>2 DEF BooksOK
                <5>4. IsFiniteSet(lost)
                    BY <1>1, HistoryFinite
                <5> QED
                    BY <5>3, <5>4, FS_EmptySet
            <4>6. WalEvents = {}
                BY <4>4 DEF WalEvents
            <4>7. confirmed = (1 - Recovered) .. LastDecided
                BY <1>1, <4>5, <4>6 DEF PartitionOK
            <4> QED
                BY <4>2, <4>3, <4>7
        <3>3. CASE ~WaitDone(s)
            <4>1. shutter[s] \in ShutdownCalls
                BY <1>2
            <4>2. shutter'[s].result \in {shutter[s].result, "deadline"}
                <5>1. CASE ShutdownClose(s)
                    <6>1. shutter' = [shutter EXCEPT ![s].pc = "stopping"]
                        BY <5>1 DEF ShutdownClose
                    <6> QED
                        BY <1>2, <4>1, <6>1 DEF ShutdownCalls
                <5>2. CASE ShutdownStop(s) \/ ShutdownAgain(s)
                    <6>1. shutter' = [shutter EXCEPT ![s].pc = "waiting"]
                        BY <5>2 DEF ShutdownStop, ShutdownAgain
                    <6> QED
                        BY <1>2, <4>1, <6>1 DEF ShutdownCalls
                <5>3. CASE DeadlineFailed(s) \/ DeadlineRecoveryFailed(s) \/ DeadlineDelivered(s)
                    BY <1>2, <4>1, <5>3 DEF DeadlineFailed, DeadlineRecoveryFailed,
                       DeadlineDelivered, DeadlineStep, ShutdownCalls
                <5>4. CASE DeadlineReturn(s)
                    BY <1>2, <5>4 DEF DeadlineReturn, ShutdownReturns
                <5> QED
                    BY <3>1, <3>3, <5>1, <5>2, <5>3, <5>4 DEF Shutdown, Deadline
            <4> QED
                BY <1>5, <2>2, <4>2
        <3> QED
            BY <3>2, <3>3
    <2> QED
        BY <2>1, <2>2
<1>6. ASSUME NEW s \in Shutters, shutter'[s].result = "nil"
      PROVE  doneClosed' /\ (1 - Recovered) .. LastAccepted' \subseteq confirmed'
    BY <1>3, <1>4, <1>5, <1>6
<1> QED
    BY <1>6 DEF ShutdownOK

\* The number of lost events never falls (batcher.go:406-454, 484-541).
LEMMA LossesGrow ==
    ASSUME EInv, [Next]_vars
    PROVE  Losses \in Nat /\ Losses' \in Nat /\ Losses <= Losses'
<1>1. IInv /\ TypeOK /\ JobOK /\ MemoryOK /\ PartitionOK /\ OwnedOK
    BY DEF EInv, IInv, QueueInv, EventsOK
<1>2. Losses \in Nat
    BY <1>1, HistoryFinite DEF Losses
<1>3. CASE UNCHANGED store
    BY <1>2, <1>3, TotalsKept
<1>4. CASE Dispatches
    <2>1. PICK f \in Outcomes, err \in BOOLEAN : Decides(f, err)
        BY <1>4 DEF Dispatches
    <2>2. Losses' = Losses + (IF f = "lost" THEN PieceSize ELSE 0) /\ PieceSize \in Nat \ {0}
        BY <1>1, <2>1, DispatchGains
    <2> QED
        BY <1>2, <2>2
<1>5. CASE ReplaysRecord
    <2>1. PICK n \in 1 .. Len(wal), stop \in BOOLEAN : Replays(n, 0, stop) \/ Replays(n, n, stop)
        BY <1>5 DEF ReplaysRecord
    <2>2. PICK losses \in {0, n} : Replays(n, losses, stop)
        BY <2>1
    <2>3. n \in Nat \ {0} /\ Losses' = Losses + losses
        BY <1>1, <2>2, ReplayGains
    <2> QED
        BY <1>2, <2>2, <2>3
<1> QED
    BY <1>1, <1>3, <1>4, <1>5, ViewSteps DEF Keeps, Accepts

\* Without events of an earlier process, what the counters show before and after any
\* of the loads of undeliveredAtDeadline bounds what is left (batcher.go:456-463).
LEMMA CountersBound ==
    ASSUME EInv, Recovered = 0
    PROVE  /\ ctr.failed <= Losses /\ ctr.failed \in Int /\ Losses \in Nat
           /\ ctr.recoveryFailed = 0 /\ ctr.recoveryOwned = 0
           /\ ctr.delivered <= Confirmed /\ ctr.delivered \in Int /\ Confirmed \in Nat
           /\ Outstanding = LastAccepted - Confirmed - Losses
           /\ Outstanding \in Nat /\ LastAccepted \in Nat /\ ctr.enqueued \in Int
<1>1. /\ TypeOK /\ JobOK /\ LogCounted
      /\ MemoryOK /\ PartitionOK /\ OwnedOK /\ BooksOK
    BY DEF EInv, IInv, QueueInv, EventsOK
<1>2. /\ ctr.failed \in Int /\ ctr.recoveryFailed \in Int /\ ctr.recoveryOwned \in Int
      /\ ctr.delivered \in Int /\ ctr.enqueued \in Int
    BY <1>1, CounterTypes DEF TypeOK
<1>3. Confirmed \in Nat /\ Losses \in Nat
    BY <1>1, HistoryFinite DEF Confirmed, Losses
<1>4. Outstanding \in Nat /\ LastAccepted \in Nat /\ LastDecided \in Nat /\ Len(wal) \in Nat
    BY <1>1, BudgetTypes
<1>5. ctr.recoveryOwned = 0
    BY <1>1, <1>2 DEF LogCounted, OwnedOK
<1>6. Owned = 0
    BY <1>5 DEF Owned
<1>7. RestartLosses = 0
    <2>1. RestartOwned = {}
        BY DEF RestartOwned
    <2>2. lost \cap RestartOwned = {}
        BY <2>1
    <2> QED
        BY <2>2, FS_EmptySet DEF RestartLosses
<1>8. DueDelivered \in Nat /\ DueFailed \in Nat /\ DueRecoveryFailed = 0
    <2>1. pc # "countRecoveryFailed"
        BY <1>1, <1>5 DEF LogCounted
    <2>2. DueRecoveryFailed = 0
        BY <1>5, <2>1 DEF DueRecoveryFailed
    <2> QED
        BY <2>2, DueTypes
<1>9. /\ ctr.delivered + DueDelivered = Confirmed
      /\ ctr.failed + DueFailed = Losses
      /\ ctr.recoveryFailed + DueRecoveryFailed = RestartLosses
      /\ LastDecided = Confirmed + Losses - RestartLosses + Len(wal) - Owned
    BY <1>1 DEF BooksOK, Confirmed, Losses, RestartLosses
<1>10. Outstanding = LastAccepted - Confirmed - Losses
    BY <1>3, <1>4, <1>6, <1>7, <1>9 DEF Outstanding
<1>11. ctr.failed <= Losses /\ ctr.delivered <= Confirmed /\ ctr.recoveryFailed = 0
    <2>1. \A a, b \in Int, d \in Nat : a + d = b => a <= b
        OBVIOUS
    <2>2. ctr.failed <= Losses
        BY <1>2, <1>3, <1>8, <1>9, <2>1
    <2>3. ctr.delivered <= Confirmed
        BY <1>2, <1>3, <1>8, <1>9, <2>1
    <2>4. ctr.recoveryFailed + 0 = 0
        BY <1>7, <1>8, <1>9
    <2> QED
        BY <1>2, <2>2, <2>3, <2>4
<1> QED
    BY <1>2, <1>3, <1>4, <1>5, <1>10, <1>11

\* What DeadlineOK says of one call.
Covers(s) ==
    /\ shutter[s].pc \in {"failed", "recoveryFailed"} => shutter[s].sum + Losses >= 0
    /\ shutter[s].pc = "delivered" \/ shutter[s].result = "deadline" =>
          shutter[s].sum >= Outstanding

\* A load of undeliveredAtDeadline (batcher.go:456-463).
LEMMA DeadlineSteps ==
    ASSUME EInv, ClosedOK, Recovered = 0, NEW s \in Shutters, Covers(s), Shutdown(s)
    PROVE  Covers(s)'
<1>1. IInv /\ TypeOK /\ JobOK /\ MemoryOK
    BY DEF EInv, IInv, QueueInv, EventsOK
<1>2. shutter \in [Shutters -> ShutdownCalls] /\ shutter[s] \in ShutdownCalls
    BY <1>1 DEF TypeOK
<1>3. shutter[s].sum \in Int
    BY <1>2 DEF ShutdownCalls
<1>4. Losses' = Losses /\ Outstanding' = Outstanding
    <2>1. Aside /\ ShutdownUnchanged
        BY AsideCases DEF Shutdown, ShutdownClose, ShutdownStop, ShutdownAgain, WaitDone,
           Deadline, DeadlineFailed, DeadlineRecoveryFailed, DeadlineDelivered,
           DeadlineReturn, DeadlineStep
    <2>2. LastDecided' = LastDecided /\ LastAccepted' = LastAccepted
        BY <1>1, <2>1, AsideMemory
    <2>3. UNCHANGED store
        BY <2>1 DEF ShutdownUnchanged, loop
    <2>4. Losses' = Losses /\ Len(wal') = Len(wal)
        BY <2>3, TotalsKept
    <2> QED
        BY <2>2, <2>4 DEF Outstanding
<1>5. /\ shutter[s].result # "none" => shutter[s].pc = "returned"
      /\ shutter[s].pc # "idle" => closed
      /\ closed => track.pc = "idle"
    BY DEF ClosedOK
<1>6. /\ ctr.failed <= Losses /\ ctr.failed \in Int /\ Losses \in Nat
      /\ ctr.recoveryFailed = 0 /\ ctr.recoveryOwned = 0
      /\ ctr.delivered <= Confirmed /\ ctr.delivered \in Int /\ Confirmed \in Nat
      /\ Outstanding = LastAccepted - Confirmed - Losses
      /\ Outstanding \in Nat /\ LastAccepted \in Nat /\ ctr.enqueued \in Int
    BY CountersBound
<1>7. CASE ShutdownClose(s) \/ ShutdownStop(s) \/ ShutdownAgain(s)
    <2>1. shutter[s].pc # "returned" /\ \E p \in {"stopping", "waiting"} :
             shutter' = [shutter EXCEPT ![s].pc = p]
        BY <1>7 DEF ShutdownClose, ShutdownStop, ShutdownAgain
    <2>2. shutter'[s].pc \in {"stopping", "waiting"} /\ shutter'[s].result = shutter[s].result
        BY <1>2, <2>1 DEF ShutdownCalls
    <2>3. shutter'[s].result = "none"
        BY <1>5, <2>1, <2>2
    <2> QED
        BY <2>2, <2>3 DEF Covers
<1>8. CASE WaitDone(s)
    <2>1. shutter'[s].pc = "returned" /\ shutter'[s].result \in {"nil", "error"}
        BY <1>2, <1>8 DEF WaitDone, ShutdownReturns
    <2> QED
        BY <2>1 DEF Covers
<1>9. CASE DeadlineFailed(s)
    <2>1. /\ shutter'[s].pc = "failed" /\ shutter'[s].sum = -ctr.failed
          /\ shutter'[s].result = shutter[s].result /\ shutter[s].pc = "waiting"
        BY <1>2, <1>9 DEF DeadlineFailed, DeadlineStep, ShutdownCalls
    <2>2. shutter'[s].result = "none"
        BY <1>5, <2>1
    <2>3. shutter'[s].sum + Losses' >= 0
        BY <1>4, <1>6, <2>1
    <2> QED
        BY <2>1, <2>2, <2>3 DEF Covers
<1>10. CASE DeadlineRecoveryFailed(s)
    <2>1. /\ shutter'[s].pc = "recoveryFailed" /\ shutter[s].pc = "failed"
          /\ shutter'[s].sum = shutter[s].sum + ctr.recoveryFailed
          /\ shutter'[s].result = shutter[s].result
        BY <1>2, <1>10 DEF DeadlineRecoveryFailed, DeadlineStep, ShutdownCalls
    <2>2. shutter'[s].result = "none"
        BY <1>5, <2>1
    <2>3. shutter[s].sum + Losses >= 0
        BY <2>1 DEF Covers
    <2>4. shutter'[s].sum + Losses' >= 0
        BY <1>3, <1>4, <1>6, <2>1, <2>3
    <2> QED
        BY <2>1, <2>2, <2>4 DEF Covers
<1>11. CASE DeadlineDelivered(s)
    <2> DEFINE o == shutter[s].sum + ctr.enqueued - ctr.delivered
    <2>1. /\ shutter'[s].pc = "delivered" /\ shutter[s].pc = "recoveryFailed"
          /\ shutter'[s].sum = IF o < 0 THEN 0 ELSE o
        BY <1>2, <1>11 DEF DeadlineDelivered, DeadlineStep, ShutdownCalls
    <2>2. LastAccepted = ctr.enqueued
        <3>1. track.pc = "idle"
            BY <1>5, <2>1
        <3> QED
            BY <1>6, <3>1 DEF LastAccepted
    <2>3. shutter[s].sum + Losses >= 0
        BY <2>1 DEF Covers
    <2>4. o \in Int /\ o >= Outstanding
        BY <1>3, <1>6, <2>2, <2>3
    <2> HIDE DEF o
    <2>5. shutter'[s].sum >= Outstanding'
        BY <1>4, <1>6, <2>1, <2>4
    <2> QED
        BY <2>1, <2>5 DEF Covers
<1>12. CASE DeadlineReturn(s)
    <2>1. /\ shutter'[s].pc = "returned" /\ shutter[s].pc = "delivered"
          /\ shutter'[s].sum = shutter[s].sum + ctr.recoveryOwned
        BY <1>2, <1>12 DEF DeadlineReturn, ShutdownReturns
    <2>2. shutter[s].sum >= Outstanding
        BY <2>1 DEF Covers
    <2>3. shutter'[s].sum >= Outstanding'
        BY <1>3, <1>4, <1>6, <2>1, <2>2
    <2> QED
        BY <2>1, <2>3 DEF Covers
<1> QED
    BY <1>7, <1>8, <1>9, <1>10, <1>11, <1>12 DEF Shutdown, Deadline

\* DeadlineOK is kept by every step: the calls that load are past Close, so what is
\* left can only fall under them (alitycs.go:188-196, batcher.go:456-463).
LEMMA DeadlineNext ==
    ASSUME EInv, ClosedOK, DeadlineOK, [Next]_vars
    PROVE  DeadlineOK'
<1>1. IInv /\ TypeOK /\ JobOK /\ MemoryOK /\ PartitionOK
    BY DEF EInv, IInv, QueueInv, EventsOK
<1>2. shutter \in [Shutters -> ShutdownCalls]
    BY <1>1 DEF TypeOK
<1>3. ASSUME Recovered = 0, NEW s \in Shutters
      PROVE  Covers(s)'
    <2>1. Covers(s)
        BY <1>3 DEF DeadlineOK, Covers, Losses
    <2>2. CASE Shutdown(s)
        BY <1>3, <2>1, <2>2, DeadlineSteps
    <2>3. CASE ~Shutdown(s)
        <3>1. shutter'[s] = shutter[s]
            BY <1>1, <2>3, ShutterUntouched
        <3>2. shutter[s].sum \in Int
            BY <1>2 DEF ShutdownCalls
        <3>3. shutter[s].pc \in {"failed", "recoveryFailed"} => shutter[s].sum + Losses' >= 0
            <4>1. Losses \in Nat /\ Losses' \in Nat /\ Losses <= Losses'
                BY LossesGrow
            <4>2. ASSUME shutter[s].pc \in {"failed", "recoveryFailed"}
                  PROVE  shutter[s].sum + Losses >= 0
                BY <2>1, <4>2 DEF Covers
            <4> QED
                BY <3>2, <4>1, <4>2
        <3>4. ASSUME shutter[s].pc = "delivered" \/ shutter[s].result = "deadline"
              PROVE  shutter[s].sum >= Outstanding'
            <4>1. shutter[s].sum >= Outstanding
                BY <2>1, <3>4 DEF Covers
            <4>2. closed
                BY <3>4 DEF ClosedOK
            <4>3. Outstanding' \in Int /\ Outstanding' <= Outstanding
                BY <1>1, <4>2, ClosedAccepts, OutstandingFalls
            <4>4. Outstanding \in Nat
                BY <1>1, BudgetTypes
            <4> QED
                BY <3>2, <4>1, <4>3, <4>4
        <3> QED
            BY <3>1, <3>3, <3>4 DEF Covers
    <2> QED
        BY <2>2, <2>3
<1> QED
    BY <1>3 DEF DeadlineOK, Covers, Losses

---------------------------------------------------------------------------
(* How many calls are made: CallsOK *)

\* The counters that enqueue and reject write (batcher.go:77-90, 131-157, 231-243).
CallCounters == {"enqueued", "dropped", "rejected"}

\* The loop and the callers of Flush and Shutdown leave them alone (batcher.go:163-541).
LEMMA LoopLeavesCalls ==
    ASSUME TypeOK, Select \/ Recover \/ SendChunks \/ Deliver \/ Aside
    PROVE  \A c \in CallCounters : ctr'[c] = ctr[c]
<1>1. ctr \in [Counters -> Int] /\ CallCounters \subseteq Counters
    BY DEF TypeOK, CallCounters, Counters
<1>2. CASE UNCHANGED ctr
    BY <1>2
<1>3. CASE Select
    BY <1>2, <1>3 DEF Select, LoopStop, LoopEvent, LoopTick, LoopFlush
<1>4. CASE SendChunks
    BY <1>2, <1>4 DEF SendChunks, PassBlocked, PersistPending, StartChunks, NextChunk,
       NoMoreChunks
<1>5. CASE Aside
    BY <1>2, <1>5 DEF Aside
<1>6. ASSUME NEW d \in Counters \ CallCounters, NEW n, ctr' = Plus(ctr, d, n)
      PROVE  \A c \in CallCounters : ctr'[c] = ctr[c]
    BY <1>1, <1>6 DEF Plus
<1>7. ASSUME ctr' = RecoveryOwnedUpdated
      PROVE  \A c \in CallCounters : ctr'[c] = ctr[c]
    BY <1>1, <1>7 DEF RecoveryOwnedUpdated, CallCounters
<1>8. /\ "failed" \in Counters \ CallCounters /\ "recoveryFailed" \in Counters \ CallCounters
      /\ "durableCurrent" \in Counters \ CallCounters /\ "delivered" \in Counters \ CallCounters
      /\ "unsent" \in Counters \ CallCounters
    BY DEF Counters, CallCounters
<1>9. CASE Recover
    <2>1. CASE RecoverEnds \/ RecoverBlocked \/ CountOwned
        BY <1>7, <2>1 DEF RecoverEnds, RecoverBlocked, CountOwned, RecoverReturns
    <2>2. CASE RecoverDelivered \/ RecoverTerminal
        BY <1>2, <2>2 DEF RecoverDelivered, RecoverTerminal, RecordResolved
    <2>3. CASE CountFailed
        BY <1>6, <1>8, <2>3 DEF CountFailed, CountStep, Bump
    <2>4. CASE CountRecoveryFailed
        BY <1>6, <1>8, <2>4 DEF CountRecoveryFailed, CountStep, Bump
    <2>5. CASE CountDurable
        BY <1>6, <1>8, <2>5 DEF CountDurable, CountStep, Bump
    <2>6. CASE CountDelivered
        BY <1>6, <1>8, <2>6 DEF CountDelivered, CountStep, Bump
    <2> QED
        BY <1>9, <2>1, <2>2, <2>3, <2>4, <2>5, <2>6 DEF Recover
<1>10. CASE Deliver
    <2>1. ASSUME NEW f \in Outcomes, NEW err \in BOOLEAN, Decides(f, err)
          PROVE  \A c \in CallCounters : ctr'[c] = ctr[c]
        BY <1>2, <2>1 DEF Decides, Resolve
    <2>2. CASE SendSplit
        BY <1>2, <2>2 DEF SendSplit
    <2>3. CASE Settle
        BY <1>6, <1>8, <2>3 DEF Settle, Release, Bump
    <2>4. CASE Account
        <3>1. OutcomeCounter \in Counters \ CallCounters
            BY <1>8 DEF OutcomeCounter
        <3> QED
            BY <1>6, <2>4, <3>1 DEF Account, Bump
    <2> QED
        BY <1>10, <2>1, <2>2, <2>3, <2>4, DeliverCases
<1> QED
    BY <1>3, <1>4, <1>5, <1>9, <1>10

\* CallsOK is kept: a call is counted in exactly one of the counters, in the step in
\* which it releases stateMu (batcher.go:135-157).
LEMMA CallsNext ==
    ASSUME IInv, CallsOK, [Next]_vars
    PROVE  CallsOK'
<1>1. TypeOK /\ JobOK /\ TypeOK'
    <2>1. IInv'
        BY NextInv
    <2> QED
        BY <2>1 DEF IInv, QueueInv
<1>2. ctr \in [Counters -> Int] /\ track \in TrackCalls
    BY <1>1 DEF TypeOK
<1>3. /\ ctr.enqueued \in Int /\ ctr.dropped \in Int /\ ctr.rejected \in Int
      /\ MaxCalls \in Int
    BY <1>2, ConfigAssumption DEF Counters
<1> DEFINE busy(t) == IF t.pc = "idle" THEN 0 ELSE 1
<1>4. /\ ctr.dropped >= 0 /\ ctr.rejected >= 0
      /\ ctr.enqueued + ctr.dropped + ctr.rejected + busy(track) <= MaxCalls
    BY DEF CallsOK, Calls
<1>5. ASSUME ctr'.dropped >= 0, ctr'.rejected >= 0,
             ctr'.enqueued + ctr'.dropped + ctr'.rejected + busy(track') <= MaxCalls
      PROVE  CallsOK'
    BY <1>5 DEF CallsOK, Calls
<1>6. ASSUME ctr'.enqueued = ctr.enqueued, ctr'.dropped = ctr.dropped,
             ctr'.rejected = ctr.rejected, busy(track') = busy(track)
      PROVE  CallsOK'
    BY <1>4, <1>5, <1>6
<1>7. CASE Reject
    <2>1. ctr' = [ctr EXCEPT !.rejected = @ + 1] /\ track' = track /\ Calls < MaxCalls
        BY <1>7 DEF Reject, Bump, Plus
    <2>2. /\ ctr'.enqueued = ctr.enqueued /\ ctr'.dropped = ctr.dropped
          /\ ctr'.rejected = ctr.rejected + 1
        BY <1>2, <2>1 DEF Counters
    <2>3. ctr.enqueued + ctr.dropped + ctr.rejected + busy(track) < MaxCalls
        BY <2>1 DEF Calls
    <2>4. busy(track) \in {0, 1} /\ busy(track') = busy(track)
        BY <2>1
    <2> HIDE DEF busy
    <2> QED
        BY <1>3, <1>4, <1>5, <2>2, <2>3, <2>4
<1>8. CASE TrackBegin
    <2>1. ctr' = ctr /\ track.pc = "idle" /\ track'.pc = "owned" /\ Calls < MaxCalls
        BY <1>8 DEF TrackBegin, LoadedUnsent
    <2>2. ctr.enqueued + ctr.dropped + ctr.rejected + 0 < MaxCalls /\ busy(track') = 1
        BY <2>1 DEF Calls
    <2> HIDE DEF busy
    <2> QED
        BY <1>3, <1>4, <1>5, <2>1, <2>2
<1>9. CASE TrackLoadOwned
    BY <1>6, <1>9 DEF TrackLoadOwned
<1>10. ASSUME ctr'.enqueued + ctr'.dropped = ctr.enqueued + ctr.dropped + 1,
              ctr'.dropped \in {ctr.dropped, ctr.dropped + 1}, ctr'.rejected = ctr.rejected,
              track.pc # "idle", track' = IdleTrack
       PROVE  CallsOK'
    <2>1. busy(track) = 1 /\ busy(track') = 0
        BY <1>10 DEF IdleTrack
    <2>2. ctr'.enqueued \in Int /\ ctr'.dropped \in Int
        BY <1>1 DEF TypeOK, Counters
    <2> HIDE DEF busy
    <2> QED
        BY <1>3, <1>4, <1>5, <1>10, <2>1, <2>2
<1>11. CASE TrackAdmit
    <2>1. CASE ctr' = Bump("dropped", 1) /\ track' = IdleTrack
        <3>1. /\ ctr'.enqueued = ctr.enqueued /\ ctr'.dropped = ctr.dropped + 1
              /\ ctr'.rejected = ctr.rejected
            BY <1>2, <2>1 DEF Bump, Plus, Counters
        <3>2. track.pc # "idle"
            BY <1>11 DEF TrackAdmit
        <3> QED
            BY <1>3, <1>10, <2>1, <3>1, <3>2
    <2>2. CASE track' = [track EXCEPT !.pc = "cas"] /\ UNCHANGED ctr
        <3>1. track'.pc = "cas" /\ track.pc = "durable"
            BY <1>2, <1>11, <2>2 DEF TrackAdmit, TrackCalls
        <3> QED
            BY <1>6, <2>2, <3>1
    <2> QED
        BY <1>11, <2>1, <2>2 DEF TrackAdmit
<1>12. CASE TrackReserve
    <2>1. track.pc = "cas" /\ track'.pc \in {"send", "owned"}
        BY <1>12 DEF TrackReserve, IdleTrack, LoadedUnsent
    <2>2. /\ ctr'.enqueued = ctr.enqueued /\ ctr'.dropped = ctr.dropped
          /\ ctr'.rejected = ctr.rejected
        BY <1>2, <1>12 DEF TrackReserve, Reserved, Bump, Plus, Counters
    <2> QED
        BY <1>6, <2>1, <2>2
<1>13. CASE TrackSend
    <2>1. CASE track' = [track EXCEPT !.pc = "count"] /\ UNCHANGED ctr
        <3>1. track'.pc = "count" /\ track.pc = "send"
            BY <1>2, <1>13, <2>1 DEF TrackSend, TrackCalls
        <3> QED
            BY <1>6, <2>1, <3>1
    <2>2. CASE ctr' = Plus(Bump("unsent", -1), "dropped", 1) /\ track' = IdleTrack
        <3>1. /\ ctr'.enqueued = ctr.enqueued /\ ctr'.dropped = ctr.dropped + 1
              /\ ctr'.rejected = ctr.rejected
            BY <1>2, <2>2 DEF Bump, Plus, Counters
        <3>2. track.pc # "idle"
            BY <1>13 DEF TrackSend
        <3> QED
            BY <1>3, <1>10, <2>2, <3>1, <3>2
    <2> QED
        BY <1>13, <2>1, <2>2 DEF TrackSend
<1>14. CASE TrackCount
    <2>1. ctr' = [ctr EXCEPT !.enqueued = @ + 1] /\ track' = IdleTrack /\ track.pc = "count"
        BY <1>14 DEF TrackCount, Bump, Plus
    <2>2. /\ ctr'.enqueued = ctr.enqueued + 1 /\ ctr'.dropped = ctr.dropped
          /\ ctr'.rejected = ctr.rejected
        BY <1>2, <2>1 DEF Counters
    <2> QED
        BY <1>3, <1>10, <2>1, <2>2
<1>15. CASE Select \/ Recover \/ SendChunks \/ Deliver \/ Aside
    <2>1. \A c \in CallCounters : ctr'[c] = ctr[c]
        BY <1>1, <1>15, LoopLeavesCalls
    <2>2. track' = track
        BY <1>1, <1>15, LoopReleases
    <2> QED
        BY <1>6, <2>1, <2>2 DEF CallCounters
<1> QED
    BY <1>7, <1>8, <1>9, <1>11, <1>12, <1>13, <1>14, <1>15, StepCases DEF Track

---------------------------------------------------------------------------
(* The theorems *)

\* The state before the first step tells nobody anything.
LEMMA InitCallers == Init => CallersOK
<1> SUFFICES ASSUME Init PROVE CallersOK
    OBVIOUS
<1>1. /\ closed = FALSE /\ stopped = FALSE /\ doneClosed = FALSE /\ pc = "select"
      /\ track = IdleTrack /\ pass = NoPass /\ flushRequests = <<>>
      /\ flusher = [f \in Flushers |-> IdleFlush]
      /\ shutter = [s \in Shutters |-> IdleShutdown]
      /\ ctr = [c \in Counters |-> IF c = "recoveryOwned" THEN Recovered ELSE 0]
    BY DEF Init
<1>2. ClosedOK
    BY <1>1 DEF ClosedOK, IdleTrack, IdleShutdown, NoPass
<1>3. RequestsOK
    <2>1. Len(flushRequests) = 0
        BY <1>1
    <2>2. ASSUME NEW f \in Flushers PROVE Asked(f)
        <3>1. f # NoFlusher
            BY ConfigAssumption
        <3> QED
            BY <1>1, <2>1, <3>1 DEF Asked, IdleFlush, NoPass
    <2> QED
        BY <2>1, <2>2 DEF RequestsOK
<1>4. FlushOK
    <2>1. PassOK
        BY <1>1 DEF PassOK, NoPass, Sends
    <2>2. ASSUME NEW f \in Flushers PROVE Fulfilled(f)
        <3>1. f # NoFlusher
            BY ConfigAssumption
        <3> QED
            BY <1>1, <3>1 DEF Fulfilled, IdleFlush, NoPass
    <2> QED
        BY <2>1, <2>2 DEF FlushOK, PassOK, Fulfilled
<1>5. ShutdownOK /\ DeadlineOK
    BY <1>1 DEF ShutdownOK, DeadlineOK, IdleShutdown
<1>6. CallsOK
    <2>1. ctr.enqueued = 0 /\ ctr.dropped = 0 /\ ctr.rejected = 0
        BY <1>1 DEF Counters
    <2>2. Calls = 0
        BY <1>1, <2>1 DEF Calls, IdleTrack
    <2> QED
        BY <2>1, <2>2, ConfigAssumption DEF CallsOK
<1> QED
    BY <1>2, <1>3, <1>4, <1>5, <1>6 DEF CallersOK

\* The inductive invariant of the whole batcher.
CInv == EInv /\ CallersOK

\* Every step keeps it.
LEMMA NextCallers ==
    ASSUME CInv, [Next]_vars
    PROVE  CInv'
<1>1. /\ EInv /\ ClosedOK /\ RequestsOK /\ FlushOK /\ ShutdownOK /\ DeadlineOK /\ CallsOK
      /\ IInv /\ MemoryOK
    BY DEF CInv, CallersOK, EInv, EventsOK
<1>2. EInv'
    BY <1>1, NextEvents
<1>3. ClosedOK'
    BY <1>1, ClosedNext
<1>4. RequestsOK'
    BY <1>1, RequestsNext
<1>5. FlushOK'
    BY <1>1, FlushNext
<1>6. ShutdownOK'
    BY <1>1, <1>3, ShutdownNilNext
<1>7. DeadlineOK'
    BY <1>1, DeadlineNext
<1>8. CallsOK'
    BY <1>1, CallsNext
<1> QED
    BY <1>2, <1>3, <1>4, <1>5, <1>6, <1>7, <1>8 DEF CInv, CallersOK

\* The inductive invariant holds in every behaviour, for every size of the queue, of
\* the batches and of the log, and any number of callers (batcher.go:135-541).
THEOREM CallersInvariance == Spec => []CInv
<1>1. Init => CInv
    BY InitInv, InitEvents, InitCallers DEF CInv, EInv
<1>2. CInv /\ [Next]_vars => CInv'
    BY NextCallers
<1> QED
    BY <1>1, <1>2, PTL DEF Spec

\* BatcherInv: queue and log are accounted for, events decided in order and counted
\* once, callers answered with what happened (batcher.go:135-541).
THEOREM BatcherCorrect == Spec => []BatcherInv
<1>1. CInv => BatcherInv
    BY DEF CInv, EInv, IInv, BatcherInv
<1> QED
    BY <1>1, CallersInvariance, PTL

\* NothingStranded: when the loop is gone, memory is empty, every slot is released, and
\* what is unresolved is in the log (batcher.go:255-259, 301-366).
THEOREM NoneStranded == Spec => []NothingStranded
<1>1. CInv => NothingStranded
    <2> SUFFICES ASSUME CInv, doneClosed
                 PROVE  Unresolved = WalEvents /\ ctr.unsent = 0 /\ InMemory = <<>>
        BY DEF NothingStranded
    <2>1. /\ EInv /\ ClosedOK /\ TypeOK /\ JobOK /\ MemoryOK /\ PartitionOK
          /\ UnsentAccounted
        BY DEF CInv, CallersOK, EInv, IInv, QueueInv, EventsOK
    <2>2. /\ pc = "done" /\ events = <<>> /\ pending = <<>> /\ ends = <<>>
          /\ LastDecided = LastAccepted
        BY <2>1, DoneDecides
    <2>3. InMemory = <<>>
        BY <2>2 DEF InMemory, Undecided
    <2>4. ctr.unsent = 0
        <3>1. track.pc = "idle"
            BY <2>1 DEF ClosedOK
        <3>2. Unsettled = 0 /\ Len(events) = 0 /\ Len(pending) = 0
            BY <2>2 DEF Unsettled
        <3> QED
            BY <2>1, <3>1, <3>2 DEF UnsentAccounted
    <2>5. Unresolved = WalEvents
        <3>1. Unresolved = WalEvents \union ((LastDecided + 1) .. LastAccepted)
            BY <2>1, UnresolvedEvents
        <3>2. LastAccepted \in Int
            BY <2>1, MemoryTypes
        <3>3. (LastDecided + 1) .. LastAccepted = {}
            BY <2>2, <3>2
        <3> QED
            BY <3>1, <3>3
    <2> QED
        BY <2>3, <2>4, <2>5
<1> QED
    BY <1>1, CallersInvariance, PTL

\* FlushNilMeansDelivered: a Flush that returns nil has seen everything it waited for
\* confirmed, except what was already decided when the loop took its request
\* (batcher.go:159-184, 386-404).
THEOREM FlushNilCorrect == Spec => []FlushNilMeansDelivered
<1>1. CInv => FlushNilMeansDelivered
    <2> SUFFICES ASSUME CInv, NEW f \in Flushers, flusher[f].result = "nil"
                 PROVE  flusher[f].due \subseteq confirmed /\ flusher[f].mark \cap Unresolved = {}
        BY DEF FlushNilMeansDelivered
    <2>1. flusher[f].due \subseteq confirmed /\ flusher[f].mark \subseteq confirmed \union lost
        BY DEF CInv, CallersOK, FlushOK
    <2> QED
        BY <2>1 DEF Unresolved
<1> QED
    BY <1>1, CallersInvariance, PTL

\* ShutdownNilMeansDelivered: a Shutdown that returns nil leaves no event unconfirmed,
\* then or later (batcher.go:196-214, alitycs.go:179-196).
THEOREM ShutdownNilCorrect == Spec => []ShutdownNilMeansDelivered
<1>1. CInv => ShutdownNilMeansDelivered
    <2> SUFFICES ASSUME CInv, NEW s \in Shutters, shutter[s].result = "nil"
                 PROVE  RestartOwned \union Accepted \subseteq confirmed
        BY DEF ShutdownNilMeansDelivered
    <2>1. TypeOK /\ JobOK /\ MemoryOK /\ PartitionOK
        BY DEF CInv, EInv, IInv, QueueInv, EventsOK
    <2>2. (1 - Recovered) .. LastAccepted \subseteq confirmed
        BY DEF CInv, CallersOK, ShutdownOK
    <2> QED
        BY <2>1, <2>2, UnresolvedEvents
<1> QED
    BY <1>1, CallersInvariance, PTL

\* DeadlineReportCovers, when no earlier process left events in the log: the torn loads
\* of undeliveredAtDeadline never report too little (batcher.go:456-463).
THEOREM DeadlineCovers == Recovered = 0 => (Spec => []DeadlineReportCovers)
<1>1. ASSUME Recovered = 0 PROVE CInv => DeadlineReportCovers
    <2> SUFFICES ASSUME CInv, NEW s \in Shutters, shutter[s].result = "deadline"
                 PROVE  shutter[s].sum >= Cardinality(Unresolved)
        BY DEF DeadlineReportCovers
    <2>1. TypeOK /\ JobOK /\ MemoryOK /\ PartitionOK
        BY DEF CInv, EInv, IInv, QueueInv, EventsOK
    <2>2. shutter[s].sum >= Outstanding
        BY <1>1 DEF CInv, CallersOK, DeadlineOK
    <2> QED
        BY <2>1, <2>2, UnresolvedCount
<1> SUFFICES ASSUME Recovered = 0 PROVE Spec => []DeadlineReportCovers
    OBVIOUS
<1>2. CInv => DeadlineReportCovers
    BY <1>1
<1> QED
    BY <1>2, CallersInvariance, PTL

---------------------------------------------------------------------------
(* The batcher implements the delivery contract *)

\* The events of the contract.
Slots == (1 - Recovered) .. MaxCalls

\* The status of an event says where it is: in the log, in memory, or in which part of
\* the history (batcher.go:77-90, 135-157).
LEMMA StatusCases ==
    ASSUME TypeOK, JobOK, MemoryOK, PartitionOK, NEW e \in Slots
    PROVE  /\ e \in Int
           /\ StatusOf(e) = "delivered" <=> e \in confirmed
           /\ StatusOf(e) = "lost" <=> e \in lost
           /\ StatusOf(e) = "retained" <=> e \in WalEvents
           /\ StatusOf(e) = "accepted" <=> LastDecided < e /\ e <= LastAccepted
           /\ StatusOf(e) = "absent" <=> LastAccepted < e
           /\ e \in confirmed \union lost \union WalEvents <=> e <= LastDecided
<1>1. LastDecided \in Nat /\ LastAccepted \in Nat /\ LastDecided <= LastAccepted
    BY DecidedNat
<1>2. e \in Int /\ 1 - Recovered <= e /\ Recovered \in Int
    BY ConfigAssumption DEF Slots
<1>3. e \in confirmed \union lost \union WalEvents <=> e <= LastDecided
    <2>1. confirmed \union lost \union WalEvents = (1 - Recovered) .. LastDecided
        BY DEF PartitionOK
    <2> QED
        BY <1>1, <1>2, <2>1
<1>4. confirmed \cap lost = {} /\ WalEvents \cap (confirmed \union lost) = {}
    BY DEF PartitionOK
<1>5. e \in Accepted <=> 1 <= e /\ e <= LastAccepted
    <2>1. Accepted = 1 .. LastAccepted
        BY DEF Accepted, LastAccepted
    <2> QED
        BY <1>1, <1>2, <2>1
<1>6. e <= LastDecided => StatusOf(e) \in {"delivered", "lost", "retained"}
    BY <1>3 DEF StatusOf
<1>7. LastDecided < e /\ e <= LastAccepted => StatusOf(e) = "accepted"
    BY <1>1, <1>2, <1>3, <1>5 DEF StatusOf
<1>8. LastAccepted < e => StatusOf(e) = "absent"
    BY <1>1, <1>2, <1>3, <1>5 DEF StatusOf
<1>9. /\ StatusOf(e) = "delivered" <=> e \in confirmed
      /\ StatusOf(e) = "lost" <=> e \in lost
      /\ StatusOf(e) = "retained" <=> e \in WalEvents
    BY <1>4 DEF StatusOf
<1>10. e <= LastDecided \/ (LastDecided < e /\ e <= LastAccepted) \/ LastAccepted < e
    BY <1>1, <1>2
<1>11. StatusOf(e) = "accepted" <=> LastDecided < e /\ e <= LastAccepted
    BY <1>1, <1>2, <1>6, <1>7, <1>8, <1>10
<1>12. StatusOf(e) = "absent" <=> LastAccepted < e
    BY <1>1, <1>2, <1>6, <1>7, <1>8, <1>10
<1> QED
    BY <1>2, <1>3, <1>9, <1>11, <1>12

\* Accepted events fit in the contract's range (batcher.go:135-157).
LEMMA WithinCalls ==
    ASSUME TypeOK, CallsOK
    PROVE  /\ LastAccepted \in Int /\ MaxCalls \in Nat /\ LastAccepted <= MaxCalls
           /\ track.pc = "send" => LastAccepted + 1 <= MaxCalls
<1>1. ctr.enqueued \in Int /\ ctr.dropped \in Int /\ ctr.rejected \in Int /\ MaxCalls \in Nat
    BY ConfigAssumption DEF TypeOK, Counters
<1> DEFINE busy == IF track.pc = "idle" THEN 0 ELSE 1
<1> DEFINE last == IF track.pc = "count" THEN 1 ELSE 0
<1>2. ctr.dropped >= 0 /\ ctr.rejected >= 0
      /\ ctr.enqueued + ctr.dropped + ctr.rejected + busy <= MaxCalls
    BY DEF CallsOK, Calls
<1>3. last <= busy /\ last \in Int /\ busy \in Int /\ (track.pc = "send" => last = 0 /\ busy = 1)
    OBVIOUS
<1>4. LastAccepted = ctr.enqueued + last
    BY DEF LastAccepted
<1> HIDE DEF busy, last
<1> QED
    BY <1>1, <1>2, <1>3, <1>4

\* A step that gives the events of S the status st, and leaves the others alone.
LEMMA Becoming ==
    ASSUME NEW S, NEW st,
           \A e \in Slots : StatusOf(e)' = IF e \in S THEN st ELSE StatusOf(e)
    PROVE  Contract!Becomes(S, st)
BY DEF Contract!Becomes, Contract!Events, Slots

\* Only a Shutdown call closes the client, and that changes nothing else
\* (alitycs.go:188-196).
LEMMA OpenSteps ==
    ASSUME [Next]_vars
    PROVE  closed' = closed \/ (closed' /\ track' = track /\ pc' = pc)
<1>1. ASSUME NEW s \in Shutters, Shutdown(s)
      PROVE  closed' = closed \/ (closed' /\ track' = track /\ pc' = pc)
    <2>1. CASE ShutdownClose(s)
        BY <2>1 DEF ShutdownClose, ShutdownUnchanged, loop
    <2>2. CASE ~ShutdownClose(s)
        BY <1>1, <2>2 DEF Shutdown, ShutdownStop, ShutdownAgain, WaitDone, Deadline,
           DeadlineFailed, DeadlineRecoveryFailed, DeadlineDelivered, DeadlineReturn,
           DeadlineStep, signals
    <2> QED
        BY <2>1, <2>2
<1>2. CASE Reject \/ Track
    <2>1. TrackUnchanged
        BY <1>2 DEF Reject, Track, TrackBegin, TrackLoadOwned, TrackAdmit, TrackReserve,
           TrackSend, TrackCount
    <2> QED
        BY <2>1 DEF TrackUnchanged, signals
<1>3. ASSUME NEW f \in Flushers, Flush(f) PROVE closed' = closed
    <2>1. FlushUnchanged
        BY <1>3 DEF Flush, FlushCall, FlushEnqueue, FlushReply, FlushClosed, FlushAbandon
    <2> QED
        BY <2>1 DEF FlushUnchanged, signals
<1>4. CASE Select \/ SendChunks \/ Exit
    BY <1>4 DEF Select, LoopStop, LoopEvent, LoopTick, LoopFlush, SendChunks, PassBlocked,
       PersistPending, StartChunks, NextChunk, NoMoreChunks, Exit, ReplyPendingFlush,
       NoPendingFlush, CloseDone, ExitUnchanged, LoopUnchanged
<1>5. CASE Recover
    <2>1. RecoverUnchanged
        BY <1>5 DEF Recover, RecoverEnds, RecoverBlocked, RecoverDelivered, RecoverTerminal,
           RecordResolved, CountFailed, CountRecoveryFailed, CountDurable, CountDelivered,
           CountStep, CountOwned
    <2> QED
        BY <2>1 DEF RecoverUnchanged, LoopUnchanged
<1>6. CASE Deliver
    <2>1. DeliverUnchanged
        BY <1>6 DEF Deliver, SplitLimit, SendDelivered, SendTerminal, SendSplit, SendRetained,
           SendFailed, SendUnstored, Persisted, NotPersisted, Settle, Account, Sending, Resolve
    <2> QED
        BY <2>1 DEF DeliverUnchanged, LoopUnchanged
<1>7. CASE UNCHANGED vars \/ Finished
    BY <1>7 DEF Finished, vars, signals
<1> QED
    BY <1>1, <1>2, <1>3, <1>4, <1>5, <1>6, <1>7 DEF Next, LoopWork, Select

\* TrackSend accepts an event: the next one, while the client is open
\* (batcher.go:146-157).
LEMMA AcceptRefines ==
    ASSUME CInv, [Next]_vars, Accepts
    PROVE  Contract!Accept
<1>1. TypeOK /\ JobOK /\ MemoryOK /\ PartitionOK /\ ClosedOK /\ CallsOK
    BY DEF CInv, EInv, IInv, QueueInv, EventsOK, CallersOK
<1> DEFINE n == LastAccepted + 1
<1>2. LastDecided \in Nat /\ LastAccepted \in Nat /\ LastDecided <= LastAccepted
    BY <1>1, DecidedNat
<1>3. n \in Slots /\ Recovered \in Nat
    <2>1. n <= MaxCalls /\ MaxCalls \in Nat
        BY <1>1, WithinCalls DEF Accepts
    <2> QED
        BY <1>2, <2>1, ConfigAssumption DEF Slots
<1>4. ~closed /\ closed' = closed
    <2>1. ~closed
        BY <1>1 DEF ClosedOK, Accepts
    <2>2. track' # track
        BY DEF Accepts
    <2> QED
        BY <2>1, <2>2, OpenSteps
<1>5. StatusOf(n) = "absent"
    BY <1>1, <1>2, <1>3, StatusCases
<1>6. \A d \in Slots : d < n => StatusOf(d) # "absent"
    <2>1. ASSUME NEW d \in Slots, d < n PROVE StatusOf(d) # "absent"
        BY <1>1, <1>2, <2>1, StatusCases
    <2> QED
        BY <2>1
<1>7. ASSUME NEW e \in Slots PROVE StatusOf(e)' = IF e \in {n} THEN "accepted" ELSE StatusOf(e)
    <2>1. UNCHANGED <<confirmed, lost>> /\ WalEvents' = WalEvents
        BY DEF Accepts, store, WalEvents
    <2>2. Accepted = 1 .. LastAccepted /\ Accepted' = 1 .. (LastAccepted + 1)
        BY DEF Accepts, Accepted, LastAccepted
    <2>3. e \in Int
        BY DEF Slots
    <2>4. CASE e = n
        <3>1. e \notin confirmed \union lost \union WalEvents
            BY <1>1, <1>2, <2>4, StatusCases
        <3>2. e \in Accepted'
            BY <1>2, <2>2, <2>4
        <3> QED
            BY <2>1, <2>4, <3>1, <3>2 DEF StatusOf
    <2>5. CASE e # n
        <3>1. e \in Accepted' <=> e \in Accepted
            BY <1>2, <2>2, <2>3, <2>5
        <3> QED
            BY <2>1, <2>5, <3>1 DEF StatusOf
    <2> QED
        BY <2>4, <2>5
<1>8. Contract!Becomes({n}, "accepted")
    BY <1>7, Becoming
<1> HIDE DEF n
<1> QED
    BY <1>3, <1>4, <1>5, <1>6, <1>8 DEF Contract!Accept, Contract!Events, Slots

\* A decided piece of a chunk is the oldest that is accepted; while the log holds events
\* of an earlier process, a piece only follows them into it, after Close
\* (batcher.go:301-366, 484-541).
LEMMA DispatchRefines ==
    ASSUME CInv, [Next]_vars, Dispatches
    PROVE  Contract!Dispatch
<1>1. /\ TypeOK /\ JobOK /\ LogCounted
      /\ MemoryOK /\ PartitionOK /\ OwnedOK /\ ClosedOK /\ CallsOK
    BY DEF CInv, EInv, IInv, QueueInv, EventsOK, CallersOK
<1>2. PICK f \in Outcomes, err \in BOOLEAN : Decides(f, err)
    BY DEF Dispatches
<1>3. pc \in {"deliver", "persist"} /\ (f = "delivered" => pc = "deliver") /\ pc' = "settle"
    BY <1>2 DEF Decides, Resolve
<1> DEFINE m == LastDecided + PieceSize
<1>4. /\ LastDecided \in Nat /\ LastAccepted \in Nat /\ PieceSize \in Nat \ {0}
      /\ m \in Nat /\ LastDecided < m /\ m <= LastAccepted
    <2>1. /\ LastDecided \in Nat /\ LastAccepted \in Nat
          /\ LastAccepted = LastDecided + (Len(chunk) - Decided) + Len(pending) + Len(events)
        BY <1>1, DecidedNat
    <2>2. /\ ends # <<>> /\ Head(ends) \in Nat /\ Head(ends) <= Len(chunk)
          /\ PieceSize \in Nat \ {0} /\ Len(chunk) \in Nat
        BY <1>1, <1>3, CurrentPiece DEF Sends
    <2>3. Decided = settled /\ settled \in Nat
        BY <1>1, <1>3, <2>2 DEF Decided, TypeOK
    <2>4. Len(pending) \in Nat /\ Len(events) \in Nat
        BY <1>1 DEF TypeOK
    <2>5. PieceSize = Head(ends) - settled
        BY DEF PieceSize
    <2> QED
        BY <2>1, <2>2, <2>3, <2>4, <2>5
<1>5. m \in Slots
    <2>1. LastAccepted <= MaxCalls /\ MaxCalls \in Nat
        BY <1>1, WithinCalls
    <2> QED
        BY <1>4, <2>1, ConfigAssumption DEF Slots
<1>6. StatusOf(m) = "accepted"
    BY <1>1, <1>4, <1>5, StatusCases
<1>7. closed' = closed
    <2>1. pc' # pc
        BY <1>3
    <2> QED
        BY <2>1, OpenSteps
<1>8. ASSUME NEW d \in Slots, d <= 0, StatusOf(d) = "retained"
      PROVE  closed /\ f # "delivered"
    <2>1. d \in WalEvents
        BY <1>1, <1>8, StatusCases
    <2>2. PICK i \in 1 .. Len(wal) : wal[i].event = d
        BY <2>1 DEF WalEvents
    <2>3. i <= Owned /\ Owned \in Int
        BY <1>1, <1>8, <2>2 DEF OwnedOK
    <2>4. Owned = ctr.recoveryOwned
        <3>1. pc \notin Counts
            BY <1>3 DEF Counts
        <3>2. ctr.recoveryOwned \in Int
            BY <1>1, OwnedTypes
        <3> QED
            BY <3>1, <3>2 DEF Owned
    <2>5. ctr.recoveryOwned # 0
        BY <2>3, <2>4
    <2>6. pass.purpose = "persist"
        BY <1>1, <1>3, <2>5 DEF LogCounted, Sends
    <2>7. closed
        <3>1. stopped
            BY <1>1, <2>6 DEF ClosedOK
        <3> QED
            BY <1>1, <3>1 DEF ClosedOK
    <2>8. pc # "deliver"
        BY <1>1, <2>6 DEF JobOK
    <2> QED
        BY <1>3, <2>7, <2>8
<1> DEFINE S == (LastDecided + 1) .. m
<1>9. EventsOf(Piece) = S
    BY <1>1, <1>3, PieceEvents
<1>10. ASSUME NEW e \in Slots PROVE StatusOf(e)' = IF e \in S THEN f ELSE StatusOf(e)
    <2>1. /\ confirmed' = IF f = "delivered" THEN confirmed \union S ELSE confirmed
          /\ lost' = IF f = "lost" THEN lost \union S ELSE lost
          /\ wal' = IF f = "retained" THEN Put ELSE wal
        BY <1>2, <1>9 DEF Decides, Resolve
    <2>2. WalEvents' = IF f = "retained" THEN WalEvents \union S ELSE WalEvents
        <3>1. CASE f = "retained"
            <4>1. /\ Len(Put) = Len(wal) + PieceSize /\ Len(wal) \in Nat
                  /\ \A i \in 1 .. Len(wal) : Put[i] = wal[i]
                  /\ \A i \in 1 .. PieceSize : Put[Len(wal) + i].event = LastDecided + i
                BY <1>1, <1>3, PutEntries, OwnedTypes
            <4>2. WalEvents' = {Put[i].event : i \in 1 .. Len(Put)}
                BY <2>1, <3>1 DEF WalEvents
            <4>3. ASSUME NEW i \in 1 .. Len(Put) PROVE Put[i].event \in WalEvents \union S
                <5>1. CASE i <= Len(wal)
                    BY <4>1, <5>1 DEF WalEvents
                <5>2. CASE i > Len(wal)
                    <6>1. i - Len(wal) \in 1 .. PieceSize /\ i = Len(wal) + (i - Len(wal))
                        BY <1>4, <4>1, <5>2
                    <6>2. Put[i].event = LastDecided + (i - Len(wal))
                        BY <4>1, <6>1
                    <6> QED
                        BY <1>4, <6>1, <6>2
                <5> QED
                    BY <4>1, <5>1, <5>2
            <4>4. ASSUME NEW d \in WalEvents PROVE d \in WalEvents'
                <5>1. PICK i \in 1 .. Len(wal) : wal[i].event = d
                    BY DEF WalEvents
                <5>2. i \in 1 .. Len(Put) /\ Put[i].event = d
                    BY <1>4, <4>1, <5>1
                <5> QED
                    BY <4>2, <5>2
            <4>5. ASSUME NEW d \in S PROVE d \in WalEvents'
                <5>1. d - LastDecided \in 1 .. PieceSize /\ d = LastDecided + (d - LastDecided)
                    BY <1>4
                <5>2. Put[Len(wal) + (d - LastDecided)].event = d
                    BY <4>1, <5>1
                <5>3. Len(wal) + (d - LastDecided) \in 1 .. Len(Put)
                    BY <1>4, <4>1, <5>1
                <5> QED
                    BY <4>2, <5>2, <5>3
            <4> QED
                BY <3>1, <4>2, <4>3, <4>4, <4>5
        <3>2. CASE f # "retained"
            BY <2>1, <3>2 DEF WalEvents
        <3> QED
            BY <3>1, <3>2
    <2>3. Accepted' = Accepted
        BY DEF Dispatches, Accepted, LastAccepted
    <2>4. CASE e \in S
        <3>1. e \notin confirmed \union lost \union WalEvents
            BY <1>1, <1>4, <2>4, StatusCases
        <3> HIDE DEF S
        <3> QED
            BY <2>1, <2>2, <2>4, <3>1 DEF StatusOf, Outcomes
    <2>5. CASE e \notin S
        <3> HIDE DEF S
        <3> QED
            BY <2>1, <2>2, <2>3, <2>5 DEF StatusOf, Outcomes
    <2> QED
        BY <2>4, <2>5
<1>11. Contract!Oldest("accepted", m) = S
    <2>1. Contract!Oldest("accepted", m) = {e \in Slots : e <= m /\ StatusOf(e) = "accepted"}
        BY DEF Contract!Oldest, Contract!Events, Slots
    <2>2. ASSUME NEW e \in Slots PROVE e <= m /\ StatusOf(e) = "accepted" <=> e \in S
        BY <1>1, <1>4, StatusCases
    <2>3. S \subseteq Slots
        BY <1>4, <1>5, ConfigAssumption DEF Slots
    <2> QED
        BY <2>1, <2>2, <2>3
<1>12. Contract!Becomes(Contract!Oldest("accepted", m), f)
    <2> HIDE DEF S, m
    <2> QED
        BY <1>10, <1>11, Becoming
<1>13. Contract!RestartOwnedLeft => closed /\ f # "delivered"
    BY <1>8 DEF Contract!RestartOwnedLeft, Contract!Events, Slots
<1> HIDE DEF m, S
<1> QED
    BY <1>5, <1>6, <1>7, <1>12, <1>13 DEF Contract!Dispatch, Contract!Events, Slots, Outcomes

\* A replayed record is the oldest of the log (batcher.go:386-447).
LEMMA ReplayRefines ==
    ASSUME CInv, [Next]_vars, ReplaysRecord
    PROVE  Contract!Replay
<1>1. /\ TypeOK /\ JobOK /\ MemoryOK /\ PartitionOK /\ CallsOK
    BY DEF CInv, EInv, IInv, QueueInv, EventsOK, CallersOK
<1>2. PICK n \in 1 .. Len(wal), stop \in BOOLEAN : Replays(n, 0, stop) \/ Replays(n, n, stop)
    BY DEF ReplaysRecord
<1>3. /\ pc = "recover" /\ wal' = Suffix(wal, n) /\ n \in Nat \ {0}
      /\ pc' \in {"countFailed", "countOwned", "countDurable"}
    BY <1>2 DEF Replays, RecordResolved
<1>4. PICK f \in {"delivered", "lost"} :
          /\ confirmed' = IF f = "delivered" THEN confirmed \union HeadEvents(n) ELSE confirmed
          /\ lost' = IF f = "lost" THEN lost \union HeadEvents(n) ELSE lost
    <2>1. \/ confirmed' = confirmed \union HeadEvents(n) /\ lost' = lost
          \/ lost' = lost \union HeadEvents(n) /\ confirmed' = confirmed
        BY <1>2 DEF Replays
    <2> QED
        BY <2>1
<1>5. /\ Len(wal) \in Nat
      /\ \A i \in 1 .. Len(wal) : wal[i].event \in Int
      /\ WalEvents = HeadEvents(n) \union WalEvents'
      /\ HeadEvents(n) \cap WalEvents' = {}
    BY <1>1, <1>3, ReplayEvents
<1>6. closed' = closed
    <2>1. pc' # pc
        BY <1>3
    <2> QED
        BY <2>1, OpenSteps
<1> DEFINE m == wal[n].event
<1>7. WalEvents \subseteq Slots
    <2>1. WalEvents \subseteq (1 - Recovered) .. LastDecided
        BY <1>1 DEF PartitionOK
    <2>2. LastDecided \in Nat /\ LastAccepted \in Nat /\ LastDecided <= LastAccepted
        BY <1>1, DecidedNat
    <2>3. LastAccepted <= MaxCalls /\ MaxCalls \in Nat
        BY <1>1, WithinCalls
    <2> QED
        BY <2>1, <2>2, <2>3, ConfigAssumption DEF Slots
<1>8. m \in WalEvents /\ m \in Slots
    BY <1>7 DEF WalEvents
<1>9. StatusOf(m) = "retained"
    BY <1>1, <1>8, StatusCases
<1>10. ASSUME NEW e \in Slots
       PROVE  StatusOf(e)' = IF e \in HeadEvents(n) THEN f ELSE StatusOf(e)
    <2>1. Accepted' = Accepted
        BY DEF ReplaysRecord, Accepted, LastAccepted
    <2>2. e \in HeadEvents(n) => e \notin confirmed /\ e \notin lost
        BY <1>1, <1>5 DEF PartitionOK
    <2>3. CASE e \in HeadEvents(n)
        BY <1>4, <2>2, <2>3 DEF StatusOf
    <2>4. CASE e \notin HeadEvents(n)
        <3>1. e \in WalEvents' <=> e \in WalEvents
            BY <1>5, <2>4
        <3> QED
            BY <1>4, <2>1, <2>4, <3>1 DEF StatusOf
    <2> QED
        BY <2>3, <2>4
<1>11. Contract!Oldest("retained", m) = HeadEvents(n)
    <2>1. Contract!Oldest("retained", m) = {e \in Slots : e <= m /\ StatusOf(e) = "retained"}
        BY DEF Contract!Oldest, Contract!Events, Slots
    <2>2. ASSUME NEW e \in Slots, e <= m, StatusOf(e) = "retained" PROVE e \in HeadEvents(n)
        <3>1. e \in WalEvents
            BY <1>1, <2>2, StatusCases
        <3>2. PICK i \in 1 .. Len(wal) : wal[i].event = e
            BY <3>1 DEF WalEvents
        <3>3. ~(n < i)
            <4>1. ASSUME n < i PROVE FALSE
                <5>1. wal[n].event < wal[i].event
                    BY <1>1, <4>1 DEF PartitionOK
                <5> QED
                    BY <1>5, <2>2, <3>2, <5>1
            <4> QED
                BY <4>1
        <3>4. i \in 1 .. n
            BY <1>5, <3>3
        <3> QED
            BY <3>2, <3>4 DEF HeadEvents
    <2>3. ASSUME NEW e \in HeadEvents(n)
          PROVE  e \in Slots /\ e <= m /\ StatusOf(e) = "retained"
        <3>1. e \in WalEvents /\ e \in Slots
            BY <1>5, <1>7
        <3>2. PICK i \in 1 .. n : wal[i].event = e
            BY DEF HeadEvents
        <3>3. e <= m
            <4>1. CASE i = n
                BY <1>5, <3>2, <4>1
            <4>2. CASE i < n
                <5>1. i \in 1 .. Len(wal)
                    BY <1>5
                <5>2. wal[i].event < wal[n].event
                    BY <1>1, <4>2, <5>1 DEF PartitionOK
                <5> QED
                    BY <1>5, <3>2, <5>1, <5>2
            <4> QED
                BY <1>3, <4>1, <4>2
        <3> QED
            BY <1>1, <3>1, <3>3, StatusCases
    <2> HIDE DEF m
    <2> QED
        BY <2>1, <2>2, <2>3
<1>12. Contract!Becomes(Contract!Oldest("retained", m), f)
    <2> HIDE DEF m
    <2> QED
        BY <1>10, <1>11, Becoming
<1> HIDE DEF m
<1> QED
    BY <1>6, <1>8, <1>9, <1>12 DEF Contract!Replay, Contract!Events, Slots

\* Every other step moves events between the places of one status, or only closes the
\* client.
LEMMA KeepsRefines ==
    ASSUME [Next]_vars, Keeps
    PROVE  Contract!Close \/ UNCHANGED Contract!contractVars
<1>1. \A e \in Slots : StatusOf(e)' = StatusOf(e)
    <2>1. UNCHANGED <<confirmed, lost>> /\ WalEvents' = WalEvents
        BY DEF Keeps, store, WalEvents
    <2>2. Accepted' = Accepted
        BY DEF Keeps, Accepted, LastAccepted
    <2> QED
        BY <2>1, <2>2 DEF StatusOf
<1>2. closed' = closed \/ closed'
    BY OpenSteps
<1>3. CASE closed' = closed
    BY <1>1, <1>3 DEF Contract!contractVars, Slots
<1>4. CASE closed'
    BY <1>1, <1>4 DEF Contract!Close, Slots
<1> QED
    BY <1>2, <1>3, <1>4

\* Every step of the batcher is a step of the contract, or none of its business.
LEMMA StepRefinesContract ==
    ASSUME CInv, [Next]_vars
    PROVE  [Contract!ContractNext]_(Contract!contractVars)
<1>1. IInv /\ MemoryOK
    BY DEF CInv, EInv, EventsOK
<1>2. Keeps \/ Accepts \/ Dispatches \/ ReplaysRecord
    BY <1>1, ViewSteps
<1>3. CASE Keeps
    BY <1>3, KeepsRefines DEF Contract!ContractNext
<1>4. CASE Accepts
    BY <1>4, AcceptRefines DEF Contract!ContractNext
<1>5. CASE Dispatches
    BY <1>5, DispatchRefines DEF Contract!ContractNext
<1>6. CASE ReplaysRecord
    BY <1>6, ReplayRefines DEF Contract!ContractNext
<1> QED
    BY <1>2, <1>3, <1>4, <1>5, <1>6

\* The log that an earlier process left is all there is at the start.
LEMMA InitRefinesContract == Init => Contract!ContractInit
<1> SUFFICES ASSUME Init PROVE Contract!ContractInit
    OBVIOUS
<1>1. TypeOK /\ JobOK /\ MemoryOK /\ PartitionOK
    BY InitInv, InitEvents DEF IInv, QueueInv, EventsOK
<1>2. confirmed = {} /\ lost = {} /\ closed = FALSE
    BY DEF Init
<1>3. LastAccepted = 0 /\ LastDecided = 0
    <2>1. ctr.enqueued = 0 /\ track.pc = "idle"
        BY DEF Init, Counters, IdleTrack
    <2>2. LastAccepted = 0
        BY <2>1 DEF LastAccepted
    <2> QED
        BY <1>1, <2>2, DecidedNat
<1>4. ASSUME NEW e \in Slots
      PROVE  StatusOf(e) = IF e <= 0 THEN "retained" ELSE "absent"
    <2>1. /\ e \in Int
          /\ StatusOf(e) = "retained" <=> e \in WalEvents
          /\ StatusOf(e) = "absent" <=> LastAccepted < e
          /\ e \in confirmed \union lost \union WalEvents <=> e <= LastDecided
        BY <1>1, StatusCases
    <2> QED
        BY <1>2, <1>3, <2>1
<1> QED
    BY <1>2, <1>4 DEF Contract!ContractInit, Contract!Events, Slots

\* The batcher implements the delivery contract, however enqueueing, flushing,
\* recovering, sending and closing interleave: events are accepted only while the client
\* is open, decided once and in order, and those of an earlier process first
\* (batcher.go:135-541, alitycs.go:188-196).
THEOREM BatcherRefines == Spec => RefinesContract
<1>1. Init => Contract!ContractInit
    BY InitRefinesContract
<1>2. CInv /\ [Next]_vars => [Contract!ContractNext]_(Contract!contractVars)
    BY StepRefinesContract
<1> QED
    BY <1>1, <1>2, CallersInvariance, PTL DEF Spec, RefinesContract, Contract!ContractSpec

=============================================================================
