------------------------- MODULE BatcherEventsProofs -------------------------
(***************************************************************************)
(* Theorems about the events of Batcher: none vanishes, they stay in       *)
(* order, the counters account for them, and the queue overshoots its      *)
(* limit by at most one batch.                                             *)
(***************************************************************************)
EXTENDS BatcherProofs, FiniteSetTheorems

---------------------------------------------------------------------------
(* Runs of consecutive events *)

\* Accepting the next event extends a run at its end.
LEMMA RunAppend ==
    ASSUME NEW s \in Seq(Int), NEW b \in Int, Run(s, b), NEW e, e = b + Len(s) + 1
    PROVE  Run(Append(s, e), b)
BY DEF Run

\* A run without its first event is the run that starts one later.
LEMMA RunTail ==
    ASSUME NEW s \in Seq(Int), NEW b \in Int, Run(s, b), s # <<>>
    PROVE  Head(s) = b + 1 /\ Run(Tail(s), b + 1)
<1>1. Len(s) \in Nat \ {0} /\ Head(s) = s[1]
    OBVIOUS
<1>2. Len(Tail(s)) = Len(s) - 1 /\ \A i \in 1 .. Len(s) - 1 : Tail(s)[i] = s[i + 1]
    BY TailFacts
<1> QED
    BY <1>1, <1>2 DEF Run

\* Two runs, the second starting where the first ends, make one.
LEMMA RunConcat ==
    ASSUME NEW s \in Seq(Int), NEW t \in Seq(Int), NEW b \in Int,
           Run(s, b), Run(t, b + Len(s))
    PROVE  Run(s \o t, b)
<1>1. Len(s) \in Nat /\ Len(t) \in Nat /\ Len(s \o t) = Len(s) + Len(t)
    OBVIOUS
<1>2. ASSUME NEW i \in 1 .. Len(s) + Len(t) PROVE (s \o t)[i] = b + i
    <2>1. CASE i <= Len(s)
        <3>1. (s \o t)[i] = s[i] /\ i \in 1 .. Len(s)
            BY <1>1, <2>1
        <3> QED
            BY <3>1 DEF Run
    <2>2. CASE ~(i <= Len(s))
        <3>1. (s \o t)[i] = t[i - Len(s)] /\ i - Len(s) \in 1 .. Len(t)
            BY <1>1, <2>2
        <3>2. t[i - Len(s)] = (b + Len(s)) + (i - Len(s))
            BY <3>1 DEF Run
        <3> QED
            BY <1>1, <3>1, <3>2
    <2> QED
        BY <2>1, <2>2
<1> QED
    BY <1>1, <1>2 DEF Run

\* The elements of a concatenation, first those of s, then those of t.
LEMMA ConcatElements ==
    ASSUME NEW S, NEW s \in Seq(S), NEW t \in Seq(S)
    PROVE  /\ Len(s \o t) = Len(s) + Len(t)
           /\ \A k \in 1 .. Len(s) : (s \o t)[k] = s[k]
           /\ \A k \in 1 .. Len(t) : (s \o t)[Len(s) + k] = t[k]
<1>1. Len(s) \in Nat /\ Len(t) \in Nat /\ Len(s \o t) = Len(s) + Len(t)
    OBVIOUS
<1>2. \A k \in 1 .. Len(s) : (s \o t)[k] = s[k]
    OBVIOUS
<1>3. ASSUME NEW k \in 1 .. Len(t) PROVE (s \o t)[Len(s) + k] = t[k]
    <2>1. /\ Len(s) + k \in 1 .. Len(s) + Len(t) /\ ~(Len(s) + k <= Len(s))
          /\ (Len(s) + k) - Len(s) = k
        BY <1>1
    <2> QED
        BY <1>1, <2>1
<1> QED
    BY <1>1, <1>2, <1>3

\* Every part of a run is a run.
LEMMA RunPart ==
    ASSUME NEW s \in Seq(Int), NEW b \in Int, Run(s, b),
           NEW m \in 0 .. Len(s), NEW n \in m .. Len(s)
    PROVE  Run(SubSeq(s, m + 1, n), b + m) /\ Len(SubSeq(s, m + 1, n)) = n - m
<1>1. /\ Len(SubSeq(s, m + 1, n)) = n - m
      /\ \A i \in 1 .. n - m : SubSeq(s, m + 1, n)[i] = s[m + i]
    OBVIOUS
<1>2. \A i \in 1 .. n - m : s[m + i] = b + (m + i)
    BY DEF Run
<1> QED
    BY <1>1, <1>2 DEF Run

\* So are what drainChannel takes from the channel and what it leaves there.
LEMMA RunSplit ==
    ASSUME NEW s \in Seq(Int), NEW b \in Int, Run(s, b), NEW n \in 0 .. Len(s)
    PROVE  Run(Prefix(s, n), b) /\ Run(Suffix(s, n), b + n)
<1>1. Len(s) \in Nat /\ 0 \in 0 .. Len(s) /\ n \in 0 .. Len(s) /\ Len(s) \in n .. Len(s)
    OBVIOUS
<1>2. Run(SubSeq(s, 0 + 1, n), b + 0)
    BY <1>1, RunPart
<1>3. Run(SubSeq(s, n + 1, Len(s)), b + n)
    BY <1>1, RunPart
<1>4. b + 0 = b /\ 0 + 1 = 1
    OBVIOUS
<1> QED
    BY <1>2, <1>3, <1>4 DEF Prefix, Suffix

\* The events of a run are an interval.
LEMMA RunEvents ==
    ASSUME NEW s \in Seq(Int), NEW b \in Int, Run(s, b)
    PROVE  EventsOf(s) = (b + 1) .. (b + Len(s))
<1>1. Len(s) \in Nat
    OBVIOUS
<1>2. \A i \in 1 .. Len(s) : s[i] = b + i
    BY DEF Run
<1>3. ASSUME NEW e \in (b + 1) .. (b + Len(s)) PROVE e \in EventsOf(s)
    <2>1. e - b \in 1 .. Len(s) /\ b + (e - b) = e
        BY <1>1
    <2>2. s[e - b] = e
        BY <1>2, <2>1
    <2> QED
        BY <2>1, <2>2 DEF EventsOf
<1>4. ASSUME NEW e \in EventsOf(s) PROVE e \in (b + 1) .. (b + Len(s))
    <2>1. PICK i \in 1 .. Len(s) : e = s[i]
        BY DEF EventsOf
    <2>2. s[i] = b + i
        BY <1>2
    <2> QED
        BY <1>1, <2>1, <2>2
<1> QED
    BY <1>3, <1>4

---------------------------------------------------------------------------
(* The events in memory: MemoryOK *)

\* The numbers that delimit the events in memory are integers.
LEMMA MemoryTypes ==
    ASSUME TypeOK, JobOK
    PROVE  /\ events \in Seq(Int) /\ pending \in Seq(Int) /\ chunk \in Seq(Int)
           /\ Len(events) \in Nat /\ Len(pending) \in Nat /\ Len(chunk) \in Nat
           /\ LastAccepted \in Int /\ Base \in Int
           /\ Decided \in 0 .. Len(chunk) /\ LastDecided \in Int
<1>1. /\ events \in Seq(Int) /\ pending \in Seq(Int) /\ chunk \in Seq(Int)
      /\ settled \in Nat /\ ctr \in [Counters -> Int]
    BY DEF TypeOK
<1>2. Len(events) \in Nat /\ Len(pending) \in Nat /\ Len(chunk) \in Nat
    BY <1>1
<1>3. LastAccepted \in Int
    BY <1>1, CounterTypes DEF LastAccepted
<1>4. Base \in Int
    BY <1>2, <1>3 DEF Base
<1>5. Decided \in 0 .. Len(chunk)
    <2>1. CASE ends = <<>>
        BY <1>2, <2>1 DEF Decided
    <2>2. CASE ends # <<>>
        <3>1. pc \in Sends
            BY <2>2 DEF JobOK
        <3>2. settled < Head(ends) /\ Head(ends) <= Len(chunk) /\ Head(ends) \in Nat
            BY <3>1, CurrentPiece
        <3> QED
            BY <1>1, <1>2, <2>2, <3>2 DEF Decided
    <2> QED
        BY <2>1, <2>2
<1> QED
    BY <1>1, <1>2, <1>3, <1>4, <1>5 DEF LastDecided

\* MemoryOK depends on the three sequences and on the last accepted event.
LEMMA MemoryKept ==
    ASSUME MemoryOK, UNCHANGED <<events, pending, chunk>>, ends' # <<>> \/ ends' = ends,
           LastAccepted' = LastAccepted, Decided' = Decided
    PROVE  MemoryOK' /\ LastDecided' = LastDecided
<1>1. Base' = Base
    BY DEF Base
<1> QED
    BY <1>1 DEF MemoryOK, LastDecided

\* The enqueueing call (batcher.go:135-157) sends the event that follows the
\* last one to the channel, and counts it afterwards.
LEMMA TrackMemory ==
    ASSUME IInv, MemoryOK, Reject \/ Track
    PROVE  /\ MemoryOK' /\ LastDecided' = LastDecided
           /\ UNCHANGED <<store, pc, chunk, ends, settled, pass, flusher, shutter, signals>>
           /\ \/ LastAccepted' = LastAccepted /\ events' = events
              \/ /\ LastAccepted' = LastAccepted + 1 /\ Len(events') = Len(events) + 1
                 /\ track.pc = "send" /\ track'.pc = "count" /\ ctr' = ctr
<1>1. TypeOK /\ JobOK
    BY DEF IInv, QueueInv
<1>2. /\ events \in Seq(Int) /\ Len(events) \in Nat /\ Len(pending) \in Nat
      /\ Len(chunk) \in Nat /\ LastAccepted \in Int /\ Base \in Int
    BY <1>1, MemoryTypes
<1>3. ctr \in [Counters -> Int] /\ track \in TrackCalls /\ ctr.enqueued \in Int
    BY <1>1, CounterTypes DEF TypeOK
<1>4. TrackUnchanged
    BY DEF Reject, Track, TrackBegin, TrackLoadOwned, TrackAdmit, TrackReserve,
       TrackSend, TrackCount
<1>5. UNCHANGED <<store, pc, pending, chunk, ends, settled, pass, flusher, shutter, signals>>
    BY <1>4 DEF TrackUnchanged, loop, job
<1>6. Decided' = Decided
    BY <1>5 DEF Decided
<1>7. CASE TrackSend /\ Len(events) < QueueLimit
    <2>1. /\ track.pc = "send" /\ track' = [track EXCEPT !.pc = "count"] /\ ctr' = ctr
          /\ events' = Append(events, ctr.enqueued + 1)
        BY <1>7 DEF TrackSend
    <2>2. track'.pc = "count"
        BY <1>3, <2>1 DEF TrackCalls
    <2>3. LastAccepted = ctr.enqueued /\ LastAccepted' = LastAccepted + 1
        BY <1>3, <2>1, <2>2 DEF LastAccepted
    <2>4. Len(events') = Len(events) + 1
        BY <1>2, <1>3, <2>1
    <2>5. Base' = Base
        <3>1. Len(pending') = Len(pending) /\ Len(chunk') = Len(chunk)
            BY <1>5
        <3>2. Base' = LastAccepted' - Len(events') - Len(pending') - Len(chunk')
            BY DEF Base
        <3>3. Base = LastAccepted - Len(events) - Len(pending) - Len(chunk)
            BY DEF Base
        <3>4. Base' = (LastAccepted + 1) - (Len(events) + 1) - Len(pending) - Len(chunk)
            BY <2>3, <2>4, <3>1, <3>2
        <3> QED
            BY <1>2, <3>3, <3>4
    <2>6. ctr.enqueued + 1 = (Base + Len(chunk) + Len(pending)) + Len(events) + 1
        BY <1>2, <2>3 DEF Base
    <2>7. Run(events', Base + Len(chunk) + Len(pending))
        <3>1. Run(events, Base + Len(chunk) + Len(pending))
            BY DEF MemoryOK
        <3>2. Base + Len(chunk) + Len(pending) \in Int
            BY <1>2
        <3> QED
            BY <1>2, <2>1, <2>6, <3>1, <3>2, RunAppend
    <2>8. MemoryOK'
        BY <1>5, <2>5, <2>7 DEF MemoryOK
    <2> QED
        BY <1>5, <1>6, <2>1, <2>2, <2>3, <2>4, <2>5, <2>8 DEF LastDecided
<1>8. CASE ~(TrackSend /\ Len(events) < QueueLimit)
    <2>1. events' = events /\ LastAccepted' = LastAccepted
        <3>1. \A c \in Counters \ {"enqueued"}, n \in Int :
                 /\ Plus(ctr, c, n).enqueued = ctr.enqueued
                 /\ Plus(Bump("unsent", -1), c, n).enqueued = ctr.enqueued
            BY <1>3 DEF Plus, Bump, Counters
        <3>2. {"rejected", "dropped", "unsent"} \subseteq Counters \ {"enqueued"}
            BY DEF Counters
        <3>3. CASE Reject
            BY <3>1, <3>2, <3>3 DEF Reject, Bump, LastAccepted
        <3>4. CASE TrackBegin
            BY <3>4 DEF TrackBegin, LoadedUnsent, LastAccepted
        <3>5. CASE TrackLoadOwned
            BY <3>5 DEF TrackLoadOwned, LastAccepted
        <3>6. CASE TrackAdmit
            <4>1. [track EXCEPT !.pc = "cas"].pc = "cas"
                BY <1>3 DEF TrackCalls
            <4>2. CASE track.total + ctr.durableCurrent >= QueueLimit
                BY <3>1, <3>2, <3>6, <4>2 DEF TrackAdmit, Bump, IdleTrack, LastAccepted
            <4>3. CASE ~(track.total + ctr.durableCurrent >= QueueLimit)
                BY <3>6, <4>1, <4>3 DEF TrackAdmit, LastAccepted
            <4> QED
                BY <4>2, <4>3
        <3>7. CASE TrackReserve
            BY <3>1, <3>2, <3>7 DEF TrackReserve, Reserved, Bump, IdleTrack, LoadedUnsent,
               LastAccepted
        <3>8. CASE TrackSend
            BY <1>8, <3>1, <3>2, <3>8 DEF TrackSend, IdleTrack, LastAccepted
        <3>9. CASE TrackCount
            BY <1>3, <3>9 DEF TrackCount, Bump, Plus, Counters, IdleTrack, LastAccepted
        <3> QED
            BY <3>3, <3>4, <3>5, <3>6, <3>7, <3>8, <3>9 DEF Track
    <2>2. MemoryOK' /\ LastDecided' = LastDecided
        BY <1>5, <1>6, <2>1, MemoryKept
    <2> QED
        BY <1>5, <2>1, <2>2
<1> QED
    BY <1>7, <1>8

\* drainChannel (batcher.go:371-380) moves the front of the channel to the end of
\* pending: both are runs afterwards, one following the other.
LEMMA DrainRuns ==
    ASSUME TypeOK, JobOK, MemoryOK
    PROVE  /\ Run(Drained, Base + Len(chunk))
           /\ Run(Suffix(events, DrainCount), Base + Len(chunk) + Len(Drained))
<1>1. /\ events \in Seq(Int) /\ Len(events) \in Nat
      /\ pending \in Seq(Int) /\ Len(pending) \in Nat
      /\ Base + Len(chunk) \in Int /\ Base + Len(chunk) + Len(pending) \in Int
    BY MemoryTypes
<1>2. DrainCount \in 0 .. Len(events) /\ Len(Drained) = Len(pending) + DrainCount
    BY DrainLengths
<1>3. Run(pending, Base + Len(chunk)) /\ Run(events, Base + Len(chunk) + Len(pending))
    BY DEF MemoryOK
<1>4. /\ Run(Prefix(events, DrainCount), Base + Len(chunk) + Len(pending))
      /\ Run(Suffix(events, DrainCount), Base + Len(chunk) + Len(pending) + DrainCount)
    BY <1>1, <1>2, <1>3, RunSplit
<1>5. Prefix(events, DrainCount) \in Seq(Int)
    BY <1>1, <1>2, SplitLengths
<1>6. Run(Drained, Base + Len(chunk))
    BY <1>1, <1>3, <1>4, <1>5, RunConcat DEF Drained
<1>7. Base + Len(chunk) + Len(pending) + DrainCount = Base + Len(chunk) + Len(Drained)
    BY <1>1, <1>2
<1> QED
    BY <1>4, <1>6, <1>7

\* Moving events from the channel to pending keeps MemoryOK.
LEMMA MovedMemory ==
    ASSUME TypeOK, JobOK, MemoryOK, UNCHANGED <<chunk, ends>>,
           LastAccepted' = LastAccepted, Decided' = Decided,
           NEW p \in Seq(Int), NEW q \in Seq(Int), pending' = p, events' = q,
           Len(p) + Len(q) = Len(pending) + Len(events),
           Run(p, Base + Len(chunk)), Run(q, Base + Len(chunk) + Len(p))
    PROVE  MemoryOK' /\ LastDecided' = LastDecided
<1>1. /\ Len(events) \in Nat /\ Len(pending) \in Nat /\ Len(chunk) \in Nat
      /\ LastAccepted \in Int
    BY MemoryTypes
<1>2. Len(p) \in Nat /\ Len(q) \in Nat
    OBVIOUS
<1>3. Base' = Base
    <2>1. Base' = LastAccepted - Len(q) - Len(p) - Len(chunk)
        BY DEF Base
    <2>2. Base = LastAccepted - Len(events) - Len(pending) - Len(chunk)
        BY DEF Base
    <2>3. Len(q) = Len(pending) + Len(events) - Len(p)
        BY <1>1, <1>2
    <2>4. Base' = LastAccepted - (Len(pending) + Len(events) - Len(p)) - Len(p) - Len(chunk)
        BY <2>1, <2>3
    <2> QED
        BY <1>1, <1>2, <2>2, <2>4
<1>4. MemoryOK'
    BY <1>3 DEF MemoryOK
<1> QED
    BY <1>3, <1>4 DEF LastDecided

\* drainChannel keeps MemoryOK.
LEMMA DrainMemory ==
    ASSUME TypeOK, JobOK, MemoryOK, UNCHANGED <<chunk, ends>>,
           LastAccepted' = LastAccepted, Decided' = Decided,
           pending' = Drained, events' = Suffix(events, DrainCount)
    PROVE  MemoryOK' /\ LastDecided' = LastDecided
<1>1. /\ Drained \in Seq(Int) /\ Suffix(events, DrainCount) \in Seq(Int)
      /\ Len(Drained) = Len(pending) + DrainCount
      /\ Len(Suffix(events, DrainCount)) = Len(events) - DrainCount
      /\ DrainCount \in 0 .. Len(events)
    BY DrainLengths
<1>2. Len(events) \in Nat /\ Len(pending) \in Nat
    BY MemoryTypes
<1>3. Len(Drained) + Len(Suffix(events, DrainCount)) = Len(pending) + Len(events)
    BY <1>1, <1>2
<1> QED
    BY <1>1, <1>3, DrainRuns, MovedMemory

\* No case of the select (batcher.go:255-299) accepts or decides an event.
LEMMA SelectMemory ==
    ASSUME IInv, MemoryOK, Select
    PROVE  /\ MemoryOK' /\ LastDecided' = LastDecided /\ LastAccepted' = LastAccepted
           /\ UNCHANGED store
<1>1. TypeOK /\ JobOK
    BY DEF IInv, QueueInv
<1>2. /\ pc = "select" /\ pc' \in {"select", "recover"}
      /\ UNCHANGED <<ctr, chunk, ends, settled, store, track>>
    BY DEF Select, LoopStop, LoopEvent, LoopTick, LoopFlush, StartPass, LoopUnchanged, job
<1>3. LastAccepted' = LastAccepted /\ Decided' = Decided
    BY <1>2 DEF LastAccepted, Decided
<1>4. CASE LoopStop \/ LoopTick
    BY <1>2, <1>3, <1>4, MemoryKept DEF LoopStop, LoopTick
<1>5. CASE LoopEvent
    <2>1. events # <<>> /\ pending' = Append(pending, Head(events)) /\ events' = Tail(events)
        BY <1>5 DEF LoopEvent
    <2>2. /\ events \in Seq(Int) /\ pending \in Seq(Int) /\ Base + Len(chunk) \in Int
          /\ Len(events) \in Nat /\ Len(pending) \in Nat
          /\ Base + Len(chunk) + Len(pending) \in Int
        BY <1>1, MemoryTypes
    <2>3. Run(pending, Base + Len(chunk)) /\ Run(events, Base + Len(chunk) + Len(pending))
        BY DEF MemoryOK
    <2>4. /\ Head(events) = Base + Len(chunk) + Len(pending) + 1
          /\ Run(Tail(events), Base + Len(chunk) + Len(pending) + 1)
        BY <2>1, <2>2, <2>3, RunTail
    <2>5. Run(Append(pending, Head(events)), Base + Len(chunk))
        BY <2>2, <2>3, <2>4, RunAppend
    <2>6. /\ Append(pending, Head(events)) \in Seq(Int) /\ Tail(events) \in Seq(Int)
          /\ Len(Append(pending, Head(events))) = Len(pending) + 1
          /\ Len(Tail(events)) = Len(events) - 1
        BY <2>1, <2>2
    <2>7. Base + Len(chunk) + Len(pending) + 1
              = Base + Len(chunk) + Len(Append(pending, Head(events)))
        BY <2>2, <2>6
    <2>8. Len(Append(pending, Head(events))) + Len(Tail(events)) = Len(pending) + Len(events)
        BY <2>2, <2>6
    <2>9. Run(Tail(events), Base + Len(chunk) + Len(Append(pending, Head(events))))
        BY <2>4, <2>7
    <2> QED
        BY <1>1, <1>2, <1>3, <2>1, <2>5, <2>6, <2>8, <2>9, MovedMemory
<1>6. CASE LoopFlush
    BY <1>1, <1>2, <1>3, <1>6, DrainMemory DEF LoopFlush
<1> QED
    BY <1>2, <1>3, <1>4, <1>5, <1>6 DEF Select

\* Cutting pending into chunks (batcher.go:334-404) accepts and decides nothing.
LEMMA SendChunksMemory ==
    ASSUME IInv, MemoryOK, SendChunks
    PROVE  /\ MemoryOK' /\ LastDecided' = LastDecided /\ LastAccepted' = LastAccepted
           /\ UNCHANGED <<store, ctr, track, progress>>
<1>1. TypeOK /\ JobOK /\ IInv'
    BY SendChunksInv DEF IInv, QueueInv
<1>2. /\ pc \in {"recovered", "chunk"} /\ UNCHANGED <<ctr, track, store, progress>>
    BY DEF SendChunks, PassBlocked, PersistPending, StartChunks, NextChunk, NoMoreChunks,
       LoopUnchanged
<1>3. ends = <<>> /\ chunk = <<>> /\ Len(chunk) = 0 /\ Decided = 0
    <2>1. ends = <<>>
        BY <1>1, <1>2 DEF JobOK, Sends
    <2>2. chunk = <<>>
        BY <2>1 DEF MemoryOK
    <2> QED
        BY <2>1, <2>2 DEF Decided
<1>4. LastAccepted' = LastAccepted
    BY <1>2 DEF LastAccepted
<1>5. CASE PassBlocked \/ NoMoreChunks
    <2>1. UNCHANGED <<events, pending, chunk, ends>>
        BY <1>5 DEF PassBlocked, NoMoreChunks, job
    <2>2. Decided' = Decided
        BY <1>3, <2>1 DEF Decided
    <2> QED
        BY <1>2, <1>4, <2>1, <2>2, MemoryKept
<1>6. CASE PersistPending \/ (StartChunks /\ pass.purpose \in {"tick", "flush"})
    <2>1. /\ UNCHANGED <<chunk, ends>>
          /\ pending' = Drained /\ events' = Suffix(events, DrainCount)
        BY <1>6 DEF PersistPending, StartChunks, job
    <2>2. Decided' = Decided
        BY <1>3, <2>1 DEF Decided
    <2> QED
        BY <1>1, <1>2, <1>4, <2>1, <2>2, DrainMemory
<1>7. CASE StartChunks /\ pass.purpose \notin {"tick", "flush"}
    <2>1. UNCHANGED <<events, pending, chunk, ends>>
        BY <1>7 DEF StartChunks, job
    <2>2. Decided' = Decided
        BY <1>3, <2>1 DEF Decided
    <2> QED
        BY <1>2, <1>4, <2>1, <2>2, MemoryKept
<1>8. CASE NextChunk
    <2> DEFINE size == Least(FlushSize, Len(Waiting))
    <2>1. /\ Waiting \in Seq(Int) /\ Waiting # <<>> /\ Undrained \in Seq(Int)
          /\ Len(Waiting) + Len(Undrained) = Len(pending) + Len(events)
        BY <1>1, <1>8, WaitingLengths DEF NextChunk
    <2>2. size \in 1 .. Len(Waiting)
        BY <2>1, ConfigAssumption DEF Least
    <2>3. /\ chunk' = Prefix(Waiting, size) /\ pending' = Suffix(Waiting, size)
          /\ ends' = <<size>> /\ events' = Undrained /\ settled' = 0
          /\ pc' = IF pass.purpose = "persist" THEN "persist" ELSE "deliver"
        BY <1>8 DEF NextChunk
    <2> HIDE DEF size
    <2>4. size \in 0 .. Len(Waiting) /\ size \in Nat /\ Len(Waiting) \in Nat
          /\ Len(Undrained) \in Nat
        BY <2>1, <2>2
    <2>5. Len(chunk') = size /\ Len(pending') = Len(Waiting) - size
        BY <2>1, <2>3, <2>4, SplitLengths
    <2>6. /\ Len(events) \in Nat /\ Len(pending) \in Nat /\ Base \in Int
          /\ LastAccepted \in Int
        BY <1>1, MemoryTypes
    <2>7. Run(Waiting, Base) /\ Run(Undrained, Base + Len(Waiting))
        <3>1. Base + Len(chunk) = Base /\ Base + Len(chunk) + Len(pending) = Base + Len(pending)
              /\ Base + Len(chunk) + Len(Drained) = Base + Len(Drained)
            BY <1>3, <2>6
        <3>2. CASE pass.purpose = "finish"
            BY <1>1, <3>1, <3>2, DrainRuns DEF Waiting, Undrained
        <3>3. CASE pass.purpose # "finish"
            BY <3>1, <3>3 DEF Waiting, Undrained, MemoryOK
        <3> QED
            BY <3>2, <3>3
    <2>8. Run(chunk', Base) /\ Run(pending', Base + size)
        BY <2>1, <2>3, <2>4, <2>6, <2>7, RunSplit
    <2>9. Base' = Base
        <3>1. Base' = LastAccepted - Len(Undrained) - (Len(Waiting) - size) - size
            BY <1>4, <2>3, <2>5 DEF Base
        <3>2. Base = LastAccepted - Len(events) - Len(pending) - 0
            BY <1>3 DEF Base
        <3> QED
            BY <2>1, <2>4, <2>6, <3>1, <3>2
    <2>10. Run(events', Base + size + Len(pending'))
        <3>1. Base + size + Len(pending') = Base + Len(Waiting)
            BY <2>4, <2>5, <2>6
        <3> QED
            BY <2>3, <2>7, <3>1
    <2>11. ends' # <<>> /\ Decided' = 0
        BY <2>3 DEF Decided
    <2>12. MemoryOK'
        BY <2>5, <2>8, <2>9, <2>10, <2>11 DEF MemoryOK
    <2> QED
        BY <1>2, <1>3, <1>4, <2>9, <2>11, <2>12 DEF LastDecided
<1> QED
    BY <1>5, <1>6, <1>7, <1>8 DEF SendChunks

Outcomes == {"delivered", "retained", "lost"}

\* The outcome f of the current piece is decided; only a lost piece, or one kept
\* after an attempt to send it, is an error for sure.
Decides(f, err) ==
    /\ pc \in {"deliver", "persist"}
    /\ Resolve(f, err)
    /\ f = "delivered" => pc = "deliver"
    /\ f = "lost" => err
    /\ f = "retained" => err \/ pc = "persist"

\* What deliver may do (batcher.go:484-541): decide, split, settle or account.
LEMMA DeliverCases ==
    ASSUME Deliver
    PROVE  \/ \E f \in Outcomes, err \in BOOLEAN : Decides(f, err)
           \/ SendSplit \/ Settle \/ Account
<1>1. CASE SplitLimit
    BY <1>1 DEF SplitLimit, Decides, Outcomes
<1>2. CASE SendDelivered
    <2>1. PICK warned \in {FALSE, Durable} : Resolve("delivered", warned)
        BY <1>2 DEF SendDelivered
    <2>2. warned \in BOOLEAN /\ pc = "deliver"
        BY <1>2, ConfigAssumption DEF SendDelivered, Sending
    <2>3. Decides("delivered", warned)
        BY <2>1, <2>2 DEF Decides
    <2> QED
        BY <2>2, <2>3 DEF Outcomes
<1>3. CASE SendTerminal
    BY <1>3 DEF SendTerminal, Sending, Decides, Outcomes
<1>4. CASE SendRetained
    BY <1>4 DEF SendRetained, Sending, Decides, Outcomes
<1>5. CASE SendFailed
    BY <1>5 DEF SendFailed, Sending, Decides, Outcomes
<1>6. CASE SendUnstored
    BY <1>6 DEF SendUnstored, Sending, Decides, Outcomes
<1>7. CASE Persisted
    BY <1>7 DEF Persisted, Decides, Outcomes
<1>8. CASE NotPersisted
    BY <1>8 DEF NotPersisted, Decides, Outcomes
<1> QED
    BY <1>1, <1>2, <1>3, <1>4, <1>5, <1>6, <1>7, <1>8 DEF Deliver

\* The piece being sent holds the oldest events without an outcome.
LEMMA PieceEvents ==
    ASSUME TypeOK, JobOK, MemoryOK, pc \in {"deliver", "persist"}
    PROVE  /\ Run(Piece, LastDecided) /\ Piece \in Seq(Int) /\ Len(Piece) = PieceSize
           /\ EventsOf(Piece) = (LastDecided + 1) .. (LastDecided + PieceSize)
<1>1. pc \in Sends
    BY DEF Sends
<1>2. /\ chunk \in Seq(Int) /\ Base \in Int /\ LastDecided \in Int /\ settled \in Nat
    BY MemoryTypes DEF TypeOK
<1>3. /\ ends # <<>> /\ settled < Head(ends) /\ Head(ends) <= Len(chunk) /\ Head(ends) \in Nat
      /\ Len(chunk) \in Nat
    BY <1>1, CurrentPiece
<1>4. Decided = settled /\ LastDecided = Base + settled
    BY <1>3 DEF Decided, LastDecided
<1>5. settled \in 0 .. Len(chunk) /\ Head(ends) \in settled .. Len(chunk)
    BY <1>2, <1>3
<1>6. Run(Piece, LastDecided)
    <2>1. Run(chunk, Base)
        BY DEF MemoryOK
    <2>2. Run(SubSeq(chunk, settled + 1, Head(ends)), Base + settled)
        BY <1>2, <1>5, <2>1, RunPart
    <2> QED
        BY <1>4, <2>2 DEF Piece
<1>7. Piece \in Seq(Int) /\ Len(Piece) = PieceSize
    BY <1>1, PieceType
<1>8. EventsOf(Piece) = (LastDecided + 1) .. (LastDecided + Len(Piece))
    BY <1>2, <1>6, <1>7, RunEvents
<1> QED
    BY <1>6, <1>7, <1>8

\* A decision moves the piece out of memory; splitting, settling and accounting
\* (batcher.go:507-541) leave the border between decided and undecided alone.
LEMMA DeliverMemory ==
    ASSUME IInv, MemoryOK, Deliver
    PROVE  /\ MemoryOK' /\ LastAccepted' = LastAccepted
           /\ \/ /\ \E f \in Outcomes, err \in BOOLEAN : Decides(f, err)
                 /\ LastDecided' = LastDecided + PieceSize
              \/ /\ SendSplit \/ Settle \/ Account
                 /\ LastDecided' = LastDecided /\ UNCHANGED store
<1>1. TypeOK /\ JobOK
    BY DEF IInv, QueueInv
<1>2. DeliverUnchanged /\ pc \in Sends
    BY DEF Deliver, SplitLimit, SendDelivered, SendTerminal, SendSplit, SendRetained,
       SendFailed, SendUnstored, Persisted, NotPersisted, Settle, Account, Sending,
       Resolve, Sends
<1>3. UNCHANGED <<events, pending, track>>
    BY <1>2 DEF DeliverUnchanged, LoopUnchanged
<1>4. /\ ends # <<>> /\ Head(ends) \in Nat /\ settled < Head(ends) /\ PieceSize \in Nat \ {0}
      /\ settled \in Nat /\ Len(chunk) \in Nat /\ Base \in Int /\ ends \in Seq(Nat)
      /\ ends[Len(ends)] = Len(chunk) /\ Head(ends) = ends[1] /\ Len(ends) \in Nat \ {0}
      /\ Len(events) \in Nat /\ Len(pending) \in Nat /\ LastAccepted \in Int
    BY <1>1, <1>2, CurrentPiece, MemoryTypes DEF TypeOK, JobOK
<1>5. ctr \in [Counters -> Int]
    BY <1>1 DEF TypeOK
<1>6. LastAccepted' = LastAccepted
    <2>1. \A c \in Counters \ {"enqueued"}, n \in Int : Bump(c, n).enqueued = ctr.enqueued
        BY <1>5 DEF Bump, Plus, Counters
    <2>2. "unsent" \in Counters \ {"enqueued"} /\ OutcomeCounter \in Counters \ {"enqueued"}
        BY DEF Counters, OutcomeCounter
    <2>3. PieceSize \in Int /\ -PieceSize \in Int
        BY <1>4
    <2>4. ctr'.enqueued = ctr.enqueued
        <3>1. ASSUME NEW f \in Outcomes, NEW err \in BOOLEAN, Decides(f, err)
              PROVE  ctr'.enqueued = ctr.enqueued
            BY <3>1 DEF Decides, Resolve
        <3>2. CASE SendSplit
            BY <3>2 DEF SendSplit
        <3>3. CASE Settle
            BY <2>1, <2>2, <2>3, <3>3 DEF Settle, Release
        <3>4. CASE Account
            BY <2>1, <2>2, <2>3, <3>4 DEF Account
        <3> QED
            BY <3>1, <3>2, <3>3, <3>4, DeliverCases
    <2> QED
        BY <1>3, <2>4 DEF LastAccepted
<1>7. ASSUME NEW f \in Outcomes, NEW err \in BOOLEAN, Decides(f, err)
      PROVE  MemoryOK' /\ LastDecided' = LastDecided + PieceSize
    <2>1. /\ pc \in {"deliver", "persist"} /\ pc' = "settle"
          /\ UNCHANGED <<chunk, settled, ends>>
        BY <1>7 DEF Decides, Resolve
    <2>2. Base' = Base
        BY <1>3, <1>6, <2>1 DEF Base
    <2>3. Decided = settled /\ Decided' = Head(ends) /\ ends' # <<>>
        BY <1>4, <2>1 DEF Decided
    <2>4. MemoryOK'
        BY <1>3, <1>4, <2>1, <2>2 DEF MemoryOK
    <2>5. LastDecided = Base + settled /\ LastDecided' = Base + Head(ends)
        BY <2>2, <2>3 DEF LastDecided
    <2>6. Base + Head(ends) = (Base + settled) + (Head(ends) - settled)
        BY <1>4
    <2> QED
        BY <2>4, <2>5, <2>6 DEF PieceSize
<1>8. CASE SendSplit
    <2>1. UNCHANGED <<pc, chunk, settled, store>> /\ ends' = Halves /\ PieceSize > 1
          /\ pc = "deliver"
        BY <1>8 DEF SendSplit, Sending
    <2>2. ends' # <<>>
        <3>1. Halves \in Seq(Nat) /\ Len(Halves) = Len(ends) + 1
            BY <1>1, <2>1, HalvesType
        <3> QED
            BY <1>4, <2>1, <3>1
    <2>3. Decided' = Decided
        BY <1>4, <2>1, <2>2 DEF Decided
    <2> QED
        BY <1>3, <1>6, <1>8, <2>1, <2>2, <2>3, MemoryKept
<1>9. CASE Settle
    <2>1. /\ pc = "settle" /\ pc' = "account" /\ UNCHANGED <<chunk, settled, ends, store>>
        BY <1>9 DEF Settle, job
    <2>2. Decided' = Decided
        BY <2>1 DEF Decided
    <2> QED
        BY <1>3, <1>6, <1>9, <2>1, <2>2, MemoryKept
<1>10. CASE Account /\ Len(ends) > 1
    <2>1. /\ pc = "account" /\ pc' = "deliver" /\ settled' = Head(ends) /\ ends' = Tail(ends)
          /\ UNCHANGED <<chunk, store>>
        BY <1>10 DEF Account
    <2>2. ends' # <<>>
        BY <1>4, <1>10, <2>1, TailFacts
    <2>3. Decided' = Decided
        BY <1>4, <2>1, <2>2 DEF Decided
    <2> QED
        BY <1>3, <1>6, <1>10, <2>1, <2>2, <2>3, MemoryKept
<1>11. CASE Account /\ ~(Len(ends) > 1)
    <2>1. pc = "account" /\ ends' = Tail(ends) /\ chunk' = <<>> /\ UNCHANGED store
        BY <1>11 DEF Account
    <2>2. Len(ends) = 1 /\ ends' = <<>>
        <3>1. Len(ends) \in Nat \ {0} /\ ~(Len(ends) > 1)
            BY <1>4, <1>11
        <3>2. Len(ends) = 1
            <4>1. \A k \in Nat \ {0} : ~(k > 1) => k = 1
                OBVIOUS
            <4> QED
                BY <3>1, <4>1
        <3>3. Tail(ends) \in Seq(Nat) /\ Len(Tail(ends)) = 0
            BY <1>4, <3>2, TailFacts
        <3> QED
            BY <2>1, <3>2, <3>3
    <2>3. Decided = Len(chunk) /\ Decided' = 0
        BY <1>4, <2>1, <2>2 DEF Decided
    <2>4. Base' = Base + Len(chunk)
        <3>1. Base = LastAccepted - Len(events) - Len(pending) - Len(chunk)
            BY DEF Base
        <3>2. Base' = LastAccepted - Len(events) - Len(pending) - 0
            BY <1>3, <1>6, <2>1 DEF Base
        <3> QED
            BY <1>4, <3>1, <3>2
    <2>5. /\ Run(pending, Base + Len(chunk)) /\ Run(events, Base + Len(chunk) + Len(pending))
          /\ Base >= 0
        BY DEF MemoryOK
    <2>6. MemoryOK'
        <3>1. Len(chunk') = 0 /\ Run(chunk', Base')
            BY <2>1 DEF Run
        <3>2. Base' + Len(chunk') = Base + Len(chunk) /\ Base' >= 0
            BY <1>4, <2>4, <2>5, <3>1
        <3> QED
            BY <1>3, <2>1, <2>5, <3>1, <3>2 DEF MemoryOK
    <2>7. LastDecided' = LastDecided
        BY <1>4, <2>3, <2>4 DEF LastDecided
    <2> QED
        BY <1>6, <1>11, <2>1, <2>6, <2>7
<1> QED
    BY <1>6, <1>7, <1>8, <1>9, <1>10, <1>11, DeliverCases

\* The oldest record, of n events, is replayed and leaves the log, with all of
\* its events lost or none.
Replays(n, losses, stop) ==
    /\ pc = "recover"
    /\ RecordResolved(n, losses, stop)
    /\ \/ /\ losses = 0
          /\ confirmed' = confirmed \union HeadEvents(n)
          /\ UNCHANGED <<pass, lost>>
       \/ /\ losses = n
          /\ lost' = lost \union HeadEvents(n)
          /\ pass' = [pass EXCEPT !.err = TRUE]
          /\ UNCHANGED confirmed

Counting == \/ CountFailed \/ CountRecoveryFailed \/ CountDurable
            \/ CountDelivered \/ CountOwned

\* What recovery may do (batcher.go:406-454): replay a record, account for it, or
\* end.
LEMMA RecoverCases ==
    ASSUME Recover
    PROVE  \/ \E n \in 1 .. Len(wal), stop \in BOOLEAN :
                 Replays(n, 0, stop) \/ Replays(n, n, stop)
           \/ RecoverEnds \/ RecoverBlocked \/ Counting
<1>1. CASE RecoverDelivered
    <2>1. PICK n \in 1 .. Len(wal), stop \in BOOLEAN :
             RecordResolved(n, 0, stop) /\ confirmed' = confirmed \union HeadEvents(n)
        BY <1>1 DEF RecoverDelivered
    <2>2. Replays(n, 0, stop)
        BY <1>1, <2>1 DEF RecoverDelivered, Replays
    <2> QED
        BY <2>2
<1>2. CASE RecoverTerminal
    <2>1. PICK n \in 1 .. Len(wal) :
             RecordResolved(n, n, FALSE) /\ lost' = lost \union HeadEvents(n)
        BY <1>2 DEF RecoverTerminal
    <2>2. Replays(n, n, FALSE)
        BY <1>2, <2>1 DEF RecoverTerminal, Replays
    <2> QED
        BY <2>2
<1> QED
    BY <1>1, <1>2 DEF Recover, Counting

\* Recovery (batcher.go:406-454) leaves the events in memory alone; only a replay
\* changes the log.
LEMMA RecoverMemory ==
    ASSUME IInv, MemoryOK, Recover
    PROVE  /\ MemoryOK' /\ LastDecided' = LastDecided /\ LastAccepted' = LastAccepted
           /\ RecoverUnchanged /\ ctr'.enqueued = ctr.enqueued /\ ctr'.unsent = ctr.unsent
           /\ pc \in {"recover"} \union Counts
           /\ pc' \in {"recover", "recovered"} \union Counts
           /\ pass'.purpose = pass.purpose /\ pass'.serving = pass.serving
           /\ ends = <<>> /\ pass.purpose # "persist"
<1>1. TypeOK /\ JobOK
    BY DEF IInv, QueueInv
<1>2. /\ ctr \in [Counters -> Int] /\ pass \in Passes
      /\ progress \in [n : Int, lost : Int, stop : BOOLEAN]
    BY <1>1 DEF TypeOK
<1>3. RecoverUnchanged /\ pc \in {"recover"} \union Counts
    BY DEF Recover, RecoverEnds, RecoverBlocked, RecoverDelivered, RecoverTerminal,
       RecordResolved, CountFailed, CountRecoveryFailed, CountDurable, CountDelivered,
       CountOwned, CountStep, Counts
<1>4. UNCHANGED <<events, pending, chunk, ends, track>>
    BY <1>3 DEF RecoverUnchanged, LoopUnchanged, job
<1>5. ends = <<>> /\ pass.purpose # "persist"
    BY <1>1, <1>3 DEF JobOK, Sends, Counts
<1>6. Decided' = Decided
    BY <1>4, <1>5 DEF Decided
<1>7. /\ ctr'.enqueued = ctr.enqueued /\ ctr'.unsent = ctr.unsent
      /\ pc' \in {"recover", "recovered"} \union Counts
      /\ pass'.purpose = pass.purpose /\ pass'.serving = pass.serving
    <2>1. \A c \in Counters \ {"enqueued", "unsent"}, n \in Int :
             Bump(c, n).enqueued = ctr.enqueued /\ Bump(c, n).unsent = ctr.unsent
        BY <1>2 DEF Bump, Plus, Counters
    <2>2. /\ {"failed", "recoveryFailed", "delivered", "durableCurrent"}
                \subseteq Counters \ {"enqueued", "unsent"}
          /\ progress.n \in Int /\ progress.lost \in Int /\ -progress.n \in Int
        BY <1>2 DEF Counters
    <2>3. RecoveryOwnedUpdated.enqueued = ctr.enqueued /\ RecoveryOwnedUpdated.unsent = ctr.unsent
        BY <1>2 DEF RecoveryOwnedUpdated, Counters
    <2>4. ASSUME NEW b, RecoverReturns(b)
          PROVE  /\ pass'.purpose = pass.purpose /\ pass'.serving = pass.serving
                 /\ pc' = "recovered" /\ ctr' = RecoveryOwnedUpdated
        BY <1>2, <2>4 DEF RecoverReturns, Passes
    <2>5. ASSUME NEW n \in 1 .. Len(wal), NEW losses, NEW stop \in BOOLEAN,
                 Replays(n, losses, stop)
          PROVE  <1>7!:
        <3>1. ctr' = ctr /\ pc' \in Counts
            BY <2>5 DEF Replays, RecordResolved, Counts
        <3>2. pass'.purpose = pass.purpose /\ pass'.serving = pass.serving
            BY <1>2, <2>5 DEF Replays, Passes
        <3> QED
            BY <3>1, <3>2
    <2>6. CASE RecoverEnds
        BY <2>3, <2>4, <2>6 DEF RecoverEnds
    <2>7. CASE RecoverBlocked
        BY <2>3, <2>4, <2>7 DEF RecoverBlocked
    <2>8. CASE CountFailed
        BY <2>1, <2>2, <2>8 DEF CountFailed, CountStep, Counts
    <2>9. CASE CountRecoveryFailed
        BY <2>1, <2>2, <2>9 DEF CountRecoveryFailed, CountStep, Counts
    <2>10. CASE CountDurable
        BY <2>1, <2>2, <2>10 DEF CountDurable, CountStep, Counts
    <2>11. CASE CountDelivered
        BY <2>1, <2>2, <2>11 DEF CountDelivered, CountStep, Counts
    <2>12. CASE CountOwned
        BY <2>3, <2>4, <2>12 DEF CountOwned
    <2> QED
        BY <2>5, <2>6, <2>7, <2>8, <2>9, <2>10, <2>11, <2>12, RecoverCases DEF Counting
<1>8. LastAccepted' = LastAccepted
    BY <1>4, <1>7 DEF LastAccepted
<1>9. MemoryOK' /\ LastDecided' = LastDecided
    BY <1>4, <1>6, <1>8, MemoryKept
<1> QED
    BY <1>3, <1>5, <1>7, <1>8, <1>9

\* The Flush and Shutdown calls, the exit of the loop and a stutter touch neither
\* events nor counters.
Aside ==
    /\ UNCHANGED <<ctr, events, pending, job, track, pass, progress, store>>
    /\ \/ pc' = pc
       \/ {pc, pc'} \subseteq {"exit", "closing", "done"}

\* The callers of Flush and Shutdown, the exit of the loop (batcher.go:543-552) and
\* stuttering are such steps.
LEMMA AsideCases ==
    ASSUME \/ \E f \in Flushers : Flush(f)
           \/ \E s \in Shutters : Shutdown(s)
           \/ Exit \/ UNCHANGED vars
    PROVE  Aside
<1>1. ASSUME NEW f \in Flushers, Flush(f) PROVE Aside
    <2>1. FlushUnchanged
        BY <1>1 DEF Flush, FlushCall, FlushEnqueue, FlushReply, FlushClosed, FlushAbandon
    <2> QED
        BY <2>1 DEF FlushUnchanged, loop, Aside
<1>2. ASSUME NEW s \in Shutters, Shutdown(s) PROVE Aside
    <2>1. ShutdownUnchanged
        BY <1>2 DEF Shutdown, ShutdownClose, ShutdownStop, ShutdownAgain, WaitDone, Deadline,
           DeadlineFailed, DeadlineRecoveryFailed, DeadlineDelivered, DeadlineReturn,
           DeadlineStep
    <2> QED
        BY <2>1 DEF ShutdownUnchanged, loop, Aside
<1>3. CASE Exit
    <2>1. ExitUnchanged /\ {pc, pc'} \subseteq {"exit", "closing", "done"}
        BY <1>3 DEF Exit, ReplyPendingFlush, NoPendingFlush, CloseDone, ExitUnchanged
    <2> QED
        BY <2>1 DEF ExitUnchanged, LoopUnchanged, Aside
<1>4. CASE UNCHANGED vars
    BY <1>4 DEF vars, loop, Aside
<1> QED
    BY <1>1, <1>2, <1>3, <1>4

\* Such a step leaves the order in memory and the border of what is decided.
LEMMA AsideMemory ==
    ASSUME IInv, MemoryOK, Aside
    PROVE  MemoryOK' /\ LastDecided' = LastDecided /\ LastAccepted' = LastAccepted
<1>1. /\ UNCHANGED <<events, pending, chunk, ends, settled, track, ctr>>
      /\ pc' = pc \/ {pc, pc'} \subseteq {"exit", "closing", "done"}
    BY DEF Aside, job
<1>2. LastAccepted' = LastAccepted /\ Decided' = Decided
    BY <1>1 DEF LastAccepted, Decided
<1> QED
    BY <1>1, <1>2, MemoryKept

\* The six kinds of steps of the batcher.
LEMMA StepCases ==
    ASSUME [Next]_vars
    PROVE  Reject \/ Track \/ Select \/ Recover \/ SendChunks \/ Deliver \/ Aside
<1>1. CASE Finished
    BY <1>1, AsideCases DEF Finished
<1>2. CASE UNCHANGED vars
    BY <1>2, AsideCases
<1>3. CASE Exit \/ (\E f \in Flushers : Flush(f)) \/ (\E s \in Shutters : Shutdown(s))
    BY <1>3, AsideCases
<1>4. CASE \/ Reject \/ Track \/ Select \/ Recover \/ SendChunks \/ Deliver
    BY <1>4
<1> QED
    BY <1>1, <1>2, <1>3, <1>4 DEF Next, LoopWork, Select

---------------------------------------------------------------------------
(* What a step does to the history of the events *)

Keeps == UNCHANGED <<LastAccepted, LastDecided, store>>

Accepts ==
    /\ LastAccepted' = LastAccepted + 1
    /\ UNCHANGED <<LastDecided, store, pc, ctr>>
    /\ track.pc = "send" /\ track'.pc = "count"

Dispatches ==
    /\ \E f \in Outcomes, err \in BOOLEAN : Decides(f, err)
    /\ LastDecided' = LastDecided + PieceSize
    /\ UNCHANGED LastAccepted

ReplaysRecord ==
    /\ \E n \in 1 .. Len(wal), stop \in BOOLEAN : Replays(n, 0, stop) \/ Replays(n, n, stop)
    /\ UNCHANGED <<LastAccepted, LastDecided>>

\* Every step accepts the next event, decides the oldest piece, replays the
\* oldest record, or changes nothing about the events.
LEMMA ViewSteps ==
    ASSUME IInv, MemoryOK, [Next]_vars
    PROVE  MemoryOK' /\ (Keeps \/ Accepts \/ Dispatches \/ ReplaysRecord)
<1>1. CASE Reject \/ Track
    <2>1. /\ MemoryOK' /\ LastDecided' = LastDecided /\ UNCHANGED <<store, pc>>
          /\ \/ LastAccepted' = LastAccepted
             \/ /\ LastAccepted' = LastAccepted + 1
                /\ track.pc = "send" /\ track'.pc = "count" /\ ctr' = ctr
        BY <1>1, TrackMemory
    <2> QED
        BY <2>1 DEF Keeps, Accepts
<1>2. CASE Select
    BY <1>2, SelectMemory DEF Keeps
<1>3. CASE Recover
    <2>1. MemoryOK' /\ LastDecided' = LastDecided /\ LastAccepted' = LastAccepted
        BY <1>3, RecoverMemory
    <2>2. CASE RecoverEnds \/ RecoverBlocked \/ Counting
        BY <2>1, <2>2 DEF RecoverEnds, RecoverBlocked, Counting, CountFailed,
           CountRecoveryFailed, CountDurable, CountDelivered, CountOwned, CountStep, Keeps
    <2> QED
        BY <1>3, <2>1, <2>2, RecoverCases DEF ReplaysRecord
<1>4. CASE SendChunks
    BY <1>4, SendChunksMemory DEF Keeps
<1>5. CASE Deliver
    BY <1>5, DeliverMemory DEF Keeps, Dispatches
<1>6. CASE Aside
    <2>1. MemoryOK' /\ LastDecided' = LastDecided /\ LastAccepted' = LastAccepted
        BY <1>6, AsideMemory
    <2> QED
        BY <1>6, <2>1 DEF Aside, Keeps
<1> QED
    BY <1>1, <1>2, <1>3, <1>4, <1>5, <1>6, StepCases

\* The records that Put appends to the log hold the piece, in order.
LEMMA PutEntries ==
    ASSUME TypeOK, JobOK, MemoryOK, pc \in {"deliver", "persist"}
    PROVE  /\ Put \in Seq(LogEntries) /\ Len(Put) = Len(wal) + PieceSize
           /\ \A i \in 1 .. Len(wal) : Put[i] = wal[i]
           /\ \A i \in 1 .. PieceSize : Put[Len(wal) + i].event = LastDecided + i
<1>1. pc \in Sends
    BY DEF Sends
<1>2. Put \in Seq(LogEntries) /\ Len(Put) = Len(wal) + PieceSize
    BY <1>1, PieceType
<1>3. Run(Piece, LastDecided) /\ Piece \in Seq(Int) /\ Len(Piece) = PieceSize
    BY PieceEvents
<1>4. PieceSize \in Nat \ {0} /\ wal \in Seq(LogEntries) /\ Len(wal) \in Nat
    BY <1>1, CurrentPiece DEF TypeOK
<1>5. /\ AsRecord(Piece) \in Seq(LogEntries) /\ Len(AsRecord(Piece)) = PieceSize
      /\ \A i \in 1 .. PieceSize : AsRecord(Piece)[i].event = LastDecided + i
    <2>1. \A i \in 1 .. PieceSize : Piece[i] \in Int /\ Piece[i] = LastDecided + i
        BY <1>3 DEF Run
    <2>2. \A i \in 1 .. PieceSize : Entry(Piece[i], Piece[1]) \in LogEntries
        BY <1>4, <2>1 DEF Entry, LogEntries
    <2>3. AsRecord(Piece) = [i \in 1 .. PieceSize |-> Entry(Piece[i], Piece[1])]
        BY <1>3 DEF AsRecord
    <2>4. AsRecord(Piece) \in Seq(LogEntries) /\ Len(AsRecord(Piece)) = PieceSize
        BY <1>4, <2>2, <2>3
    <2>5. ASSUME NEW i \in 1 .. PieceSize PROVE AsRecord(Piece)[i].event = LastDecided + i
        BY <2>1, <2>3 DEF Entry
    <2> QED
        BY <2>4, <2>5
<1>6. /\ \A i \in 1 .. Len(wal) : Put[i] = wal[i]
      /\ \A i \in 1 .. PieceSize : Put[Len(wal) + i] = AsRecord(Piece)[i]
    BY <1>4, <1>5 DEF Put
<1>7. ASSUME NEW i \in 1 .. PieceSize PROVE Put[Len(wal) + i].event = LastDecided + i
    BY <1>5, <1>6
<1> QED
    BY <1>2, <1>6, <1>7

---------------------------------------------------------------------------
(* Every decided event is in one place: PartitionOK *)

\* Nothing is decided below the events of earlier processes.
LEMMA DecidedNat ==
    ASSUME TypeOK, JobOK, MemoryOK
    PROVE  /\ LastDecided \in Nat /\ LastAccepted \in Nat /\ LastDecided <= LastAccepted
           /\ LastAccepted = LastDecided + (Len(chunk) - Decided) + Len(pending) + Len(events)
<1>1. /\ Len(events) \in Nat /\ Len(pending) \in Nat /\ Len(chunk) \in Nat
      /\ LastAccepted \in Int /\ Base \in Int /\ Decided \in 0 .. Len(chunk)
    BY MemoryTypes
<1>2. /\ Base >= 0 /\ LastDecided = Base + Decided
      /\ Base = LastAccepted - Len(events) - Len(pending) - Len(chunk)
    BY DEF MemoryOK, LastDecided, Base
<1> QED
    BY <1>1, <1>2

\* PartitionOK depends on the border and on the store alone.
LEMMA PartitionKept ==
    ASSUME PartitionOK, LastDecided' = LastDecided, UNCHANGED store
    PROVE  PartitionOK'
BY DEF PartitionOK, WalEvents, store

\* A decision (batcher.go:507-541) moves the next events from memory to one of
\* the three places where decided events are.
LEMMA DispatchPartition ==
    ASSUME TypeOK, JobOK, MemoryOK, PartitionOK, Dispatches
    PROVE  PartitionOK'
<1> DEFINE P == EventsOf(Piece)
<1>1. PICK f \in Outcomes, err \in BOOLEAN : Decides(f, err)
    BY DEF Dispatches
<1>2. /\ pc \in {"deliver", "persist"}
      /\ wal' = IF f = "retained" THEN Put ELSE wal
      /\ confirmed' = IF f = "delivered" THEN confirmed \union P ELSE confirmed
      /\ lost' = IF f = "lost" THEN lost \union P ELSE lost
    BY <1>1 DEF Decides, Resolve
<1>3. P = (LastDecided + 1) .. (LastDecided + PieceSize)
    BY <1>2, PieceEvents
<1>4. PieceSize \in Nat \ {0} /\ LastDecided \in Nat /\ Recovered \in Nat
    <2>1. pc \in Sends
        BY <1>2 DEF Sends
    <2> QED
        BY <2>1, CurrentPiece, DecidedNat, ConfigAssumption
<1>5. /\ confirmed \union lost \union WalEvents = (1 - Recovered) .. LastDecided
      /\ confirmed \cap lost = {} /\ WalEvents \cap (confirmed \union lost) = {}
      /\ \A i, j \in 1 .. Len(wal) : i < j => wal[i].event < wal[j].event
    BY DEF PartitionOK
<1>6. P \cap ((1 - Recovered) .. LastDecided) = {}
    BY <1>3, <1>4
<1>7. ((1 - Recovered) .. LastDecided) \union P = (1 - Recovered) .. LastDecided'
    <2>1. LastDecided' = LastDecided + PieceSize
        BY DEF Dispatches
    <2> QED
        BY <1>3, <1>4, <2>1
<1>8. WalEvents' = IF f = "retained" THEN WalEvents \union P ELSE WalEvents
    <2>1. CASE f = "retained"
        <3>1. /\ wal' = Put /\ Len(Put) = Len(wal) + PieceSize /\ Len(wal) \in Nat
              /\ \A i \in 1 .. Len(wal) : Put[i] = wal[i]
              /\ \A i \in 1 .. PieceSize : Put[Len(wal) + i].event = LastDecided + i
            <4>1. wal \in Seq(LogEntries)
                BY DEF TypeOK
            <4> QED
                BY <1>2, <2>1, <4>1, PutEntries
        <3>2. WalEvents' = {Put[i].event : i \in 1 .. Len(wal) + PieceSize}
            BY <3>1 DEF WalEvents
        <3>3. ASSUME NEW i \in 1 .. Len(wal) + PieceSize PROVE Put[i].event \in WalEvents \union P
            <4>1. CASE i <= Len(wal)
                <5>1. i \in 1 .. Len(wal) /\ Put[i] = wal[i]
                    BY <3>1, <4>1
                <5> QED
                    BY <5>1 DEF WalEvents
            <4>2. CASE ~(i <= Len(wal))
                <5>1. i - Len(wal) \in 1 .. PieceSize /\ Len(wal) + (i - Len(wal)) = i
                    BY <1>4, <3>1, <4>2
                <5>2. Put[i].event = LastDecided + (i - Len(wal))
                    BY <3>1, <5>1
                <5> HIDE DEF P
                <5>3. Put[i].event \in P
                    BY <1>3, <1>4, <5>1, <5>2
                <5> QED
                    BY <5>3
            <4> QED
                BY <4>1, <4>2
        <3>4. ASSUME NEW e \in WalEvents PROVE e \in WalEvents'
            <4>1. PICK i \in 1 .. Len(wal) : e = wal[i].event
                BY DEF WalEvents
            <4>2. i \in 1 .. Len(wal) + PieceSize /\ e = Put[i].event
                BY <1>4, <3>1, <4>1
            <4> QED
                BY <3>2, <4>2
        <3>5. ASSUME NEW e \in P PROVE e \in WalEvents'
            <4>1. e \in (LastDecided + 1) .. (LastDecided + PieceSize)
                BY <1>3
            <4>2. e - LastDecided \in 1 .. PieceSize /\ LastDecided + (e - LastDecided) = e
                BY <1>4, <4>1
            <4>3. Put[Len(wal) + (e - LastDecided)].event = e
                BY <3>1, <4>2
            <4>4. Len(wal) + (e - LastDecided) \in 1 .. Len(wal) + PieceSize
                BY <1>4, <3>1, <4>2
            <4> QED
                BY <3>2, <4>3, <4>4
        <3> HIDE DEF P
        <3>6. WalEvents' = WalEvents \union P
            BY <3>2, <3>3, <3>4, <3>5
        <3> QED
            BY <2>1, <3>6
    <2>2. CASE f # "retained"
        BY <1>2, <2>2 DEF WalEvents
    <2> QED
        BY <2>1, <2>2
<1> HIDE DEF P
<1>9. /\ confirmed' \union lost' \union WalEvents' = (1 - Recovered) .. LastDecided'
      /\ confirmed' \cap lost' = {} /\ WalEvents' \cap (confirmed' \union lost') = {}
    <2> DEFINE D == (1 - Recovered) .. LastDecided
    <2>1. confirmed \union lost \union WalEvents = D /\ P \cap D = {}
        BY <1>5, <1>6
    <2> HIDE DEF D
    <2>2. confirmed' \union lost' \union WalEvents' = D \union P
        BY <1>2, <1>8, <2>1 DEF Outcomes
    <2>3. confirmed' \cap lost' = {} /\ WalEvents' \cap (confirmed' \union lost') = {}
        BY <1>2, <1>5, <1>8, <2>1 DEF Outcomes
    <2> QED
        BY <1>7, <2>2, <2>3 DEF D
<1>10. ASSUME NEW i \in 1 .. Len(wal'), NEW j \in 1 .. Len(wal'), i < j
       PROVE  wal'[i].event < wal'[j].event
    <2>1. CASE f # "retained"
        BY <1>2, <1>5, <1>10, <2>1
    <2>2. CASE f = "retained"
        <3>1. /\ wal' = Put /\ Len(Put) = Len(wal) + PieceSize /\ Len(wal) \in Nat
              /\ \A k \in 1 .. Len(wal) : Put[k] = wal[k]
              /\ \A k \in 1 .. PieceSize : Put[Len(wal) + k].event = LastDecided + k
            <4>1. wal \in Seq(LogEntries)
                BY DEF TypeOK
            <4> QED
                BY <1>2, <2>2, <4>1, PutEntries
        <3>2. i \in 1 .. Len(wal) + PieceSize /\ j \in 1 .. Len(wal) + PieceSize
            BY <3>1
        <3>3. CASE j <= Len(wal)
            <4>1. i \in 1 .. Len(wal) /\ j \in 1 .. Len(wal)
                BY <1>10, <3>1, <3>2, <3>3
            <4>2. wal[i].event < wal[j].event
                BY <1>5, <1>10, <4>1
            <4> QED
                BY <3>1, <4>1, <4>2
        <3>4. CASE ~(j <= Len(wal))
            <4>1. j - Len(wal) \in 1 .. PieceSize /\ Len(wal) + (j - Len(wal)) = j
                BY <1>4, <3>1, <3>2, <3>4
            <4>2. Put[j].event = LastDecided + (j - Len(wal))
                BY <3>1, <4>1
            <4>3. CASE i <= Len(wal)
                <5>1. i \in 1 .. Len(wal)
                    BY <3>1, <3>2, <4>3
                <5>2. wal[i].event \in (1 - Recovered) .. LastDecided
                    BY <1>5, <5>1 DEF WalEvents
                <5>3. Put[i].event = wal[i].event
                    BY <3>1, <5>1
                <5> QED
                    BY <1>4, <3>1, <4>1, <4>2, <5>2, <5>3
            <4>4. CASE ~(i <= Len(wal))
                <5>1. i - Len(wal) \in 1 .. PieceSize /\ Len(wal) + (i - Len(wal)) = i
                    BY <1>4, <3>1, <3>2, <4>4
                <5>2. Put[i].event = LastDecided + (i - Len(wal))
                    BY <3>1, <5>1
                <5> QED
                    BY <1>4, <1>10, <3>1, <3>2, <4>2, <5>2
            <4> QED
                BY <4>3, <4>4
        <3> QED
            BY <3>3, <3>4
    <2> QED
        BY <2>1, <2>2
<1> QED
    BY <1>9, <1>10 DEF PartitionOK

\* What a replay takes from the log: the events of its oldest record, which are
\* older than all that remain.
LEMMA ReplayEvents ==
    ASSUME TypeOK, PartitionOK, NEW n \in 1 .. Len(wal), wal' = Suffix(wal, n)
    PROVE  /\ Len(wal) \in Nat /\ Len(wal') = Len(wal) - n
           /\ \A i \in 1 .. Len(wal) - n : wal'[i] = wal[n + i]
           /\ \A i \in 1 .. Len(wal) : wal[i].event \in Int
           /\ WalEvents = HeadEvents(n) \union WalEvents'
           /\ HeadEvents(n) \cap WalEvents' = {}
           /\ HeadEvents(n) \in SUBSET Int
<1>1. wal \in Seq(LogEntries) /\ Len(wal) \in Nat
    BY DEF TypeOK
<1>2. /\ Len(wal') = Len(wal) - n
      /\ \A i \in 1 .. Len(wal) - n : wal'[i] = wal[n + i]
    BY <1>1 DEF Suffix
<1>3. \A i \in 1 .. Len(wal) : wal[i].event \in Int
    <2>1. \A i \in 1 .. Len(wal) : wal[i] \in LogEntries
        BY <1>1
    <2> QED
        BY <2>1 DEF LogEntries
<1>4. \A i, j \in 1 .. Len(wal) : i < j => wal[i].event < wal[j].event
    BY DEF PartitionOK
<1>5. ASSUME NEW e \in WalEvents PROVE e \in HeadEvents(n) \union WalEvents'
    <2>1. PICK i \in 1 .. Len(wal) : e = wal[i].event
        BY DEF WalEvents
    <2>2. CASE i <= n
        <3>1. i \in 1 .. n
            BY <1>1, <2>2
        <3> QED
            BY <2>1, <3>1 DEF HeadEvents
    <2>3. CASE ~(i <= n)
        <3>1. i - n \in 1 .. Len(wal) - n /\ n + (i - n) = i
            BY <1>1, <2>3
        <3>2. wal'[i - n] = wal[i] /\ i - n \in 1 .. Len(wal')
            BY <1>2, <3>1
        <3> QED
            BY <2>1, <3>2 DEF WalEvents
    <2> QED
        BY <2>2, <2>3
<1>6. ASSUME NEW e \in HeadEvents(n)
      PROVE  e \in WalEvents /\ e \notin WalEvents' /\ e \in Int
    <2>1. PICK i \in 1 .. n : e = wal[i].event
        BY DEF HeadEvents
    <2>2. i \in 1 .. Len(wal)
        BY <1>1
    <2>3. ASSUME NEW j \in 1 .. Len(wal') PROVE wal'[j].event # e
        <3>1. j \in 1 .. Len(wal) - n
            BY <1>2
        <3>2. n + j \in 1 .. Len(wal) /\ i < n + j
            BY <1>1, <2>2, <3>1
        <3>3. wal'[j] = wal[n + j]
            BY <1>2, <3>1
        <3>4. wal[i].event < wal[n + j].event
            BY <1>4, <2>2, <3>2
        <3>5. wal[i].event \in Int /\ wal[n + j].event \in Int
            BY <1>3, <2>2, <3>2
        <3> QED
            BY <2>1, <3>3, <3>4, <3>5
    <2>4. e \notin WalEvents'
        BY <2>3 DEF WalEvents
    <2>5. e \in WalEvents
        BY <2>1, <2>2 DEF WalEvents
    <2> QED
        BY <1>3, <2>1, <2>2, <2>4, <2>5
<1>7. ASSUME NEW e \in WalEvents' PROVE e \in WalEvents
    <2>1. PICK j \in 1 .. Len(wal') : e = wal'[j].event
        BY <1>7 DEF WalEvents
    <2>2. j \in 1 .. Len(wal) - n
        BY <1>2, <2>1
    <2>3. n + j \in 1 .. Len(wal) /\ wal'[j] = wal[n + j]
        BY <1>1, <1>2, <2>2
    <2> QED
        BY <2>1, <2>3 DEF WalEvents
<1> QED
    BY <1>1, <1>2, <1>3, <1>5, <1>6, <1>7

\* A replay (batcher.go:406-454) moves the oldest record of the log to the
\* confirmed or to the lost events.
LEMMA ReplayPartition ==
    ASSUME TypeOK, PartitionOK, ReplaysRecord
    PROVE  PartitionOK'
<1>1. PICK n \in 1 .. Len(wal), stop \in BOOLEAN : Replays(n, 0, stop) \/ Replays(n, n, stop)
    BY DEF ReplaysRecord
<1>2. /\ wal' = Suffix(wal, n) /\ LastDecided' = LastDecided
      /\ \/ confirmed' = confirmed \union HeadEvents(n) /\ lost' = lost
         \/ lost' = lost \union HeadEvents(n) /\ confirmed' = confirmed
    BY <1>1 DEF Replays, RecordResolved, ReplaysRecord
<1>3. /\ Len(wal) \in Nat /\ Len(wal') = Len(wal) - n
      /\ \A i \in 1 .. Len(wal) - n : wal'[i] = wal[n + i]
      /\ WalEvents = HeadEvents(n) \union WalEvents'
      /\ HeadEvents(n) \cap WalEvents' = {}
    BY <1>2, ReplayEvents
<1>4. /\ confirmed' \union lost' \union WalEvents' = (1 - Recovered) .. LastDecided'
      /\ confirmed' \cap lost' = {} /\ WalEvents' \cap (confirmed' \union lost') = {}
    <2>1. /\ confirmed \union lost \union WalEvents = (1 - Recovered) .. LastDecided
          /\ confirmed \cap lost = {} /\ WalEvents \cap (confirmed \union lost) = {}
        BY DEF PartitionOK
    <2> QED
        BY <1>2, <1>3, <2>1
<1>5. ASSUME NEW i \in 1 .. Len(wal'), NEW j \in 1 .. Len(wal'), i < j
      PROVE  wal'[i].event < wal'[j].event
    <2>1. i \in 1 .. Len(wal) - n /\ j \in 1 .. Len(wal) - n
        BY <1>3
    <2>2. n + i \in 1 .. Len(wal) /\ n + j \in 1 .. Len(wal) /\ n + i < n + j
        BY <1>3, <1>5, <2>1
    <2>3. wal[n + i].event < wal[n + j].event
        BY <2>2 DEF PartitionOK
    <2> QED
        BY <1>3, <2>1, <2>3
<1> QED
    BY <1>4, <1>5 DEF PartitionOK

\* PartitionOK is kept by every step.
LEMMA PartitionNext ==
    ASSUME IInv, MemoryOK, PartitionOK, [Next]_vars
    PROVE  PartitionOK'
<1>1. TypeOK /\ JobOK
    BY DEF IInv, QueueInv
<1>2. CASE Keeps \/ Accepts
    BY <1>2, PartitionKept DEF Keeps, Accepts
<1>3. CASE Dispatches
    BY <1>1, <1>3, DispatchPartition
<1>4. CASE ReplaysRecord
    BY <1>1, <1>4, ReplayPartition
<1> QED
    BY <1>2, <1>3, <1>4, ViewSteps

---------------------------------------------------------------------------
(* What an earlier process left comes first in the log: OwnedOK *)

Books == {"delivered", "failed", "recoveryFailed", "recoveryOwned", "durableCurrent"}

\* The enqueueing call (batcher.go:135-157) writes none of the loop's counters.
LEMMA TrackBooks ==
    ASSUME TypeOK, Reject \/ Track
    PROVE  \A c \in Books : ctr'[c] = ctr[c]
<1>1. ctr \in [Counters -> Int]
    BY DEF TypeOK
<1>2. \A d \in {"enqueued", "dropped", "rejected", "unsent"} : \A c \in Books, n \in Int :
         /\ Bump(d, n)[c] = ctr[c]
         /\ Plus(Bump("unsent", -1), d, n)[c] = ctr[c]
    BY <1>1 DEF Bump, Plus, Counters, Books
<1> QED
    BY <1>2 DEF Reject, Track, TrackBegin, TrackLoadOwned, TrackAdmit, TrackReserve,
       TrackSend, TrackCount, Reserved

\* The counters that a delivery (batcher.go:507-541) changes.
LEMMA DeliverBooks ==
    ASSUME TypeOK, JobOK, Deliver
    PROVE  /\ ctr'.recoveryOwned = ctr.recoveryOwned /\ ctr'.recoveryFailed = ctr.recoveryFailed
           /\ ctr'.delivered = IF Account /\ fate = "delivered" THEN ctr.delivered + PieceSize
                               ELSE ctr.delivered
           /\ ctr'.failed = IF Account /\ fate \notin {"delivered", "retained"}
                            THEN ctr.failed + PieceSize ELSE ctr.failed
           /\ {pc, pc'} \cap Counts = {}
<1>1. ctr \in [Counters -> Int]
    BY DEF TypeOK
<1>2. ASSUME Account
      PROVE  /\ ctr'.recoveryOwned = ctr.recoveryOwned
             /\ ctr'.recoveryFailed = ctr.recoveryFailed
             /\ ctr'.delivered = IF fate = "delivered" THEN ctr.delivered + PieceSize
                                 ELSE ctr.delivered
             /\ ctr'.failed = IF fate \notin {"delivered", "retained"}
                              THEN ctr.failed + PieceSize ELSE ctr.failed
             /\ {pc, pc'} \cap Counts = {}
    <2>1. ctr' = Bump(OutcomeCounter, PieceSize) /\ pc = "account"
          /\ pc' \in {"deliver", "select", "chunk"}
        BY <1>2 DEF Account
    <2>2. {pc, pc'} \cap Counts = {}
        BY <2>1 DEF Counts
    <2>3. OutcomeCounter = IF fate = "delivered" THEN "delivered"
                           ELSE IF fate = "retained" THEN "durableCurrent" ELSE "failed"
        BY DEF OutcomeCounter
    <2> QED
        BY <1>1, <2>1, <2>2, <2>3 DEF Bump, Plus, Counters
<1>3. CASE Account
    BY <1>2, <1>3
<1>4. CASE ~Account
    <2>1. /\ ctr'.recoveryOwned = ctr.recoveryOwned
          /\ ctr'.recoveryFailed = ctr.recoveryFailed
          /\ ctr'.delivered = ctr.delivered /\ ctr'.failed = ctr.failed
          /\ {pc, pc'} \cap Counts = {}
        <3>1. ASSUME NEW f \in Outcomes, NEW err \in BOOLEAN, Decides(f, err)
              PROVE  <2>1!:
            BY <3>1 DEF Decides, Resolve, Counts
        <3>2. CASE SendSplit
            BY <3>2 DEF SendSplit, Sending, Counts
        <3>3. CASE Settle
            BY <1>1, <3>3 DEF Settle, Release, Bump, Plus, Counters, Counts
        <3> QED
            BY <1>4, <3>1, <3>2, <3>3, DeliverCases
    <2> QED
        BY <1>4, <2>1
<1> QED
    BY <1>3, <1>4

\* What Owned is made of are integers.
LEMMA OwnedTypes ==
    ASSUME TypeOK
    PROVE  /\ ctr.recoveryOwned \in Int /\ ctr.durableCurrent \in Int
           /\ ctr.delivered \in Int /\ ctr.failed \in Int /\ ctr.recoveryFailed \in Int
           /\ progress.n \in Int /\ progress.lost \in Int
           /\ Owned \in Int /\ Len(wal) \in Nat
<1>1. /\ ctr \in [Counters -> Int] /\ wal \in Seq(LogEntries)
      /\ progress \in [n : Int, lost : Int, stop : BOOLEAN]
    BY DEF TypeOK
<1>2. /\ ctr.recoveryOwned \in Int /\ ctr.durableCurrent \in Int
      /\ ctr.delivered \in Int /\ ctr.failed \in Int /\ ctr.recoveryFailed \in Int
      /\ progress.n \in Int /\ progress.lost \in Int /\ Len(wal) \in Nat
    BY <1>1, CounterTypes
<1> QED
    BY <1>2 DEF Owned

\* A replay (batcher.go:406-454) takes its record from the entries of the earlier
\* process when there are any: the log then holds nothing else.
LEMMA ReplayOwned ==
    ASSUME IInv, OwnedOK, NEW n \in 1 .. Len(wal), NEW losses, NEW stop,
           Replays(n, losses, stop)
    PROVE  /\ Owned = ctr.recoveryOwned /\ Owned' = IF Owned > 0 THEN Owned - n ELSE 0
           /\ Owned \in {0, Len(wal)} /\ ctr' = ctr /\ pc' \in Counts
           /\ progress'.n = n /\ progress'.lost = losses
<1>1. TypeOK /\ JobOK /\ LogCounted
    BY DEF IInv, QueueInv
<1>2. ctr.recoveryOwned \in Int /\ ctr.durableCurrent \in Int /\ Len(wal) \in Nat
    BY <1>1, OwnedTypes
<1>3. /\ pc = "recover" /\ ctr' = ctr /\ pc' \in Counts
      /\ progress'.n = n /\ progress'.lost = losses
    BY DEF Replays, RecordResolved, Counts
<1>4. pass.purpose # "persist" /\ InTransit = 0
    BY <1>1, <1>3 DEF JobOK, Sends, InTransit, Counts
<1>5. /\ ctr.recoveryOwned >= 0 /\ ctr.durableCurrent >= 0
      /\ ctr.recoveryOwned + ctr.durableCurrent = Len(wal)
      /\ ctr.recoveryOwned = 0 \/ ctr.durableCurrent = 0
    <2>1. /\ ctr.recoveryOwned >= 0 /\ ctr.durableCurrent >= 0
          /\ ctr.recoveryOwned + ctr.durableCurrent = Len(wal) + InTransit
          /\ ctr.recoveryOwned = 0 \/ ctr.durableCurrent = 0
        BY <1>1, <1>3, <1>4 DEF LogCounted
    <2> QED
        BY <1>2, <1>4, <2>1
<1>6. Owned = ctr.recoveryOwned
    BY <1>2, <1>3 DEF Owned, Counts
<1>7. Owned' = IF Owned > 0 THEN Owned - n ELSE 0
    <2>1. Owned' = ctr.recoveryOwned - (IF ctr.recoveryOwned > 0 THEN n ELSE 0)
        BY <1>3 DEF Owned
    <2>2. CASE ctr.recoveryOwned > 0
        BY <1>6, <2>1, <2>2
    <2>3. CASE ~(ctr.recoveryOwned > 0)
        BY <1>2, <1>5, <1>6, <2>1, <2>3
    <2> QED
        BY <2>2, <2>3
<1>8. Owned \in {0, Len(wal)}
    BY <1>2, <1>5, <1>6
<1> QED
    BY <1>3, <1>6, <1>7, <1>8

\* Accounting for a record, and the refresh of recoveryOwned after it
\* (batcher.go:429-454), leave what the earlier process owns alone.
LEMMA CountingOwned ==
    ASSUME IInv, OwnedOK, Counting \/ RecoverEnds \/ RecoverBlocked
    PROVE  Owned' = Owned /\ ctr'.recoveryOwned <= ctr.recoveryOwned
<1>1. TypeOK /\ JobOK /\ LogCounted
    BY DEF IInv, QueueInv
<1>2. /\ ctr.recoveryOwned \in Int /\ ctr.durableCurrent \in Int /\ Len(wal) \in Nat
      /\ progress.n \in Int /\ progress.lost \in Int /\ ctr.recoveryOwned >= 0
      /\ ctr \in [Counters -> Int]
    BY <1>1, OwnedTypes DEF LogCounted, TypeOK
<1>3. CASE CountOwned
    <2>1. /\ pc = "countOwned" /\ pc' \in {"recover", "recovered"}
          /\ ctr' = RecoveryOwnedUpdated /\ pass.purpose # "persist"
        BY <1>1, <1>3 DEF CountOwned, RecoverReturns, JobOK, Sends
    <2>2. ctr'.recoveryOwned = Least(ctr.recoveryOwned, Len(wal))
        BY <1>2, <2>1 DEF RecoveryOwnedUpdated, DurablePending, Counters
    <2>3. Owned' = ctr'.recoveryOwned
        BY <1>2, <2>1, <2>2 DEF Owned, Counts, Least
    <2>4. CASE ctr.recoveryOwned > 0
        <3>1. ctr.durableCurrent = 0 /\ InTransit = progress.n /\ progress.n >= 1
            BY <1>1, <1>2, <2>1, <2>4 DEF LogCounted, InTransit, Counts
        <3>2. ctr.recoveryOwned = Len(wal) + progress.n
            BY <1>1, <1>2, <3>1 DEF LogCounted
        <3>3. Owned = ctr.recoveryOwned - progress.n
            BY <2>1, <2>4 DEF Owned, Counts
        <3> QED
            BY <1>2, <2>2, <2>3, <3>1, <3>2, <3>3 DEF Least
    <2>5. CASE ~(ctr.recoveryOwned > 0)
        <3>1. ctr.recoveryOwned = 0
            BY <1>2, <2>5
        <3>2. Owned = 0
            BY <3>1 DEF Owned
        <3> QED
            BY <1>2, <2>2, <2>3, <3>1, <3>2 DEF Least
    <2> QED
        BY <2>4, <2>5
<1>4. CASE CountFailed \/ CountRecoveryFailed \/ CountDurable \/ CountDelivered
    <2>1. {pc, pc'} \subseteq Counts /\ progress' = progress
        BY <1>4 DEF CountFailed, CountRecoveryFailed, CountDurable, CountDelivered,
           CountStep, Counts
    <2>2. ctr'.recoveryOwned = ctr.recoveryOwned
        <3>1. \A c \in {"failed", "recoveryFailed", "durableCurrent", "delivered"}, k \in Int :
                 Bump(c, k).recoveryOwned = ctr.recoveryOwned
            BY <1>2 DEF Bump, Plus, Counters
        <3>2. -progress.n \in Int
            BY <1>2
        <3> QED
            BY <1>2, <1>4, <3>1, <3>2 DEF CountFailed, CountRecoveryFailed, CountDurable,
               CountDelivered, CountStep
    <2> QED
        BY <1>2, <2>1, <2>2 DEF Owned
<1>5. CASE RecoverEnds \/ RecoverBlocked
    <2>1. pc = "recover" /\ pc' = "recovered" /\ ctr' = RecoveryOwnedUpdated
        BY <1>5 DEF RecoverEnds, RecoverBlocked, RecoverReturns
    <2>2. ctr'.recoveryOwned = Least(ctr.recoveryOwned, Len(wal))
        BY <1>2, <2>1 DEF RecoveryOwnedUpdated, DurablePending, Counters
    <2>3. Owned = ctr.recoveryOwned /\ Owned' = ctr'.recoveryOwned
        BY <1>2, <2>1, <2>2 DEF Owned, Counts, Least
    <2>4. ctr.recoveryOwned <= Len(wal)
        BY <1>2, <2>3 DEF OwnedOK
    <2> QED
        BY <1>2, <2>2, <2>3, <2>4 DEF Least
<1> QED
    BY <1>3, <1>4, <1>5 DEF Counting

\* No step but a replay changes what the earlier process owns.
LEMMA OwnedSteps ==
    ASSUME IInv, OwnedOK, [Next]_vars
    PROVE  \/ Owned' = Owned /\ ctr'.recoveryOwned <= ctr.recoveryOwned
           \/ \E n \in 1 .. Len(wal), stop \in BOOLEAN :
                 Replays(n, 0, stop) \/ Replays(n, n, stop)
<1>1. TypeOK /\ JobOK /\ ctr.recoveryOwned \in Int
    BY OwnedTypes DEF IInv, QueueInv
<1>2. ASSUME ctr'.recoveryOwned = ctr.recoveryOwned, progress' = progress,
             pc' = pc \/ {pc, pc'} \cap Counts = {}
      PROVE  Owned' = Owned /\ ctr'.recoveryOwned <= ctr.recoveryOwned
    BY <1>1, <1>2 DEF Owned
<1>3. CASE Reject \/ Track
    <2>1. ctr'.recoveryOwned = ctr.recoveryOwned
        BY <1>1, <1>3, TrackBooks DEF Books
    <2>2. TrackUnchanged
        BY <1>3 DEF Reject, Track, TrackBegin, TrackLoadOwned, TrackAdmit, TrackReserve,
           TrackSend, TrackCount
    <2>3. progress' = progress /\ pc' = pc
        BY <2>2 DEF TrackUnchanged, loop
    <2> QED
        BY <1>2, <2>1, <2>3
<1>4. CASE Select
    <2>1. /\ ctr' = ctr /\ progress' = progress
          /\ pc = "select" /\ pc' \in {"select", "recover"}
        BY <1>4 DEF Select, LoopStop, LoopEvent, LoopTick, LoopFlush, StartPass
    <2>2. {pc, pc'} \cap Counts = {}
        BY <2>1 DEF Counts
    <2> QED
        BY <1>2, <2>1, <2>2
<1>5. CASE Recover
    BY <1>5, RecoverCases, CountingOwned
<1>6. CASE SendChunks
    <2>1. /\ ctr' = ctr /\ progress' = progress
          /\ {pc, pc'} \subseteq {"recovered", "chunk", "select", "persist", "deliver", "exit"}
        BY <1>6 DEF SendChunks, PassBlocked, PersistPending, StartChunks, NextChunk,
           NoMoreChunks, EndPass
    <2>2. {pc, pc'} \cap Counts = {}
        BY <2>1 DEF Counts
    <2> QED
        BY <1>2, <2>1, <2>2
<1>7. CASE Deliver
    <2>1. ctr'.recoveryOwned = ctr.recoveryOwned /\ {pc, pc'} \cap Counts = {}
        BY <1>1, <1>7, DeliverBooks
    <2>2. DeliverUnchanged
        BY <1>7 DEF Deliver, SplitLimit, SendDelivered, SendTerminal, SendSplit, SendRetained,
           SendFailed, SendUnstored, Persisted, NotPersisted, Settle, Account, Resolve
    <2> QED
        BY <1>2, <2>1, <2>2 DEF DeliverUnchanged
<1>8. CASE Aside
    <2>1. ctr' = ctr /\ progress' = progress /\ (pc' = pc \/ {pc, pc'} \cap Counts = {})
        BY <1>8 DEF Aside, Counts
    <2> QED
        BY <1>2, <2>1
<1> QED
    BY <1>3, <1>4, <1>5, <1>6, <1>7, <1>8, StepCases

\* OwnedOK is kept by every step: new records go behind the old ones, and a replay
\* takes from the front.
LEMMA OwnedNext ==
    ASSUME IInv, MemoryOK, PartitionOK, OwnedOK, [Next]_vars
    PROVE  OwnedOK'
<1>1. TypeOK /\ JobOK /\ TypeOK'
    BY NextInv DEF IInv, QueueInv
<1>2. /\ Owned \in 0 .. Len(wal) /\ ctr.recoveryOwned <= Recovered
      /\ \A i \in 1 .. Len(wal) : wal[i].event <= 0 <=> i <= Owned
    BY DEF OwnedOK
<1>3. /\ Len(wal) \in Nat /\ ctr.recoveryOwned \in Int /\ Recovered \in Int
    BY <1>1, OwnedTypes, ConfigAssumption
<1>4. ctr'.recoveryOwned \in Int
    <2>1. ctr' \in [Counters -> Int]
        BY <1>1 DEF TypeOK
    <2> QED
        BY <2>1 DEF Counters
<1>5. ASSUME NEW n \in 1 .. Len(wal), NEW losses, NEW stop, Replays(n, losses, stop)
      PROVE  OwnedOK'
    <2>1. /\ Owned' = IF Owned > 0 THEN Owned - n ELSE 0
          /\ Owned \in {0, Len(wal)} /\ ctr' = ctr
        BY <1>5, ReplayOwned
    <2>2. wal' = Suffix(wal, n)
        BY <1>5 DEF Replays, RecordResolved
    <2>3. /\ Len(wal') = Len(wal) - n
          /\ \A i \in 1 .. Len(wal) - n : wal'[i] = wal[n + i]
        BY <1>1, <2>2, ReplayEvents
    <2>4. Owned' \in 0 .. Len(wal')
        BY <1>3, <2>1, <2>3
    <2>5. ASSUME NEW i \in 1 .. Len(wal') PROVE wal'[i].event <= 0 <=> i <= Owned'
        <3>1. i \in 1 .. Len(wal) - n /\ n + i \in 1 .. Len(wal)
            BY <1>3, <2>3
        <3>2. wal'[i].event <= 0 <=> n + i <= Owned
            BY <1>2, <2>3, <3>1
        <3>3. n + i <= Owned <=> i <= Owned'
            BY <1>3, <2>1, <3>1
        <3> QED
            BY <3>2, <3>3
    <2> QED
        BY <1>2, <2>1, <2>4, <2>5 DEF OwnedOK
<1>6. CASE Owned' = Owned /\ ctr'.recoveryOwned <= ctr.recoveryOwned
           /\ (Keeps \/ Accepts)
    <2>1. wal' = wal /\ ctr'.recoveryOwned <= Recovered
        BY <1>2, <1>3, <1>4, <1>6 DEF Keeps, Accepts, store
    <2> QED
        BY <1>2, <1>6, <2>1 DEF OwnedOK
<1>7. CASE Owned' = Owned /\ ctr'.recoveryOwned <= ctr.recoveryOwned /\ Dispatches
    <2>1. PICK f \in Outcomes, err \in BOOLEAN : Decides(f, err)
        BY <1>7 DEF Dispatches
    <2>2. /\ pc \in {"deliver", "persist"} /\ pc \in Sends
          /\ wal' = IF f = "retained" THEN Put ELSE wal
        BY <2>1 DEF Decides, Resolve, Sends
    <2>3. ctr'.recoveryOwned <= Recovered
        BY <1>2, <1>3, <1>4, <1>7
    <2>4. CASE f # "retained"
        BY <1>2, <1>7, <2>2, <2>3, <2>4 DEF OwnedOK
    <2>5. CASE f = "retained"
        <3>1. /\ Len(wal') = Len(wal) + PieceSize
              /\ \A i \in 1 .. Len(wal) : wal'[i] = wal[i]
              /\ \A i \in 1 .. PieceSize : wal'[Len(wal) + i].event = LastDecided + i
            BY <1>1, <2>2, <2>5, PutEntries
        <3>2. PieceSize \in Nat /\ LastDecided \in Nat
            BY <1>1, <2>2, CurrentPiece, DecidedNat
        <3>3. Owned' \in 0 .. Len(wal')
            BY <1>2, <1>3, <1>7, <3>1, <3>2
        <3>4. ASSUME NEW i \in 1 .. Len(wal') PROVE wal'[i].event <= 0 <=> i <= Owned'
            <4>1. CASE i <= Len(wal)
                <5>1. i \in 1 .. Len(wal)
                    BY <1>3, <3>1, <4>1
                <5> QED
                    BY <1>2, <1>7, <3>1, <5>1
            <4>2. CASE ~(i <= Len(wal))
                <5>1. i - Len(wal) \in 1 .. PieceSize /\ Len(wal) + (i - Len(wal)) = i
                    BY <1>3, <3>1, <3>2, <4>2
                <5>2. wal'[i].event = LastDecided + (i - Len(wal))
                    BY <3>1, <5>1
                <5>3. ~(wal'[i].event <= 0)
                    BY <3>2, <5>1, <5>2
                <5>4. ~(i <= Owned')
                    BY <1>2, <1>3, <1>7, <4>2
                <5> QED
                    BY <5>3, <5>4
            <4> QED
                BY <4>1, <4>2
        <3> QED
            BY <2>3, <3>3, <3>4 DEF OwnedOK
    <2> QED
        BY <2>4, <2>5
<1>8. CASE Owned' = Owned /\ ctr'.recoveryOwned <= ctr.recoveryOwned
    BY <1>5, <1>6, <1>7, <1>8, ViewSteps DEF ReplaysRecord
<1> QED
    BY <1>5, <1>8, OwnedSteps

---------------------------------------------------------------------------
(* The counters account for every event: BooksOK *)

\* The number of elements of two disjoint finite sets together.
LEMMA DisjointCard ==
    ASSUME NEW S, NEW T, IsFiniteSet(S), IsFiniteSet(T), S \cap T = {}
    PROVE  /\ IsFiniteSet(S \union T)
           /\ Cardinality(S \union T) = Cardinality(S) + Cardinality(T)
           /\ Cardinality(S) \in Nat /\ Cardinality(T) \in Nat
<1>1. /\ IsFiniteSet(S \union T)
      /\ Cardinality(S \union T) = Cardinality(S) + Cardinality(T) - Cardinality(S \cap T)
    BY FS_Union
<1>2. Cardinality(S \cap T) = 0
    BY FS_EmptySet
<1>3. Cardinality(S) \in Nat /\ Cardinality(T) \in Nat
    BY FS_CardinalityType
<1> QED
    BY <1>1, <1>2, <1>3

\* Decided events are finitely many.
LEMMA HistoryFinite ==
    ASSUME TypeOK, JobOK, MemoryOK, PartitionOK
    PROVE  /\ IsFiniteSet(confirmed) /\ IsFiniteSet(lost) /\ IsFiniteSet(WalEvents)
           /\ IsFiniteSet(confirmed \ RestartOwned) /\ IsFiniteSet(lost \cap RestartOwned)
           /\ Cardinality(confirmed \ RestartOwned) \in Nat /\ Cardinality(lost) \in Nat
           /\ Cardinality(lost \cap RestartOwned) \in Nat
<1> DEFINE D == (1 - Recovered) .. LastDecided
<1>1. IsFiniteSet(D)
    <2>1. 1 - Recovered \in Int /\ LastDecided \in Int
        BY DecidedNat, ConfigAssumption
    <2> QED
        BY <2>1, FS_Interval
<1>2. confirmed \in SUBSET D /\ lost \in SUBSET D /\ WalEvents \in SUBSET D
    BY DEF PartitionOK
<1> HIDE DEF D
<1>3. IsFiniteSet(confirmed) /\ IsFiniteSet(lost) /\ IsFiniteSet(WalEvents)
    BY <1>1, <1>2, FS_Subset
<1>4. IsFiniteSet(confirmed \ RestartOwned) /\ IsFiniteSet(lost \cap RestartOwned)
    BY <1>3, FS_Difference, FS_Intersection
<1> QED
    BY <1>3, <1>4, FS_CardinalityType

\* A record of n entries holds n different events.
LEMMA HeadCard ==
    ASSUME TypeOK, PartitionOK, NEW n \in 0 .. Len(wal)
    PROVE  IsFiniteSet(HeadEvents(n)) /\ Cardinality(HeadEvents(n)) = n
<1> DEFINE g == [i \in 1 .. n |-> wal[i].event]
<1>1. wal \in Seq(LogEntries) /\ Len(wal) \in Nat
    BY DEF TypeOK
<1>2. \A i \in 1 .. n : i \in 1 .. Len(wal)
    BY <1>1
<1>3. \A i \in 1 .. Len(wal) : wal[i].event \in Int
    <2>1. \A i \in 1 .. Len(wal) : wal[i] \in LogEntries
        BY <1>1
    <2> QED
        BY <2>1 DEF LogEntries
<1>4. \A i, j \in 1 .. Len(wal) : i < j => wal[i].event < wal[j].event
    BY DEF PartitionOK
<1>5. g \in [1 .. n -> HeadEvents(n)]
    BY DEF HeadEvents
<1>6. ASSUME NEW i \in 1 .. n, NEW j \in 1 .. n, g[i] = g[j] PROVE i = j
    <2>1. i \in Int /\ j \in Int /\ wal[i].event = wal[j].event
        BY <1>6
    <2>2. ~(i < j) /\ ~(j < i)
        BY <1>2, <1>3, <1>4, <2>1
    <2> QED
        BY <2>1, <2>2
<1>7. \A e \in HeadEvents(n) : \E i \in 1 .. n : g[i] = e
    BY DEF HeadEvents
<1> HIDE DEF g
<1>8. g \in Bijection(1 .. n, HeadEvents(n))
    BY <1>5, <1>6, <1>7 DEF Bijection, Injection, Surjection, IsInjective
<1>9. IsFiniteSet(1 .. n) /\ Cardinality(1 .. n) = n
    <2>1. n \in Nat /\ n \in Int /\ 1 \in Int
        BY <1>1
    <2>2. IsFiniteSet(1 .. n) /\ Cardinality(1 .. n) = IF 1 > n THEN 0 ELSE n - 1 + 1
        BY <2>1, FS_Interval
    <2> QED
        BY <2>1, <2>2
<1>10. ExistsBijection(1 .. n, HeadEvents(n))
    BY <1>8 DEF ExistsBijection
<1> QED
    BY <1>9, <1>10, FS_Bijection

Confirmed == Cardinality(confirmed \ RestartOwned)
Losses == Cardinality(lost)
RestartLosses == Cardinality(lost \cap RestartOwned)

\* A set that grows by n new elements.
LEMMA Grows ==
    ASSUME NEW S, NEW T, NEW n \in Nat, IsFiniteSet(S), IsFiniteSet(T), S \cap T = {},
           Cardinality(T) = n
    PROVE  Cardinality(S \union T) = Cardinality(S) + n
BY DisjointCard

\* A decision (batcher.go:507-541) adds its piece to one of the three places.
LEMMA DispatchGains ==
    ASSUME TypeOK, JobOK, MemoryOK, PartitionOK, NEW f \in Outcomes, NEW err \in BOOLEAN,
           Decides(f, err)
    PROVE  /\ Confirmed' = Confirmed + (IF f = "delivered" THEN PieceSize ELSE 0)
           /\ Losses' = Losses + (IF f = "lost" THEN PieceSize ELSE 0)
           /\ RestartLosses' = RestartLosses
           /\ Len(wal') = Len(wal) + (IF f = "retained" THEN PieceSize ELSE 0)
           /\ PieceSize \in Nat \ {0}
<1> DEFINE P == EventsOf(Piece)
<1>1. /\ pc \in {"deliver", "persist"} /\ pc \in Sends
      /\ wal' = IF f = "retained" THEN Put ELSE wal
      /\ confirmed' = IF f = "delivered" THEN confirmed \union P ELSE confirmed
      /\ lost' = IF f = "lost" THEN lost \union P ELSE lost
    BY DEF Decides, Resolve, Sends
<1>2. /\ PieceSize \in Nat \ {0} /\ LastDecided \in Nat /\ Recovered \in Nat
      /\ P = (LastDecided + 1) .. (LastDecided + PieceSize) /\ Len(wal) \in Nat
    <2>1. PieceSize \in Nat \ {0} /\ Len(wal) \in Nat
        BY <1>1, CurrentPiece DEF TypeOK
    <2>2. P = (LastDecided + 1) .. (LastDecided + PieceSize)
        BY <1>1, PieceEvents
    <2> QED
        BY <2>1, <2>2, DecidedNat, ConfigAssumption
<1>3. IsFiniteSet(P) /\ Cardinality(P) = PieceSize
    <2>1. LastDecided + 1 \in Int /\ LastDecided + PieceSize \in Int
        BY <1>2
    <2>2. /\ IsFiniteSet(P)
          /\ Cardinality(P) = IF LastDecided + 1 > LastDecided + PieceSize THEN 0
                              ELSE (LastDecided + PieceSize) - (LastDecided + 1) + 1
        BY <1>2, <2>1, FS_Interval
    <2>3. ~(LastDecided + 1 > LastDecided + PieceSize)
        BY <1>2
    <2>4. (LastDecided + PieceSize) - (LastDecided + 1) + 1 = PieceSize
        BY <1>2
    <2> QED
        BY <2>2, <2>3, <2>4
<1>4. P \cap RestartOwned = {} /\ P \cap ((1 - Recovered) .. LastDecided) = {}
    BY <1>2 DEF RestartOwned
<1>5. P \cap confirmed = {} /\ P \cap lost = {}
    BY <1>4 DEF PartitionOK
<1>6. /\ IsFiniteSet(confirmed \ RestartOwned) /\ IsFiniteSet(lost)
      /\ Confirmed \in Nat /\ Losses \in Nat /\ RestartLosses \in Nat
    BY HistoryFinite DEF Confirmed, Losses, RestartLosses
<1> HIDE DEF P
<1>7. Confirmed' = Confirmed + (IF f = "delivered" THEN PieceSize ELSE 0)
    <2>1. CASE f = "delivered"
        <3>1. (confirmed \union P) \ RestartOwned = (confirmed \ RestartOwned) \union P
              /\ (confirmed \ RestartOwned) \cap P = {}
            BY <1>4, <1>5
        <3>2. Cardinality((confirmed \ RestartOwned) \union P)
                = Cardinality(confirmed \ RestartOwned) + PieceSize
            BY <1>2, <1>3, <1>6, <3>1, Grows
        <3>3. RestartOwned' = RestartOwned
            BY DEF RestartOwned
        <3> QED
            BY <1>1, <2>1, <3>1, <3>2, <3>3 DEF Confirmed
    <2>2. CASE f # "delivered"
        BY <1>1, <1>6, <2>2 DEF Confirmed, RestartOwned
    <2> QED
        BY <2>1, <2>2
<1>8. /\ Losses' = Losses + (IF f = "lost" THEN PieceSize ELSE 0)
      /\ RestartLosses' = RestartLosses
    <2>1. CASE f = "lost"
        <3>1. (lost \union P) \cap RestartOwned = lost \cap RestartOwned /\ lost \cap P = {}
            BY <1>4, <1>5
        <3>2. Cardinality(lost \union P) = Cardinality(lost) + PieceSize
            BY <1>2, <1>3, <1>6, <3>1, Grows
        <3>3. RestartOwned' = RestartOwned
            BY DEF RestartOwned
        <3> QED
            BY <1>1, <2>1, <3>1, <3>2, <3>3 DEF Losses, RestartLosses
    <2>2. CASE f # "lost"
        BY <1>1, <1>6, <2>2 DEF Losses, RestartLosses, RestartOwned
    <2> QED
        BY <2>1, <2>2
<1>9. Len(wal') = Len(wal) + (IF f = "retained" THEN PieceSize ELSE 0)
    BY <1>1, <1>2, PutEntries
<1> QED
    BY <1>2, <1>7, <1>8, <1>9

\* A replay (batcher.go:406-454) adds the events of its record, which are all of
\* the earlier process or all of this one, to the confirmed or the lost events.
LEMMA ReplayGains ==
    ASSUME IInv, MemoryOK, PartitionOK, OwnedOK, NEW n \in 1 .. Len(wal), NEW losses, NEW stop,
           Replays(n, losses, stop)
    PROVE  /\ losses \in {0, n} /\ n \in Nat \ {0}
           /\ Confirmed' = Confirmed + (IF losses = 0 /\ Owned = 0 THEN n ELSE 0)
           /\ Losses' = Losses + losses
           /\ RestartLosses' = RestartLosses + (IF Owned > 0 THEN losses ELSE 0)
           /\ Len(wal') = Len(wal) - n
<1> DEFINE H == HeadEvents(n)
<1>1. TypeOK /\ JobOK
    BY DEF IInv, QueueInv
<1>2. /\ wal' = Suffix(wal, n)
      /\ \/ losses = 0 /\ confirmed' = confirmed \union H /\ lost' = lost
         \/ losses = n /\ lost' = lost \union H /\ confirmed' = confirmed
    BY DEF Replays, RecordResolved
<1>3. /\ Len(wal) \in Nat /\ Len(wal') = Len(wal) - n /\ H \subseteq WalEvents
      /\ \A i \in 1 .. Len(wal) : wal[i].event \in Int
    BY <1>1, <1>2, ReplayEvents
<1>4. n \in Nat \ {0} /\ n \in 0 .. Len(wal) /\ losses \in {0, n}
    BY <1>2, <1>3
<1>5. IsFiniteSet(H) /\ Cardinality(H) = n
    BY <1>1, <1>4, HeadCard
<1>6. H \cap confirmed = {} /\ H \cap lost = {} /\ H \subseteq (1 - Recovered) .. LastDecided
    BY <1>3 DEF PartitionOK
<1>7. Owned \in {0, Len(wal)}
    BY ReplayOwned
<1>8. /\ IsFiniteSet(confirmed \ RestartOwned) /\ IsFiniteSet(lost)
      /\ IsFiniteSet(lost \cap RestartOwned)
      /\ Confirmed \in Nat /\ Losses \in Nat /\ RestartLosses \in Nat
    BY <1>1, HistoryFinite DEF Confirmed, Losses, RestartLosses
<1>9. RestartOwned' = RestartOwned
    BY DEF RestartOwned
<1>10. CASE Owned = 0
    <2>1. ASSUME NEW e \in H PROVE e \notin RestartOwned
        <3>1. PICK i \in 1 .. n : e = wal[i].event
            BY DEF HeadEvents
        <3>2. i \in 1 .. Len(wal) /\ ~(i <= Owned) /\ i \in Nat
            BY <1>3, <1>4, <1>10
        <3>3. ~(wal[i].event <= 0)
            BY <3>2 DEF OwnedOK
        <3> QED
            BY <1>3, <3>1, <3>2, <3>3 DEF RestartOwned
    <2> HIDE DEF H
    <2>2. CASE losses = 0 /\ confirmed' = confirmed \union H /\ lost' = lost
        <3>1. (confirmed \union H) \ RestartOwned = (confirmed \ RestartOwned) \union H
              /\ (confirmed \ RestartOwned) \cap H = {}
            BY <1>6, <2>1
        <3>2. Cardinality((confirmed \ RestartOwned) \union H)
                = Cardinality(confirmed \ RestartOwned) + n
            BY <1>4, <1>5, <1>8, <3>1, Grows
        <3>3. Confirmed' = Confirmed + n
            BY <1>9, <2>2, <3>1, <3>2 DEF Confirmed
        <3>4. Losses' = Losses /\ RestartLosses' = RestartLosses
            BY <1>9, <2>2 DEF Losses, RestartLosses
        <3> QED
            BY <1>3, <1>4, <1>8, <1>10, <2>2, <3>3, <3>4
    <2>3. CASE losses = n /\ lost' = lost \union H /\ confirmed' = confirmed
        <3>1. (lost \union H) \cap RestartOwned = lost \cap RestartOwned /\ lost \cap H = {}
            BY <1>6, <2>1
        <3>2. Cardinality(lost \union H) = Cardinality(lost) + n
            BY <1>4, <1>5, <1>8, <3>1, Grows
        <3>3. Losses' = Losses + n
            BY <2>3, <3>2 DEF Losses
        <3>4. RestartLosses' = RestartLosses /\ Confirmed' = Confirmed
            BY <1>9, <2>3, <3>1 DEF Confirmed, RestartLosses
        <3> QED
            BY <1>3, <1>4, <1>8, <1>10, <2>3, <3>3, <3>4
    <2> QED
        BY <1>2, <2>2, <2>3
<1>11. CASE Owned # 0
    <2>1. Owned = Len(wal) /\ Owned > 0
        BY <1>3, <1>7, <1>11
    <2>2. ASSUME NEW e \in H PROVE e \in RestartOwned
        <3>1. PICK i \in 1 .. n : e = wal[i].event
            BY DEF HeadEvents
        <3>2. i \in 1 .. Len(wal) /\ i <= Owned
            BY <1>3, <1>4, <2>1
        <3>3. wal[i].event <= 0
            BY <3>2 DEF OwnedOK
        <3>4. e \in (1 - Recovered) .. LastDecided
            BY <1>6
        <3>5. LastDecided \in Nat /\ Recovered \in Nat
            BY <1>1, DecidedNat, ConfigAssumption
        <3> QED
            BY <1>3, <3>1, <3>2, <3>3, <3>4, <3>5 DEF RestartOwned
    <2> HIDE DEF H
    <2>3. CASE losses = 0 /\ confirmed' = confirmed \union H /\ lost' = lost
        <3>1. (confirmed \union H) \ RestartOwned = confirmed \ RestartOwned
            BY <2>2
        <3>2. Confirmed' = Confirmed /\ Losses' = Losses /\ RestartLosses' = RestartLosses
            BY <1>9, <2>3, <3>1 DEF Confirmed, Losses, RestartLosses
        <3> QED
            BY <1>3, <1>4, <1>8, <2>1, <2>3, <3>2
    <2>4. CASE losses = n /\ lost' = lost \union H /\ confirmed' = confirmed
        <3>1. (lost \union H) \cap RestartOwned = (lost \cap RestartOwned) \union H
              /\ (lost \cap RestartOwned) \cap H = {} /\ lost \cap H = {}
            BY <1>6, <2>2
        <3>2. /\ Cardinality(lost \union H) = Cardinality(lost) + n
              /\ Cardinality((lost \cap RestartOwned) \union H)
                   = Cardinality(lost \cap RestartOwned) + n
            BY <1>4, <1>5, <1>8, <3>1, Grows
        <3>3. Losses' = Losses + n /\ RestartLosses' = RestartLosses + n
            BY <1>9, <2>4, <3>1, <3>2 DEF Losses, RestartLosses
        <3>4. Confirmed' = Confirmed
            BY <1>9, <2>4 DEF Confirmed
        <3> QED
            BY <1>3, <1>4, <1>8, <2>1, <2>4, <3>3, <3>4
    <2> QED
        BY <1>2, <2>3, <2>4
<1> QED
    BY <1>4, <1>10, <1>11

Reported == {"delivered", "failed", "recoveryFailed"}
Accounting == {"settle", "account"} \union Counts

\* Nothing is due unless a piece or a record is being accounted for.
LEMMA NothingDue ==
    ASSUME pc \notin Accounting
    PROVE  DueDelivered = 0 /\ DueFailed = 0 /\ DueRecoveryFailed = 0
BY DEF Accounting, Counts, DueDelivered, DueFailed, DueRecoveryFailed

\* BooksOK in terms of the three totals.
LEMMA BooksAre ==
    BooksOK <=>
        /\ ctr.delivered + DueDelivered = Confirmed
        /\ ctr.failed + DueFailed = Losses
        /\ ctr.recoveryFailed + DueRecoveryFailed = RestartLosses
        /\ LastDecided = Confirmed + Losses - RestartLosses + Len(wal) - Owned
        /\ pc \in {"settle", "account"} => fate # "none"
        /\ pc = "countDelivered" => progress.lost = 0
        /\ pc = "countFailed" => progress.lost # 0
        /\ pc \in Counts => progress.lost \in {0, progress.n}
BY DEF BooksOK, Confirmed, Losses, RestartLosses

\* The totals depend on the store alone.
LEMMA TotalsKept ==
    ASSUME UNCHANGED store
    PROVE  /\ Confirmed' = Confirmed /\ Losses' = Losses /\ RestartLosses' = RestartLosses
           /\ Len(wal') = Len(wal)
BY DEF store, Confirmed, Losses, RestartLosses, RestartOwned

\* A step outside of accounting, or that leaves the accounting where it is.
LEMMA BooksQuiet ==
    ASSUME TypeOK, BooksOK, LastDecided' = LastDecided, Owned' = Owned, UNCHANGED store,
           \A c \in Reported : ctr'[c] = ctr[c],
           \/ UNCHANGED <<pc, progress, fate, ends, settled>>
              /\ ctr'.recoveryOwned = ctr.recoveryOwned
           \/ pc \notin Accounting /\ pc' \notin Accounting
    PROVE  BooksOK'
<1>1. /\ DueDelivered' = DueDelivered /\ DueFailed' = DueFailed
      /\ DueRecoveryFailed' = DueRecoveryFailed
    <2>1. CASE UNCHANGED <<pc, progress, fate, ends, settled>>
               /\ ctr'.recoveryOwned = ctr.recoveryOwned
        BY <2>1 DEF DueDelivered, DueFailed, DueRecoveryFailed, PieceSize
    <2>2. CASE pc \notin Accounting /\ pc' \notin Accounting
        <3>1. DueDelivered' = 0 /\ DueFailed' = 0 /\ DueRecoveryFailed' = 0
            BY <2>2 DEF Accounting, Counts, DueDelivered, DueFailed, DueRecoveryFailed
        <3> QED
            BY <2>2, <3>1, NothingDue
    <2> QED
        BY <2>1, <2>2
<1>2. /\ ctr'.delivered = ctr.delivered /\ ctr'.failed = ctr.failed
      /\ ctr'.recoveryFailed = ctr.recoveryFailed
    BY DEF Reported
<1>3. /\ (pc \in {"settle", "account"} => fate # "none")'
      /\ (pc = "countDelivered" => progress.lost = 0)'
      /\ (pc = "countFailed" => progress.lost # 0)'
      /\ (pc \in Counts => progress.lost \in {0, progress.n})'
    BY DEF BooksOK, Accounting, Counts
<1> QED
    BY <1>1, <1>2, <1>3, BooksAre, TotalsKept DEF BooksOK, store, RestartOwned

\* Accounting for a piece (batcher.go:507-541): the decision makes its events
\* due, Account counts them.
LEMMA DeliverKeepsBooks ==
    ASSUME IInv, MemoryOK, PartitionOK, BooksOK, Deliver, Owned' = Owned
    PROVE  BooksOK'
<1>1. TypeOK /\ JobOK
    BY DEF IInv, QueueInv
<1>2. /\ ctr.delivered \in Int /\ ctr.failed \in Int /\ ctr.recoveryFailed \in Int
      /\ Owned \in Int /\ Len(wal) \in Nat /\ LastDecided \in Nat
      /\ Confirmed \in Nat /\ Losses \in Nat /\ RestartLosses \in Nat
    BY <1>1, OwnedTypes, DecidedNat, HistoryFinite DEF Confirmed, Losses, RestartLosses
<1>3. /\ ctr.delivered + DueDelivered = Confirmed
      /\ ctr.failed + DueFailed = Losses
      /\ ctr.recoveryFailed + DueRecoveryFailed = RestartLosses
      /\ LastDecided = Confirmed + Losses - RestartLosses + Len(wal) - Owned
      /\ pc \in {"settle", "account"} => fate # "none"
    BY BooksAre
<1>4. /\ ctr'.recoveryFailed = ctr.recoveryFailed
      /\ ctr'.delivered = IF Account /\ fate = "delivered" THEN ctr.delivered + PieceSize
                          ELSE ctr.delivered
      /\ ctr'.failed = IF Account /\ fate \notin {"delivered", "retained"}
                       THEN ctr.failed + PieceSize ELSE ctr.failed
      /\ pc \notin Counts /\ pc' \notin Counts
    BY <1>1, DeliverBooks
<1>5. ASSUME NEW f \in Outcomes, NEW err \in BOOLEAN, Decides(f, err)
      PROVE  BooksOK'
    <2>1. /\ Confirmed' = Confirmed + (IF f = "delivered" THEN PieceSize ELSE 0)
          /\ Losses' = Losses + (IF f = "lost" THEN PieceSize ELSE 0)
          /\ RestartLosses' = RestartLosses
          /\ Len(wal') = Len(wal) + (IF f = "retained" THEN PieceSize ELSE 0)
          /\ PieceSize \in Nat \ {0}
        BY <1>1, <1>5, DispatchGains
    <2>2. /\ pc \in {"deliver", "persist"} /\ pc' = "settle" /\ fate' = f
          /\ UNCHANGED <<ctr, ends, settled>>
        BY <1>5 DEF Decides, Resolve
    <2>3. LastDecided' = LastDecided + PieceSize
        <3>1. ~(SendSplit \/ Settle \/ Account)
            BY <1>5, <2>2 DEF SendSplit, Sending, Settle, Account
        <3> QED
            BY <3>1, DeliverMemory
    <2>4. DueDelivered = 0 /\ DueFailed = 0 /\ DueRecoveryFailed = 0
        BY <2>2, NothingDue DEF Accounting, Counts
    <2>5. /\ DueDelivered' = IF f = "delivered" THEN PieceSize ELSE 0
          /\ DueFailed' = IF f = "lost" THEN PieceSize ELSE 0
          /\ DueRecoveryFailed' = 0
        BY <2>2 DEF DueDelivered, DueFailed, DueRecoveryFailed, PieceSize
    <2>6. /\ ctr'.delivered + DueDelivered' = Confirmed'
          /\ ctr'.failed + DueFailed' = Losses'
          /\ ctr'.recoveryFailed + DueRecoveryFailed' = RestartLosses'
        BY <1>2, <1>3, <2>1, <2>2, <2>4, <2>5
    <2>7. LastDecided' = Confirmed' + Losses' - RestartLosses' + Len(wal') - Owned'
        <3> DEFINE a == IF f = "delivered" THEN PieceSize ELSE 0
                   b == IF f = "lost" THEN PieceSize ELSE 0
                   c == IF f = "retained" THEN PieceSize ELSE 0
        <3>1. a + b + c = PieceSize /\ a \in Nat /\ b \in Nat /\ c \in Nat
            BY <2>1 DEF Outcomes
        <3>2. /\ Confirmed' = Confirmed + a /\ Losses' = Losses + b
              /\ RestartLosses' = RestartLosses /\ Len(wal') = Len(wal) + c
            BY <2>1
        <3> HIDE DEF a, b, c
        <3>3. LastDecided + (a + b + c) = (Confirmed + a) + (Losses + b) - RestartLosses
                                        + (Len(wal) + c) - Owned
            BY <1>2, <1>3, <3>1
        <3> QED
            BY <2>3, <3>1, <3>2, <3>3
    <2>8. fate' # "none" /\ pc' \notin Counts
        BY <2>2 DEF Outcomes, Counts
    <2> QED
        BY <2>2, <2>6, <2>7, <2>8, BooksAre DEF BooksOK, Confirmed, Losses, RestartLosses
<1>6. CASE SendSplit
    <2>1. /\ pc = "deliver" /\ pc' = "deliver" /\ UNCHANGED <<ctr, store>>
          /\ LastDecided' = LastDecided
        <3>1. SendSplit => ~(\E f \in Outcomes, err \in BOOLEAN : Decides(f, err))
            BY DEF SendSplit, Decides, Resolve, Sending
        <3> QED
            BY <1>6, <3>1, DeliverMemory DEF SendSplit, Sending
    <2>2. pc \notin Accounting /\ pc' \notin Accounting
        BY <2>1 DEF Accounting, Counts
    <2> QED
        BY <1>1, <2>1, <2>2, BooksQuiet
<1>7. CASE Settle
    <2>1. /\ pc = "settle" /\ pc' = "account" /\ UNCHANGED <<job, store>>
        BY <1>7 DEF Settle
    <2>2. LastDecided' = LastDecided
        <3>1. ~(\E f \in Outcomes, err \in BOOLEAN : Decides(f, err))
            BY <2>1 DEF Decides, Resolve
        <3> QED
            BY <3>1, DeliverMemory
    <2>3. ctr'.delivered = ctr.delivered /\ ctr'.failed = ctr.failed
        BY <1>4, <2>1 DEF Account
    <2>4. /\ DueDelivered' = DueDelivered /\ DueFailed' = DueFailed
          /\ DueRecoveryFailed' = DueRecoveryFailed
        BY <2>1 DEF DueDelivered, DueFailed, DueRecoveryFailed, PieceSize, job
    <2>5. fate' # "none" /\ pc' \notin Counts
        BY <1>3, <2>1 DEF job, Counts
    <2> QED
        BY <1>3, <1>4, <2>1, <2>2, <2>3, <2>4, <2>5, TotalsKept
        DEF BooksOK, Confirmed, Losses, RestartLosses, Counts
<1>8. CASE Account
    <2>1. /\ pc = "account" /\ pc' \in {"deliver", "select", "chunk"} /\ UNCHANGED store
        BY <1>8 DEF Account
    <2>2. LastDecided' = LastDecided
        <3>1. ~(\E f \in Outcomes, err \in BOOLEAN : Decides(f, err))
            BY <2>1 DEF Decides, Resolve
        <3> QED
            BY <3>1, DeliverMemory
    <2>3. DueDelivered' = 0 /\ DueFailed' = 0 /\ DueRecoveryFailed' = 0
        BY <2>1 DEF Accounting, Counts, DueDelivered, DueFailed, DueRecoveryFailed
    <2>4. /\ DueDelivered = IF fate = "delivered" THEN PieceSize ELSE 0
          /\ DueFailed = IF fate = "lost" THEN PieceSize ELSE 0
          /\ DueRecoveryFailed = 0
        BY <2>1 DEF DueDelivered, DueFailed, DueRecoveryFailed
    <2>5. fate \in Outcomes
        BY <1>1, <1>3, <2>1 DEF TypeOK, Outcomes
    <2>6. PieceSize \in Nat
        BY <1>1, <2>1, CurrentPiece DEF Sends
    <2>7. /\ ctr'.delivered + DueDelivered' = Confirmed
          /\ ctr'.failed + DueFailed' = Losses
          /\ ctr'.recoveryFailed + DueRecoveryFailed' = RestartLosses
        <3>1. ctr'.delivered = ctr.delivered + (IF fate = "delivered" THEN PieceSize ELSE 0)
            BY <1>2, <1>4, <1>8
        <3>2. ctr'.failed = ctr.failed + (IF fate = "lost" THEN PieceSize ELSE 0)
            BY <1>2, <1>4, <1>8, <2>5 DEF Outcomes
        <3> QED
            BY <1>2, <1>3, <1>4, <2>3, <2>4, <2>6, <3>1, <3>2
    <2>8. /\ Confirmed' = Confirmed /\ Losses' = Losses /\ RestartLosses' = RestartLosses
          /\ Len(wal') = Len(wal)
        BY <2>1, TotalsKept
    <2>9. LastDecided' = Confirmed' + Losses' - RestartLosses' + Len(wal') - Owned'
        BY <1>3, <2>2, <2>8
    <2>10. pc' \notin Counts /\ pc' \notin {"settle", "account"}
        BY <2>1 DEF Counts
    <2> QED
        BY <1>4, <2>7, <2>8, <2>9, <2>10
        DEF BooksOK, Confirmed, Losses, RestartLosses, Counts
<1> QED
    BY <1>5, <1>6, <1>7, <1>8, DeliverCases

\* Accounting for a record (batcher.go:406-454): the replay makes its events due,
\* recordRecoveryProgress counts them, one counter after the other.
LEMMA RecoverKeepsBooks ==
    ASSUME IInv, MemoryOK, PartitionOK, OwnedOK, BooksOK, Recover
    PROVE  BooksOK'
<1>1. TypeOK /\ JobOK /\ LogCounted
    BY DEF IInv, QueueInv
<1>2. /\ ctr.delivered \in Int /\ ctr.failed \in Int /\ ctr.recoveryFailed \in Int
      /\ ctr.recoveryOwned \in Int /\ progress.n \in Int /\ progress.lost \in Int
      /\ Owned \in Int /\ Len(wal) \in Nat /\ LastDecided \in Nat
      /\ Confirmed \in Nat /\ Losses \in Nat /\ RestartLosses \in Nat
      /\ ctr \in [Counters -> Int]
    <2>1. ctr \in [Counters -> Int]
        BY <1>1 DEF TypeOK
    <2> QED
        BY <1>1, <2>1, OwnedTypes, DecidedNat, HistoryFinite
        DEF Confirmed, Losses, RestartLosses
<1>3. /\ ctr.delivered + DueDelivered = Confirmed
      /\ ctr.failed + DueFailed = Losses
      /\ ctr.recoveryFailed + DueRecoveryFailed = RestartLosses
      /\ LastDecided = Confirmed + Losses - RestartLosses + Len(wal) - Owned
      /\ pc = "countDelivered" => progress.lost = 0
      /\ pc = "countFailed" => progress.lost # 0
      /\ pc \in Counts => progress.lost \in {0, progress.n}
    BY BooksAre
<1>4. LastDecided' = LastDecided
    BY RecoverMemory
<1>5. ASSUME NEW n \in 1 .. Len(wal), NEW losses, NEW stop, Replays(n, losses, stop)
      PROVE  BooksOK'
    <2>1. /\ losses \in {0, n} /\ n \in Nat \ {0}
          /\ Confirmed' = Confirmed + (IF losses = 0 /\ Owned = 0 THEN n ELSE 0)
          /\ Losses' = Losses + losses
          /\ RestartLosses' = RestartLosses + (IF Owned > 0 THEN losses ELSE 0)
          /\ Len(wal') = Len(wal) - n
        BY <1>5, ReplayGains
    <2>2. /\ Owned = ctr.recoveryOwned /\ Owned' = IF Owned > 0 THEN Owned - n ELSE 0
          /\ Owned \in {0, Len(wal)} /\ ctr' = ctr
          /\ progress'.n = n /\ progress'.lost = losses
        BY <1>5, ReplayOwned
    <2>3. /\ pc = "recover"
          /\ pc' = IF losses > 0 THEN "countFailed"
                   ELSE IF ctr.recoveryOwned > 0 THEN "countOwned" ELSE "countDurable"
        BY <1>5 DEF Replays, RecordResolved
    <2>4. DueDelivered = 0 /\ DueFailed = 0 /\ DueRecoveryFailed = 0
        BY <2>3, NothingDue DEF Accounting, Counts
    <2>5. /\ DueDelivered' = IF losses = 0 /\ Owned = 0 THEN n ELSE 0
          /\ DueFailed' = losses
          /\ DueRecoveryFailed' = IF Owned > 0 THEN losses ELSE 0
        <3>1. CASE losses = 0
            <4>1. pc' = IF Owned > 0 THEN "countOwned" ELSE "countDurable"
                BY <2>2, <2>3, <3>1
            <4>2. Owned > 0 <=> Owned # 0
                BY <1>2, <2>2
            <4> QED
                BY <2>2, <3>1, <4>1, <4>2 DEF DueDelivered, DueFailed, DueRecoveryFailed
        <3>2. CASE losses = n
            <4>1. pc' = "countFailed" /\ losses # 0
                BY <2>1, <2>3, <3>2
            <4>2. ctr'.recoveryOwned = Owned
                BY <2>2
            <4> QED
                BY <2>2, <3>2, <4>1, <4>2 DEF DueDelivered, DueFailed, DueRecoveryFailed
        <3> QED
            BY <2>1, <3>1, <3>2
    <2>6. /\ ctr'.delivered + DueDelivered' = Confirmed'
          /\ ctr'.failed + DueFailed' = Losses'
          /\ ctr'.recoveryFailed + DueRecoveryFailed' = RestartLosses'
        <3>1. /\ ctr.delivered = Confirmed /\ ctr.failed = Losses
              /\ ctr.recoveryFailed = RestartLosses
            BY <1>2, <1>3, <2>4
        <3>2. ctr'.delivered = ctr.delivered /\ ctr'.failed = ctr.failed
              /\ ctr'.recoveryFailed = ctr.recoveryFailed
            BY <2>2
        <3> QED
            BY <2>1, <2>5, <3>1, <3>2
    <2>7. LastDecided' = Confirmed' + Losses' - RestartLosses' + Len(wal') - Owned'
        <3>1. CASE Owned = 0
            <4>1. Owned' = 0 /\ RestartLosses' = RestartLosses
                BY <1>2, <2>1, <2>2, <3>1
            <4>2. Confirmed' + Losses' = Confirmed + Losses + n
                BY <1>2, <2>1, <3>1
            <4> QED
                BY <1>2, <1>3, <1>4, <2>1, <3>1, <4>1, <4>2
        <3>2. CASE Owned # 0
            <4>1. Owned > 0
                BY <1>2, <2>2, <3>2
            <4>2. /\ Owned' = Owned - n /\ RestartLosses' = RestartLosses + losses
                  /\ Confirmed' = Confirmed
                BY <1>2, <2>1, <2>2, <4>1
            <4>3. losses \in Nat /\ Losses' = Losses + losses /\ Len(wal') = Len(wal) - n
                BY <2>1
            <4>4. LastDecided = Confirmed + (Losses + losses) - (RestartLosses + losses)
                                + (Len(wal) - n) - (Owned - n)
                BY <1>2, <1>3, <2>1, <4>3
            <4> QED
                BY <1>4, <4>2, <4>3, <4>4
        <3> QED
            BY <3>1, <3>2
    <2>8. /\ pc' \notin {"settle", "account", "countDelivered"}
          /\ pc' = "countFailed" => progress'.lost # 0
          /\ progress'.lost \in {0, progress'.n}
        BY <2>1, <2>2, <2>3
    <2> QED
        BY <2>6, <2>7, <2>8 DEF BooksOK, Confirmed, Losses, RestartLosses
<1>6. CASE RecoverEnds \/ RecoverBlocked \/ CountOwned
    <2>1. /\ ctr' = RecoveryOwnedUpdated /\ UNCHANGED store
          /\ pc \in {"recover", "countOwned"} /\ pc' \in {"recover", "recovered"}
        BY <1>6 DEF RecoverEnds, RecoverBlocked, CountOwned, RecoverReturns
    <2>2. /\ ctr'.delivered = ctr.delivered /\ ctr'.failed = ctr.failed
          /\ ctr'.recoveryFailed = ctr.recoveryFailed
        BY <1>2, <2>1 DEF RecoveryOwnedUpdated, Counters
    <2>3. Owned' = Owned
        BY <1>6, CountingOwned DEF Counting
    <2>4. /\ DueDelivered = 0 /\ DueFailed = 0 /\ DueRecoveryFailed = 0
          /\ DueDelivered' = 0 /\ DueFailed' = 0 /\ DueRecoveryFailed' = 0
        BY <2>1 DEF DueDelivered, DueFailed, DueRecoveryFailed
    <2>5. /\ Confirmed' = Confirmed /\ Losses' = Losses /\ RestartLosses' = RestartLosses
          /\ Len(wal') = Len(wal)
        BY <2>1, TotalsKept
    <2>6. pc' \notin {"settle", "account", "countDelivered", "countFailed"} \union Counts
        BY <2>1 DEF Counts
    <2>7. /\ ctr'.delivered + DueDelivered' = Confirmed'
          /\ ctr'.failed + DueFailed' = Losses'
          /\ ctr'.recoveryFailed + DueRecoveryFailed' = RestartLosses'
          /\ LastDecided' = Confirmed' + Losses' - RestartLosses' + Len(wal') - Owned'
        BY <1>3, <1>4, <2>2, <2>3, <2>4, <2>5
    <2> QED
        BY <2>6, <2>7 DEF BooksOK, Confirmed, Losses, RestartLosses
<1>7. CASE CountFailed \/ CountRecoveryFailed \/ CountDurable \/ CountDelivered
    <2>1. /\ UNCHANGED store /\ progress' = progress /\ pc \in Counts /\ pc' \in Counts
        BY <1>7 DEF CountFailed, CountRecoveryFailed, CountDurable, CountDelivered,
           CountStep, Counts
    <2>2. Owned' = Owned
        BY <1>7, CountingOwned DEF Counting
    <2>3. /\ Confirmed' = Confirmed /\ Losses' = Losses /\ RestartLosses' = RestartLosses
          /\ Len(wal') = Len(wal)
        BY <2>1, TotalsKept
    <2>4. /\ ctr'.delivered + DueDelivered' = Confirmed
          /\ ctr'.failed + DueFailed' = Losses
          /\ ctr'.recoveryFailed + DueRecoveryFailed' = RestartLosses
          /\ pc' = "countDelivered" => progress.lost = 0
          /\ pc' \notin {"countFailed", "settle", "account"}
        <3>1. CASE CountFailed
            <4>1. /\ pc = "countFailed" /\ progress.lost # 0
                  /\ pc' = IF ctr.recoveryOwned > 0 THEN "countRecoveryFailed" ELSE "countDurable"
                  /\ ctr' = Bump("failed", progress.lost)
                BY <1>3, <3>1 DEF CountFailed, CountStep
            <4>2. /\ ctr'.failed = ctr.failed + progress.lost /\ ctr'.delivered = ctr.delivered
                  /\ ctr'.recoveryFailed = ctr.recoveryFailed
                BY <1>2, <4>1 DEF Bump, Plus, Counters
            <4>3. /\ DueDelivered = 0 /\ DueFailed = progress.lost
                  /\ DueRecoveryFailed = IF ctr.recoveryOwned > 0 THEN progress.lost ELSE 0
                BY <4>1 DEF DueDelivered, DueFailed, DueRecoveryFailed
            <4>4. /\ DueDelivered' = 0 /\ DueFailed' = 0
                  /\ DueRecoveryFailed' = IF ctr.recoveryOwned > 0 THEN progress.lost ELSE 0
                BY <2>1, <4>1 DEF DueDelivered, DueFailed, DueRecoveryFailed
            <4> QED
                BY <1>2, <1>3, <4>1, <4>2, <4>3, <4>4
        <3>2. CASE CountRecoveryFailed
            <4>1. /\ pc = "countRecoveryFailed" /\ pc' = "countOwned"
                  /\ ctr' = Bump("recoveryFailed", progress.lost)
                BY <3>2 DEF CountRecoveryFailed, CountStep
            <4>2. /\ ctr'.failed = ctr.failed /\ ctr'.delivered = ctr.delivered
                  /\ ctr'.recoveryFailed = ctr.recoveryFailed + progress.lost
                BY <1>2, <4>1 DEF Bump, Plus, Counters
            <4>3. DueDelivered = 0 /\ DueFailed = 0 /\ DueRecoveryFailed = progress.lost
                BY <4>1 DEF DueDelivered, DueFailed, DueRecoveryFailed
            <4>4. DueDelivered' = 0 /\ DueFailed' = 0 /\ DueRecoveryFailed' = 0
                BY <4>1 DEF DueDelivered, DueFailed, DueRecoveryFailed
            <4> QED
                BY <1>2, <1>3, <4>1, <4>2, <4>3, <4>4
        <3>3. CASE CountDurable
            <4>1. /\ pc = "countDurable"
                  /\ pc' = IF progress.lost = 0 THEN "countDelivered" ELSE "countOwned"
                  /\ ctr' = Bump("durableCurrent", -progress.n) /\ -progress.n \in Int
                BY <1>2, <3>3 DEF CountDurable, CountStep
            <4>2. /\ ctr'.failed = ctr.failed /\ ctr'.delivered = ctr.delivered
                  /\ ctr'.recoveryFailed = ctr.recoveryFailed
                BY <1>2, <4>1 DEF Bump, Plus, Counters
            <4>3. /\ DueDelivered = IF progress.lost = 0 THEN progress.n ELSE 0
                  /\ DueFailed = 0 /\ DueRecoveryFailed = 0
                BY <4>1 DEF DueDelivered, DueFailed, DueRecoveryFailed
            <4>4. /\ DueDelivered' = IF progress.lost = 0 THEN progress.n ELSE 0
                  /\ DueFailed' = 0 /\ DueRecoveryFailed' = 0
                BY <2>1, <4>1 DEF DueDelivered, DueFailed, DueRecoveryFailed
            <4> QED
                BY <1>2, <1>3, <4>1, <4>2, <4>3, <4>4
        <3>4. CASE CountDelivered
            <4>1. /\ pc = "countDelivered" /\ pc' = "countOwned" /\ progress.lost = 0
                  /\ ctr' = Bump("delivered", progress.n)
                BY <1>3, <3>4 DEF CountDelivered, CountStep
            <4>2. /\ ctr'.failed = ctr.failed /\ ctr'.delivered = ctr.delivered + progress.n
                  /\ ctr'.recoveryFailed = ctr.recoveryFailed
                BY <1>2, <4>1 DEF Bump, Plus, Counters
            <4>3. DueDelivered = progress.n /\ DueFailed = 0 /\ DueRecoveryFailed = 0
                BY <4>1 DEF DueDelivered, DueFailed, DueRecoveryFailed
            <4>4. DueDelivered' = 0 /\ DueFailed' = 0 /\ DueRecoveryFailed' = 0
                BY <4>1 DEF DueDelivered, DueFailed, DueRecoveryFailed
            <4> QED
                BY <1>2, <1>3, <4>1, <4>2, <4>3, <4>4
        <3> QED
            BY <1>7, <3>1, <3>2, <3>3, <3>4
    <2>5. LastDecided' = Confirmed' + Losses' - RestartLosses' + Len(wal') - Owned'
        BY <1>3, <1>4, <2>2, <2>3
    <2> QED
        BY <1>3, <2>1, <2>3, <2>4, <2>5 DEF BooksOK, Confirmed, Losses, RestartLosses
<1> QED
    BY <1>5, <1>6, <1>7, RecoverCases DEF Counting

\* BooksOK is kept by every step.
LEMMA BooksNext ==
    ASSUME IInv, MemoryOK, PartitionOK, OwnedOK, BooksOK, [Next]_vars
    PROVE  BooksOK'
<1>1. TypeOK /\ JobOK
    BY DEF IInv, QueueInv
<1>2. CASE Reject \/ Track
    <2>1. LastDecided' = LastDecided /\ UNCHANGED store
        BY <1>2, TrackMemory
    <2>2. TrackUnchanged
        BY <1>2 DEF Reject, Track, TrackBegin, TrackLoadOwned, TrackAdmit, TrackReserve,
           TrackSend, TrackCount
    <2>3. UNCHANGED <<pc, progress, fate, ends, settled>>
        BY <2>2 DEF TrackUnchanged, loop, job
    <2>4. \A c \in Reported \union {"recoveryOwned"} : ctr'[c] = ctr[c]
        BY <1>1, <1>2, TrackBooks DEF Reported, Books
    <2>5. Owned' = Owned
        BY <2>3, <2>4 DEF Owned
    <2> QED
        BY <1>1, <2>1, <2>3, <2>4, <2>5, BooksQuiet
<1>3. CASE Select
    <2>1. LastDecided' = LastDecided /\ UNCHANGED store
        BY <1>3, SelectMemory
    <2>2. /\ ctr' = ctr /\ progress' = progress
          /\ pc = "select" /\ pc' \in {"select", "recover"}
        BY <1>3 DEF Select, LoopStop, LoopEvent, LoopTick, LoopFlush, StartPass
    <2>3. pc \notin Accounting /\ pc' \notin Accounting
        BY <2>2 DEF Accounting, Counts
    <2>4. Owned' = Owned
        BY <2>2 DEF Owned, Counts
    <2> QED
        BY <1>1, <2>1, <2>2, <2>3, <2>4, BooksQuiet
<1>4. CASE Recover
    BY <1>4, RecoverKeepsBooks
<1>5. CASE SendChunks
    <2>1. LastDecided' = LastDecided /\ UNCHANGED store
        BY <1>5, SendChunksMemory
    <2>2. /\ ctr' = ctr /\ progress' = progress
          /\ {pc, pc'} \subseteq {"recovered", "chunk", "select", "persist", "deliver", "exit"}
        BY <1>5 DEF SendChunks, PassBlocked, PersistPending, StartChunks, NextChunk,
           NoMoreChunks, EndPass
    <2>3. pc \notin Accounting /\ pc' \notin Accounting
        BY <2>2 DEF Accounting, Counts
    <2>4. Owned' = Owned
        BY <2>2 DEF Owned, Counts
    <2> QED
        BY <1>1, <2>1, <2>2, <2>3, <2>4, BooksQuiet
<1>6. CASE Deliver
    <2>1. ctr'.recoveryOwned = ctr.recoveryOwned /\ {pc, pc'} \cap Counts = {}
        BY <1>1, <1>6, DeliverBooks
    <2>2. Owned' = Owned
        BY <2>1 DEF Owned
    <2> QED
        BY <1>6, <2>2, DeliverKeepsBooks
<1>7. CASE Aside
    <2>1. LastDecided' = LastDecided
        BY <1>7, AsideMemory
    <2>2. /\ UNCHANGED <<ctr, progress, store, fate, ends, settled>>
          /\ \/ pc' = pc
             \/ pc \notin Accounting /\ pc' \notin Accounting
        BY <1>7 DEF Aside, job, Accounting, Counts
    <2>3. Owned' = Owned
        BY <2>2 DEF Owned, Accounting
    <2> QED
        BY <1>1, <2>1, <2>2, <2>3, BooksQuiet
<1> QED
    BY <1>2, <1>3, <1>4, <1>5, <1>6, <1>7, StepCases

---------------------------------------------------------------------------
(* What is unsent stays bounded: BudgetOK *)

\* No step takes more than FlushSize events into the chunk (batcher.go:386-404).
LEMMA ChunkBound ==
    ASSUME IInv, Len(chunk) <= FlushSize, Select \/ Recover \/ SendChunks \/ Deliver \/ Aside
    PROVE  Len(chunk') <= FlushSize
<1>1. TypeOK /\ FlushSize \in Nat \ {0}
    BY ConfigAssumption DEF IInv
<1>2. CASE NextChunk
    <2> DEFINE size == Least(FlushSize, Len(Waiting))
    <2>1. chunk' = Prefix(Waiting, size)
        BY <1>2 DEF NextChunk
    <2>2. Waiting \in Seq(Int) /\ Len(Waiting) \in Nat
        BY <1>1, WaitingLengths
    <2>3. size \in 0 .. Len(Waiting) /\ size <= FlushSize
        BY <1>1, <2>2 DEF Least
    <2> HIDE DEF size
    <2>4. Len(chunk') = size
        BY <2>1, <2>2, <2>3, SplitLengths
    <2> QED
        BY <2>3, <2>4
<1>3. CASE Account
    <2>1. chunk' = chunk \/ chunk' = <<>>
        BY <1>3 DEF Account
    <2> QED
        BY <1>1, <2>1
<1>4. ASSUME chunk' = chunk PROVE Len(chunk') <= FlushSize
    BY <1>4
<1>5. CASE Select
    BY <1>4, <1>5 DEF Select, LoopStop, LoopEvent, LoopTick, LoopFlush, job
<1>6. CASE Recover
    <2>1. RecoverUnchanged
        BY <1>6 DEF Recover, RecoverEnds, RecoverBlocked, RecoverDelivered, RecoverTerminal,
           RecordResolved, CountFailed, CountRecoveryFailed, CountDurable, CountDelivered,
           CountOwned, CountStep
    <2> QED
        BY <1>4, <2>1 DEF RecoverUnchanged, job
<1>7. CASE SendChunks
    BY <1>2, <1>4, <1>7 DEF SendChunks, PassBlocked, PersistPending, StartChunks,
       NoMoreChunks, job
<1>8. CASE Deliver
    <2>1. ASSUME NEW f \in Outcomes, NEW err \in BOOLEAN, Decides(f, err)
          PROVE  chunk' = chunk
        BY <2>1 DEF Decides, Resolve
    <2>2. SendSplit \/ Settle => chunk' = chunk
        BY DEF SendSplit, Settle, job
    <2> QED
        BY <1>3, <1>4, <1>8, <2>1, <2>2, DeliverCases
<1>9. CASE Aside
    BY <1>4, <1>9 DEF Aside, job
<1> QED
    BY <1>5, <1>6, <1>7, <1>8, <1>9

\* Only an enqueueing call reserves a slot (batcher.go:144-148); the loop releases.
LEMMA LoopReleases ==
    ASSUME TypeOK, JobOK, Select \/ Recover \/ SendChunks \/ Deliver \/ Aside
    PROVE  track' = track /\ ctr'.unsent <= ctr.unsent
<1>1. ctr \in [Counters -> Int] /\ ctr.unsent \in Int
    BY CounterTypes DEF TypeOK
<1>2. CASE Select
    BY <1>1, <1>2 DEF Select, LoopStop, LoopEvent, LoopTick, LoopFlush, LoopUnchanged
<1>3. CASE Recover
    <2>1. RecoverUnchanged
        BY <1>3 DEF Recover, RecoverEnds, RecoverBlocked, RecoverDelivered, RecoverTerminal,
           RecordResolved, CountFailed, CountRecoveryFailed, CountDurable, CountDelivered,
           CountOwned, CountStep
    <2>2. \A c \in Books, n \in Int : Bump(c, n).unsent = ctr.unsent
        BY <1>1 DEF Bump, Plus, Counters, Books
    <2>3. RecoveryOwnedUpdated.unsent = ctr.unsent
        BY <1>1 DEF RecoveryOwnedUpdated, Counters
    <2>4. progress.n \in Int /\ -progress.n \in Int /\ progress.lost \in Int
        BY OwnedTypes
    <2>5. \/ ctr' = ctr \/ ctr' = RecoveryOwnedUpdated
          \/ \E c \in Books, n \in Int : ctr' = Bump(c, n)
        BY <1>3, <2>4 DEF Recover, RecoverEnds, RecoverBlocked, RecoverDelivered,
           RecoverTerminal, RecordResolved, RecoverReturns, CountFailed, CountRecoveryFailed,
           CountDurable, CountDelivered, CountOwned, CountStep, Books
    <2> QED
        BY <1>1, <2>1, <2>2, <2>3, <2>5 DEF RecoverUnchanged, LoopUnchanged
<1>4. CASE SendChunks
    BY <1>1, <1>4 DEF SendChunks, PassBlocked, PersistPending, StartChunks, NextChunk,
       NoMoreChunks, LoopUnchanged
<1>5. CASE Deliver
    <2>1. DeliverUnchanged /\ pc \in Sends
        BY <1>5 DEF Deliver, SplitLimit, SendDelivered, SendTerminal, SendSplit, SendRetained,
           SendFailed, SendUnstored, Persisted, NotPersisted, Settle, Account, Sending,
           Resolve, Sends
    <2>2. PieceSize \in Nat
        BY <2>1, CurrentPiece
    <2>3. CASE Settle
        <3>1. ctr'.unsent = ctr.unsent + (-PieceSize)
            BY <1>1, <2>3 DEF Settle, Release, Bump, Plus, Counters
        <3> QED
            BY <1>1, <2>1, <2>2, <3>1 DEF DeliverUnchanged, LoopUnchanged
    <2>4. CASE Account
        <3>1. OutcomeCounter \in Books
            BY DEF OutcomeCounter, Books
        <3>2. \A c \in Books : Bump(c, PieceSize).unsent = ctr.unsent
            BY <1>1, <2>2 DEF Bump, Plus, Counters, Books
        <3>3. ctr'.unsent = ctr.unsent
            BY <2>4, <3>1, <3>2 DEF Account
        <3> QED
            BY <1>1, <2>1, <3>3 DEF DeliverUnchanged, LoopUnchanged
    <2>5. CASE SendSplit
        BY <1>1, <2>1, <2>5 DEF SendSplit, DeliverUnchanged, LoopUnchanged
    <2>6. ASSUME NEW f \in Outcomes, NEW err \in BOOLEAN, Decides(f, err)
          PROVE  track' = track /\ ctr'.unsent <= ctr.unsent
        BY <1>1, <2>1, <2>6 DEF Decides, Resolve, DeliverUnchanged, LoopUnchanged
    <2> QED
        BY <1>5, <2>3, <2>4, <2>5, <2>6, DeliverCases
<1>6. CASE Aside
    BY <1>1, <1>6 DEF Aside
<1> QED
    BY <1>2, <1>3, <1>4, <1>5, <1>6

\* The types of what BudgetOK compares.
LEMMA BudgetTypes ==
    ASSUME TypeOK, JobOK, MemoryOK
    PROVE  /\ Outstanding \in Nat /\ Len(wal) \in Nat /\ LastAccepted \in Nat
           /\ LastDecided \in Nat /\ LastDecided <= LastAccepted
           /\ ctr.unsent \in Int /\ ctr.recoveryOwned \in Int /\ ctr.durableCurrent \in Int
           /\ track.unsent \in Int /\ track.total \in Int
           /\ QueueLimit \in Nat \ {0} /\ FlushSize \in Nat \ {0}
<1>1. track \in TrackCalls
    BY DEF TypeOK
<1>2. track.unsent \in Int /\ track.total \in Int
    BY <1>1 DEF TrackCalls
<1>3. QueueLimit \in Nat \ {0} /\ FlushSize \in Nat \ {0}
    BY ConfigAssumption
<1>4. /\ Len(wal) \in Nat /\ LastAccepted \in Nat /\ LastDecided \in Nat
      /\ LastDecided <= LastAccepted
    BY DecidedNat, OwnedTypes
<1>5. ctr.unsent \in Int /\ ctr.recoveryOwned \in Int /\ ctr.durableCurrent \in Int
    BY CounterTypes DEF TypeOK
<1> QED
    BY <1>2, <1>3, <1>4, <1>5 DEF Outstanding

\* The counters that admit a call (batcher.go:136-143) show every unresolved event
\* but for the piece that has been released and not yet counted as retained.
LEMMA CountersShow ==
    ASSUME IInv, MemoryOK, Len(chunk) <= FlushSize, track.pc # "send"
    PROVE  Outstanding <= ctr.unsent + ctr.recoveryOwned + ctr.durableCurrent + FlushSize
<1>1. TypeOK /\ JobOK /\ LogCounted /\ UnsentAccounted
    BY DEF IInv, QueueInv
<1>2. /\ ctr.recoveryOwned \in Int /\ ctr.durableCurrent \in Int /\ ctr.unsent \in Int
      /\ Len(wal) \in Nat /\ LastAccepted \in Nat /\ LastDecided \in Nat
      /\ Len(events) \in Nat /\ Len(pending) \in Nat /\ Len(chunk) \in Nat
      /\ Decided \in 0 .. Len(chunk) /\ FlushSize \in Nat
    BY <1>1, BudgetTypes, MemoryTypes
<1>3. LastAccepted = LastDecided + (Len(chunk) - Decided) + Len(pending) + Len(events)
    BY <1>1, DecidedNat
<1>4. ctr.recoveryOwned + ctr.durableCurrent = Len(wal) + InTransit
    BY <1>1 DEF LogCounted
<1>5. Unsettled \in Int /\ ctr.unsent = Len(events) + Len(pending) + Unsettled
    <2>1. Unsettled \in Int
        BY <1>1, UnsettledType
    <2> QED
        BY <1>1, <1>2, <2>1 DEF UnsentAccounted
<1>6. InTransit \in Int /\ (Len(chunk) - Decided) - Unsettled - InTransit <= FlushSize
    <2>1. CASE ends = <<>>
        <3>1. pc \notin Sends
            BY <1>1, <2>1 DEF JobOK
        <3>2. Unsettled = 0 /\ Decided = 0 /\ Len(chunk) = 0
            BY <2>1 DEF Unsettled, Decided, MemoryOK
        <3>3. InTransit \in Int /\ InTransit >= 0
            <4>1. progress.n \in Int /\ (pc \in Counts => progress.n >= 1)
                BY <1>1, OwnedTypes DEF LogCounted
            <4>2. pc \notin {"settle", "account"}
                BY <3>1 DEF Sends
            <4>3. InTransit \in {0, progress.n} /\ (pc \notin Counts => InTransit = 0)
                BY <4>2 DEF InTransit, Counts
            <4> QED
                BY <4>1, <4>3
        <3> QED
            BY <1>2, <3>2, <3>3
    <2>2. CASE ends # <<>>
        <3>1. pc \in Sends
            BY <1>1, <2>2 DEF JobOK
        <3>2. /\ settled < Head(ends) /\ Head(ends) <= Len(chunk) /\ Head(ends) \in Nat
              /\ settled \in Nat
            BY <1>1, <3>1, CurrentPiece DEF TypeOK
        <3>3. InTransit = IF pc \in {"settle", "account"} /\ fate = "retained"
                          THEN -(Head(ends) - settled) ELSE 0
            BY <3>1 DEF InTransit, Sends, Counts, PieceSize
        <3>4. Unsettled = Len(chunk) - (IF pc = "account" THEN Head(ends) ELSE settled)
            BY <2>2 DEF Unsettled
        <3>5. Decided = IF pc \in {"settle", "account"} THEN Head(ends) ELSE settled
            BY <2>2 DEF Decided
        <3>6. InTransit \in Int /\ -InTransit <= Head(ends) - settled /\ -InTransit <= FlushSize
            BY <1>2, <3>2, <3>3
        <3>7. CASE pc = "account"
            BY <1>2, <3>2, <3>4, <3>5, <3>6, <3>7
        <3>8. CASE pc = "settle"
            <4>1. Decided = Head(ends) /\ Unsettled = Len(chunk) - settled
                BY <3>4, <3>5, <3>8
            <4>2. (Len(chunk) - Head(ends)) - (Len(chunk) - settled) = -(Head(ends) - settled)
                BY <1>2, <3>2
            <4>3. -(Head(ends) - settled) - InTransit <= 0
                BY <3>2, <3>6
            <4> QED
                BY <1>2, <3>6, <4>1, <4>2, <4>3
        <3>9. CASE pc \notin {"settle", "account"}
            BY <1>2, <3>2, <3>3, <3>4, <3>5, <3>9
        <3> QED
            BY <3>7, <3>8, <3>9
    <2> QED
        BY <2>1, <2>2
<1>7. Outstanding = Len(wal) + LastAccepted - LastDecided
    BY DEF Outstanding
<1>8. Outstanding = Len(wal) + (Len(chunk) - Decided) + Len(pending) + Len(events)
    BY <1>2, <1>3, <1>7
<1>9. ctr.unsent + ctr.recoveryOwned + ctr.durableCurrent
        = Len(events) + Len(pending) + Unsettled + Len(wal) + InTransit
    BY <1>2, <1>4, <1>5, <1>6
<1> QED
    BY <1>2, <1>5, <1>6, <1>8, <1>9

\* A step of the enqueueing call (batcher.go:135-157): what it has loaded covers
\* what it is about to reserve.
LEMMA TrackBudget ==
    ASSUME IInv, MemoryOK, BudgetOK, Reject \/ Track
    PROVE  BudgetOK'
<1>1. TypeOK /\ JobOK /\ CallOK
    BY DEF IInv, QueueInv
<1>2. /\ Outstanding \in Nat /\ Len(wal) \in Nat /\ LastAccepted \in Nat /\ LastDecided \in Nat
      /\ ctr.unsent \in Int /\ ctr.recoveryOwned \in Int /\ ctr.durableCurrent \in Int
      /\ track.unsent \in Int /\ track.total \in Int
      /\ QueueLimit \in Nat \ {0} /\ FlushSize \in Nat \ {0}
    BY <1>1, BudgetTypes
<1>3. /\ Len(chunk) <= FlushSize
      /\ track.pc \in {"owned", "durable"} => ctr.unsent <= track.unsent
      /\ track.pc = "durable" => track.total >= track.unsent + ctr.recoveryOwned
      /\ Outstanding <= QueueLimit + FlushSize
                        - (IF track.pc \in {"cas", "send"} THEN 1 ELSE 0)
    BY DEF BudgetOK
<1>4. /\ LastDecided' = LastDecided /\ chunk' = chunk /\ Len(wal') = Len(wal)
      /\ \/ LastAccepted' = LastAccepted
         \/ LastAccepted' = LastAccepted + 1 /\ track.pc = "send" /\ track'.pc = "count"
    BY TrackMemory DEF store
<1>5. ctr'.recoveryOwned = ctr.recoveryOwned
    BY <1>1, TrackBooks DEF Books
<1>6. /\ \/ Outstanding' = Outstanding
         \/ Outstanding' = Outstanding + 1 /\ track.pc = "send" /\ track'.pc = "count"
    <2>1. Outstanding' = Len(wal) + LastAccepted' - LastDecided
        BY <1>4 DEF Outstanding
    <2> QED
        BY <1>2, <1>4, <2>1 DEF Outstanding
<1>7. track \in TrackCalls /\ ctr \in [Counters -> Int]
    BY <1>1 DEF TypeOK
<1>8. CASE Reject \/ TrackSend \/ TrackCount
    <2>1. track'.pc \notin {"owned", "durable", "cas", "send"} \/ Reject
        BY <1>7, <1>8 DEF TrackSend, TrackCount, IdleTrack, TrackCalls
    <2>2. CASE Reject
        <3>1. track' = track /\ ctr'.unsent = ctr.unsent
            BY <1>7, <2>2 DEF Reject, Bump, Plus, Counters
        <3>2. Outstanding' = Outstanding
            BY <1>6, <3>1
        <3> QED
            BY <1>3, <1>4, <1>5, <3>1, <3>2 DEF BudgetOK
    <2>3. CASE track'.pc \notin {"owned", "durable", "cas", "send"}
        <3>1. Outstanding' <= QueueLimit + FlushSize
            BY <1>2, <1>3, <1>6
        <3>2. Outstanding' <= QueueLimit + FlushSize - 0
            BY <1>2, <3>1
        <3> QED
            BY <1>3, <1>4, <2>3, <3>2 DEF BudgetOK
    <2> QED
        BY <2>1, <2>2, <2>3
<1>9. CASE TrackBegin
    <2>1. /\ track' = LoadedUnsent /\ ctr' = ctr
        BY <1>9 DEF TrackBegin
    <2>2. track'.pc = "owned" /\ track'.unsent = ctr.unsent
        BY <2>1 DEF LoadedUnsent
    <2>3. Outstanding' <= QueueLimit + FlushSize - 0
        BY <1>2, <1>3, <1>6, <2>2
    <2> QED
        BY <1>2, <1>3, <1>4, <2>1, <2>2, <2>3 DEF BudgetOK
<1>10. CASE TrackLoadOwned
    <2>1. /\ track.pc = "owned" /\ ctr' = ctr /\ track'.pc = "durable"
          /\ track'.unsent = track.unsent /\ track'.total = track.total + ctr.recoveryOwned
        BY <1>10 DEF TrackLoadOwned
    <2>2. track.total = track.unsent /\ ctr.unsent <= track.unsent
        BY <1>1, <1>3, <2>1 DEF CallOK
    <2>3. Outstanding' <= QueueLimit + FlushSize - 0
        BY <1>2, <1>3, <1>6, <2>1
    <2>4. track'.total >= track'.unsent + ctr'.recoveryOwned
        BY <1>2, <2>1, <2>2
    <2> QED
        BY <1>3, <1>4, <2>1, <2>2, <2>3, <2>4 DEF BudgetOK
<1>11. CASE TrackAdmit
    <2>1. track.pc = "durable" /\ Outstanding' = Outstanding
        BY <1>6, <1>11 DEF TrackAdmit
    <2>2. CASE track.total + ctr.durableCurrent >= QueueLimit
        <3>1. track'.pc = "idle"
            BY <1>11, <2>2 DEF TrackAdmit, IdleTrack
        <3>2. Outstanding' <= QueueLimit + FlushSize - 0
            BY <1>2, <1>3, <2>1
        <3> QED
            BY <1>3, <1>4, <3>1, <3>2 DEF BudgetOK
    <2>3. CASE ~(track.total + ctr.durableCurrent >= QueueLimit)
        <3>1. track'.pc = "cas"
            BY <1>7, <1>11, <2>3 DEF TrackAdmit, TrackCalls
        <3>2. Outstanding <= ctr.unsent + ctr.recoveryOwned + ctr.durableCurrent + FlushSize
            BY <1>3, <2>1, CountersShow
        <3>3. ctr.unsent + ctr.recoveryOwned <= track.total
            BY <1>2, <1>3, <2>1
        <3>4. Outstanding <= QueueLimit + FlushSize - 1
            BY <1>2, <2>3, <3>2, <3>3
        <3> QED
            BY <1>3, <1>4, <2>1, <3>1, <3>4 DEF BudgetOK
    <2> QED
        BY <2>2, <2>3
<1>12. CASE TrackReserve
    <2>1. track.pc = "cas" /\ Outstanding' = Outstanding
          /\ Outstanding <= QueueLimit + FlushSize - 1
        BY <1>3, <1>6, <1>12 DEF TrackReserve
    <2>2. CASE ctr.unsent = track.unsent
        <3>1. track'.pc = "send"
            BY <1>12, <2>2 DEF TrackReserve, IdleTrack
        <3> QED
            BY <1>3, <1>4, <2>1, <3>1 DEF BudgetOK
    <2>3. CASE ctr.unsent # track.unsent
        <3>1. track' = LoadedUnsent /\ ctr' = ctr
            BY <1>12, <2>3 DEF TrackReserve
        <3>2. track'.pc = "owned" /\ track'.unsent = ctr.unsent
            BY <3>1 DEF LoadedUnsent
        <3>3. Outstanding' <= QueueLimit + FlushSize - 0
            BY <1>2, <2>1
        <3> QED
            BY <1>2, <1>3, <1>4, <3>1, <3>2, <3>3 DEF BudgetOK
    <2> QED
        BY <2>2, <2>3
<1> QED
    BY <1>8, <1>9, <1>10, <1>11, <1>12 DEF Track

\* Only an enqueueing call (batcher.go:149-150) makes an event unresolved.
LEMMA OutstandingFalls ==
    ASSUME IInv, MemoryOK, PartitionOK, [Next]_vars, ~Accepts
    PROVE  Outstanding' \in Int /\ Outstanding' <= Outstanding
<1>1. TypeOK /\ JobOK
    BY DEF IInv, QueueInv
<1>2. /\ Outstanding \in Nat /\ Len(wal) \in Nat /\ LastAccepted \in Nat /\ LastDecided \in Nat
    BY <1>1, BudgetTypes
<1>3. CASE Keeps
    BY <1>2, <1>3 DEF Keeps, store, Outstanding
<1>4. CASE Dispatches
    <2>1. PICK f \in Outcomes, err \in BOOLEAN : Decides(f, err)
        BY <1>4 DEF Dispatches
    <2>2. /\ Len(wal') = Len(wal) + (IF f = "retained" THEN PieceSize ELSE 0)
          /\ PieceSize \in Nat \ {0}
        BY <1>1, <2>1, DispatchGains
    <2>3. Len(wal') <= Len(wal) + PieceSize /\ Len(wal') \in Nat
        BY <1>2, <2>2
    <2>4. LastAccepted' = LastAccepted /\ LastDecided' = LastDecided + PieceSize
        BY <1>4 DEF Dispatches
    <2>5. Outstanding' = Len(wal') + LastAccepted - (LastDecided + PieceSize)
        BY <2>4 DEF Outstanding
    <2> QED
        BY <1>2, <2>2, <2>3, <2>5 DEF Outstanding
<1>5. CASE ReplaysRecord
    <2>1. PICK n \in 1 .. Len(wal), stop \in BOOLEAN :
             Replays(n, 0, stop) \/ Replays(n, n, stop)
        BY <1>5 DEF ReplaysRecord
    <2>2. wal' = Suffix(wal, n)
        BY <2>1 DEF Replays, RecordResolved
    <2>3. Len(wal') = Len(wal) - n
        BY <1>1, <2>2, ReplayEvents
    <2>4. Outstanding' = (Len(wal) - n) + LastAccepted - LastDecided
        BY <1>5, <2>3 DEF ReplaysRecord, Outstanding
    <2> QED
        BY <1>2, <2>4 DEF Outstanding
<1> QED
    BY <1>3, <1>4, <1>5, ViewSteps

\* BudgetOK is kept by every step: no other step makes an event unresolved.
LEMMA BudgetNext ==
    ASSUME IInv, MemoryOK, PartitionOK, OwnedOK, BudgetOK, [Next]_vars
    PROVE  BudgetOK'
<1>1. TypeOK /\ JobOK /\ TypeOK'
    BY NextInv DEF IInv, QueueInv
<1>2. /\ Outstanding \in Nat /\ Len(wal) \in Nat /\ LastAccepted \in Nat /\ LastDecided \in Nat
      /\ ctr.unsent \in Int /\ ctr.recoveryOwned \in Int
      /\ track.unsent \in Int /\ track.total \in Int
      /\ QueueLimit \in Nat \ {0} /\ FlushSize \in Nat \ {0}
    BY <1>1, BudgetTypes
<1>3. ctr'.unsent \in Int /\ ctr'.recoveryOwned \in Int
    <2>1. ctr' \in [Counters -> Int]
        BY <1>1 DEF TypeOK
    <2> QED
        BY <2>1 DEF Counters
<1>4. CASE Select \/ Recover \/ SendChunks \/ Deliver \/ Aside
    <2>1. track' = track /\ ctr'.unsent <= ctr.unsent
        BY <1>1, <1>4, LoopReleases
    <2>2. Len(chunk') <= FlushSize
        BY <1>4, ChunkBound DEF BudgetOK
    <2>3. ctr'.recoveryOwned <= ctr.recoveryOwned
        <3>1. ASSUME NEW n \in 1 .. Len(wal), NEW losses, NEW stop, Replays(n, losses, stop)
              PROVE  ctr'.recoveryOwned <= ctr.recoveryOwned
            BY <1>2, <3>1, ReplayOwned
        <3> QED
            BY <3>1, OwnedSteps
    <2>4. Outstanding' \in Int /\ Outstanding' <= Outstanding
        BY <2>1, OutstandingFalls DEF Accepts
    <2> QED
        BY <1>2, <1>3, <2>1, <2>2, <2>3, <2>4 DEF BudgetOK
<1> QED
    BY <1>4, TrackBudget, StepCases

---------------------------------------------------------------------------
(* The inductive invariant of the events *)

EInv == IInv /\ EventsOK

\* The log as the earlier process left it holds the events 1 - Recovered .. 0.
LEMMA InitEvents == Init => EventsOK
<1> SUFFICES ASSUME Init PROVE EventsOK
    OBVIOUS
<1>1. IInv /\ TypeOK /\ JobOK
    BY InitInv DEF IInv, QueueInv
<1>2. /\ ends = <<>> /\ events = <<>> /\ pending = <<>> /\ chunk = <<>> /\ pc = "select"
      /\ track.pc = "idle" /\ confirmed = {} /\ lost = {}
    BY DEF Init, IdleTrack
<1>3. /\ ctr.recoveryOwned = Recovered /\ ctr.unsent = 0 /\ ctr.enqueued = 0
      /\ ctr.delivered = 0 /\ ctr.failed = 0 /\ ctr.recoveryFailed = 0
      /\ Recovered \in Nat /\ Recovered <= QueueLimit
      /\ QueueLimit \in Nat \ {0} /\ FlushSize \in Nat \ {0}
    BY ConfigAssumption DEF Init, Counters
<1>4. Len(wal) = Recovered /\ \A i \in 1 .. Recovered : wal[i].event = i - Recovered
    BY DEF Init, InitWal, RecoveredWal
<1>5. LastAccepted = 0 /\ Decided = 0 /\ Base = 0 /\ LastDecided = 0 /\ Owned = Recovered
    <2>1. LastAccepted = 0 /\ Decided = 0 /\ Owned = Recovered
        BY <1>2, <1>3 DEF LastAccepted, Decided, Owned, Counts
    <2>2. Base = 0
        <3>1. Len(events) = 0 /\ Len(pending) = 0 /\ Len(chunk) = 0
            BY <1>2
        <3> QED
            BY <2>1, <3>1 DEF Base
    <2> QED
        BY <2>1, <2>2 DEF LastDecided
<1>6. MemoryOK
    BY <1>2, <1>5 DEF MemoryOK, Run
<1>7. WalEvents = (1 - Recovered) .. 0
    <2>1. ASSUME NEW e \in (1 - Recovered) .. 0 PROVE e \in WalEvents
        <3>1. e + Recovered \in 1 .. Recovered /\ (e + Recovered) - Recovered = e
            BY <1>3
        <3>2. wal[e + Recovered].event = e
            BY <1>4, <3>1
        <3> QED
            BY <1>4, <3>1, <3>2 DEF WalEvents
    <2>2. ASSUME NEW e \in WalEvents PROVE e \in (1 - Recovered) .. 0
        <3>1. PICK i \in 1 .. Recovered : e = wal[i].event
            BY <1>4 DEF WalEvents
        <3>2. e = i - Recovered
            BY <1>4, <3>1
        <3> QED
            BY <1>3, <3>2
    <2> QED
        BY <2>1, <2>2
<1>8. PartitionOK
    <2>1. ASSUME NEW i \in 1 .. Recovered, NEW j \in 1 .. Recovered, i < j
          PROVE  wal[i].event < wal[j].event
        BY <1>3, <1>4, <2>1
    <2> QED
        BY <1>2, <1>4, <1>5, <1>7, <2>1 DEF PartitionOK
<1>9. OwnedOK
    <2>1. \A i \in 1 .. Recovered : wal[i].event <= 0 <=> i <= Owned
        BY <1>3, <1>4, <1>5
    <2> QED
        BY <1>3, <1>4, <1>5, <2>1 DEF OwnedOK
<1>10. BooksOK
    <2>1. Confirmed = 0 /\ Losses = 0 /\ RestartLosses = 0
        <3>1. confirmed \ RestartOwned = {} /\ lost = {} /\ lost \cap RestartOwned = {}
            BY <1>2
        <3> QED
            BY <3>1, FS_EmptySet DEF Confirmed, Losses, RestartLosses
    <2>2. DueDelivered = 0 /\ DueFailed = 0 /\ DueRecoveryFailed = 0
        BY <1>2, NothingDue DEF Accounting, Counts
    <2>3. pc \notin {"settle", "account"} \union Counts
          /\ pc # "countDelivered" /\ pc # "countFailed"
        BY <1>2 DEF Counts
    <2> QED
        BY <1>3, <1>4, <1>5, <2>1, <2>2, <2>3, BooksAre
<1>11. BudgetOK
    <2>1. Outstanding = Recovered
        BY <1>3, <1>4, <1>5 DEF Outstanding
    <2> QED
        BY <1>2, <1>3, <2>1 DEF BudgetOK
<1> QED
    BY <1>6, <1>8, <1>9, <1>10, <1>11 DEF EventsOK

\* Every step keeps the five layers, each resting on the ones before it.
LEMMA NextEvents ==
    ASSUME EInv, [Next]_vars
    PROVE  EInv'
<1>1. IInv /\ MemoryOK /\ PartitionOK /\ OwnedOK /\ BooksOK /\ BudgetOK
    BY DEF EInv, EventsOK
<1>2. IInv'
    BY <1>1, NextInv
<1>3. MemoryOK'
    BY <1>1, ViewSteps
<1>4. PartitionOK'
    BY <1>1, PartitionNext
<1>5. OwnedOK'
    BY <1>1, OwnedNext
<1>6. BooksOK'
    BY <1>1, BooksNext
<1>7. BudgetOK'
    BY <1>1, BudgetNext
<1> QED
    BY <1>2, <1>3, <1>4, <1>5, <1>6, <1>7 DEF EInv, EventsOK

\* The border between decided and undecided events, what lies on either side of
\* it, and how the counters show it, form an inductive invariant of the batcher.
THEOREM EventsInvariance == Spec => []EInv
<1>1. Init => EInv
    BY InitInv, InitEvents DEF EInv
<1>2. EInv /\ [Next]_vars => EInv'
    BY NextEvents
<1> QED
    BY <1>1, <1>2, PTL DEF Spec

---------------------------------------------------------------------------
(* The theorems *)

\* Chunk, pending and channel are one run: the events without an outcome.
LEMMA InMemoryRun ==
    ASSUME TypeOK, JobOK, MemoryOK
    PROVE  /\ InMemory \in Seq(Int) /\ Run(InMemory, LastDecided)
           /\ Len(InMemory) = LastAccepted - LastDecided
<1>1. /\ events \in Seq(Int) /\ pending \in Seq(Int) /\ chunk \in Seq(Int)
      /\ Len(events) \in Nat /\ Len(pending) \in Nat /\ Len(chunk) \in Nat
      /\ Base \in Int /\ LastDecided \in Int /\ Decided \in 0 .. Len(chunk)
      /\ LastAccepted \in Nat
      /\ LastAccepted = LastDecided + (Len(chunk) - Decided) + Len(pending) + Len(events)
    BY MemoryTypes, DecidedNat
<1>2. /\ Run(chunk, Base) /\ Run(pending, Base + Len(chunk))
      /\ Run(events, Base + Len(chunk) + Len(pending))
      /\ ends = <<>> => chunk = <<>>
    BY DEF MemoryOK
<1>3. Undecided = Suffix(chunk, Decided)
    <2>1. CASE ends = <<>>
        <3>1. chunk = <<>> /\ Decided = 0 /\ Undecided = <<>>
            BY <1>2, <2>1 DEF Decided, Undecided
        <3>2. Suffix(chunk, 0) = <<>>
            BY <3>1 DEF Suffix
        <3> QED
            BY <3>1, <3>2
    <2>2. CASE ends # <<>>
        BY <2>2 DEF Decided, Undecided
    <2> QED
        BY <2>1, <2>2
<1>4. /\ Undecided \in Seq(Int) /\ Len(Undecided) = Len(chunk) - Decided
      /\ Run(Undecided, LastDecided)
    <2>1. Run(Suffix(chunk, Decided), Base + Decided)
        BY <1>1, <1>2, RunSplit
    <2>2. Suffix(chunk, Decided) \in Seq(Int) /\ Len(Suffix(chunk, Decided)) = Len(chunk) - Decided
        BY <1>1, SplitLengths
    <2> QED
        BY <1>3, <2>1, <2>2 DEF LastDecided
<1>5. LastDecided + Len(Undecided) = Base + Len(chunk)
    BY <1>1, <1>4 DEF LastDecided
<1>6. /\ Undecided \o pending \in Seq(Int)
      /\ Len(Undecided \o pending) = (Len(chunk) - Decided) + Len(pending)
      /\ Run(Undecided \o pending, LastDecided)
    <2>1. Run(pending, LastDecided + Len(Undecided))
        BY <1>2, <1>5
    <2>2. Run(Undecided \o pending, LastDecided)
        BY <1>1, <1>4, <2>1, RunConcat
    <2>3. /\ Undecided \o pending \in Seq(Int)
          /\ Len(Undecided \o pending) = Len(Undecided) + Len(pending)
        BY <1>1, <1>4, ConcatLengths
    <2> QED
        BY <1>4, <2>2, <2>3
<1>7. LastDecided + Len(Undecided \o pending) = Base + Len(chunk) + Len(pending)
    <2>1. (LastDecided + (Len(chunk) - Decided)) + Len(pending) = Base + Len(chunk) + Len(pending)
        BY <1>4, <1>5
    <2>2. LastDecided + ((Len(chunk) - Decided) + Len(pending))
            = (LastDecided + (Len(chunk) - Decided)) + Len(pending)
        BY <1>1
    <2> QED
        BY <1>6, <2>1, <2>2
<1>8. InMemory = (Undecided \o pending) \o events
    BY DEF InMemory
<1>9. Run(InMemory, LastDecided)
    <2>1. Run(events, LastDecided + Len(Undecided \o pending))
        BY <1>2, <1>7
    <2> QED
        BY <1>1, <1>6, <1>8, <2>1, RunConcat
<1>10. /\ InMemory \in Seq(Int)
       /\ Len(InMemory) = ((Len(chunk) - Decided) + Len(pending)) + Len(events)
    <2>1. /\ (Undecided \o pending) \o events \in Seq(Int)
          /\ Len((Undecided \o pending) \o events) = Len(Undecided \o pending) + Len(events)
        BY <1>1, <1>6, ConcatLengths
    <2> QED
        BY <1>6, <1>8, <2>1
<1> QED
    BY <1>1, <1>9, <1>10

\* The events that are neither confirmed nor lost: those of the log, and behind
\* them the run in memory.
LEMMA UnresolvedEvents ==
    ASSUME TypeOK, JobOK, MemoryOK, PartitionOK
    PROVE  /\ Unresolved = WalEvents \union ((LastDecided + 1) .. LastAccepted)
           /\ WalEvents \cap ((LastDecided + 1) .. LastAccepted) = {}
           /\ RestartOwned \union Accepted = (1 - Recovered) .. LastAccepted
           /\ confirmed \union lost \subseteq (1 - Recovered) .. LastDecided
<1> DEFINE D == (1 - Recovered) .. LastDecided
           M == (LastDecided + 1) .. LastAccepted
<1>1. /\ LastDecided \in Nat /\ LastAccepted \in Nat /\ LastDecided <= LastAccepted
      /\ Recovered \in Nat
    BY DecidedNat, ConfigAssumption
<1>2. Accepted = 1 .. LastAccepted
    BY DEF Accepted, LastAccepted
<1>3. RestartOwned \union Accepted = (1 - Recovered) .. LastAccepted
    BY <1>1, <1>2 DEF RestartOwned
<1>4. (1 - Recovered) .. LastAccepted = D \union M /\ D \cap M = {}
    BY <1>1
<1>5. /\ confirmed \union lost \union WalEvents = D
      /\ WalEvents \cap (confirmed \union lost) = {}
    BY DEF PartitionOK
<1> HIDE DEF D, M
<1>6. Unresolved = (D \union M) \ (confirmed \union lost)
    BY <1>3, <1>4 DEF Unresolved
<1>7. Unresolved = WalEvents \union M /\ WalEvents \cap M = {}
      /\ confirmed \union lost \subseteq D
    BY <1>4, <1>5, <1>6
<1> QED
    BY <1>3, <1>7 DEF D, M

\* No accepted or recovered event is ever in no place or in two: confirmed, lost,
\* in the log, or in memory on its way there (batcher.go:301-366).
THEOREM NoneVanishes == Spec => []NoEventVanishes
<1>1. EInv => NoEventVanishes
    <2> SUFFICES ASSUME EInv PROVE NoEventVanishes
        OBVIOUS
    <2>1. TypeOK /\ JobOK /\ MemoryOK /\ PartitionOK
        BY DEF EInv, IInv, QueueInv, EventsOK
    <2>2. Unresolved = WalEvents \union ((LastDecided + 1) .. LastAccepted)
        BY <2>1, UnresolvedEvents
    <2>3. /\ InMemory \in Seq(Int) /\ Run(InMemory, LastDecided)
          /\ Len(InMemory) = LastAccepted - LastDecided
        BY <2>1, InMemoryRun
    <2>4. LastDecided \in Nat /\ LastAccepted \in Nat
        BY <2>1, DecidedNat
    <2>5. EventsOf(InMemory) = (LastDecided + 1) .. (LastDecided + Len(InMemory))
        BY <2>3, <2>4, RunEvents
    <2>6. LastDecided + Len(InMemory) = LastAccepted
        BY <2>3, <2>4
    <2>7. confirmed \cap lost = {}
        BY <2>1 DEF PartitionOK
    <2> QED
        BY <2>2, <2>5, <2>6, <2>7 DEF NoEventVanishes
<1> QED
    BY <1>1, EventsInvariance, PTL

\* Log and memory together hold the events in the order of their acceptance, and
\* none twice (doc.go:60-61), through drains, splits, replays and persistence.
THEOREM BacklogInOrder == Spec => []InOrder
<1>1. EInv => InOrder
    <2> SUFFICES ASSUME EInv, NEW i \in 1 .. Len(Backlog), NEW j \in 1 .. Len(Backlog), i < j
                 PROVE  Backlog[i] < Backlog[j]
        BY DEF InOrder
    <2> DEFINE W == [k \in 1 .. Len(wal) |-> wal[k].event]
    <2>1. TypeOK /\ JobOK /\ MemoryOK /\ PartitionOK
        BY DEF EInv, IInv, QueueInv, EventsOK
    <2>2. InMemory \in Seq(Int) /\ Run(InMemory, LastDecided) /\ LastDecided \in Nat
        BY <2>1, InMemoryRun, DecidedNat
    <2>3. wal \in Seq(LogEntries) /\ Len(wal) \in Nat
        BY <2>1 DEF TypeOK
    <2>4. \A k \in 1 .. Len(wal) : wal[k].event \in Int
        <3>1. \A k \in 1 .. Len(wal) : wal[k] \in LogEntries
            BY <2>3
        <3> QED
            BY <3>1 DEF LogEntries
    <2>5. W \in Seq(Int) /\ Len(W) = Len(wal)
        BY <2>3, <2>4
    <2>6. \A k \in 1 .. Len(wal) : W[k] = wal[k].event
        OBVIOUS
    <2> HIDE DEF W
    <2>7. Backlog = W \o InMemory
        BY DEF Backlog, W
    <2>8. /\ Len(Backlog) = Len(wal) + Len(InMemory) /\ Len(InMemory) \in Nat
          /\ \A k \in 1 .. Len(wal) : Backlog[k] = W[k]
          /\ \A k \in 1 .. Len(InMemory) : Backlog[Len(wal) + k] = InMemory[k]
        <3> DEFINE T == InMemory
        <3>1. T \in Seq(Int) /\ Len(T) \in Nat
            BY <2>2
        <3> HIDE DEF T
        <3>2. /\ Len(W \o T) = Len(W) + Len(T)
              /\ \A k \in 1 .. Len(W) : (W \o T)[k] = W[k]
            BY <2>5, <3>1, ConcatElements
        <3>3. ASSUME NEW k \in 1 .. Len(T) PROVE (W \o T)[Len(W) + k] = T[k]
            BY <2>5, <3>1, ConcatElements
        <3> QED
            BY <2>5, <2>7, <3>1, <3>2, <3>3 DEF T
    <2>9. \A k \in 1 .. Len(InMemory) : InMemory[k] = LastDecided + k
        BY <2>2 DEF Run
    <2>10. CASE j <= Len(wal)
        <3>1. i \in 1 .. Len(wal) /\ j \in 1 .. Len(wal)
            BY <2>3, <2>8, <2>10
        <3>2. wal[i].event < wal[j].event
            BY <2>1, <3>1 DEF PartitionOK
        <3> QED
            BY <2>6, <2>8, <3>1, <3>2
    <2>11. CASE ~(j <= Len(wal))
        <3>1. j - Len(wal) \in 1 .. Len(InMemory) /\ Len(wal) + (j - Len(wal)) = j
            BY <2>3, <2>8, <2>11
        <3>2. Backlog[j] = LastDecided + (j - Len(wal))
            BY <2>8, <2>9, <3>1
        <3>3. CASE i <= Len(wal)
            <4>1. i \in 1 .. Len(wal)
                BY <2>3, <2>8, <3>3
            <4>2. wal[i].event \in (1 - Recovered) .. LastDecided
                BY <2>1, <4>1 DEF PartitionOK, WalEvents
            <4>3. Backlog[i] = wal[i].event
                BY <2>6, <2>8, <4>1
            <4> QED
                BY <2>2, <2>4, <3>1, <3>2, <4>1, <4>2, <4>3
        <3>4. CASE ~(i <= Len(wal))
            <4>1. i - Len(wal) \in 1 .. Len(InMemory) /\ Len(wal) + (i - Len(wal)) = i
                BY <2>3, <2>8, <3>4
            <4>2. Backlog[i] = LastDecided + (i - Len(wal))
                BY <2>8, <2>9, <4>1
            <4> QED
                BY <2>2, <2>3, <3>2, <4>2
        <3> QED
            BY <3>3, <3>4
    <2> QED
        BY <2>10, <2>11
<1> QED
    BY <1>1, EventsInvariance, PTL

\* Between two passes of the loop Stats and the shutdown errors count every event
\* exactly once: as delivered, failed, unsent or retained, and as an event of the
\* earlier process or of this one (batcher.go:77-90, 429-463).
THEOREM LedgerCorrect == Spec => []LedgerBalanced
<1>1. EInv => LedgerBalanced
    <2> SUFFICES ASSUME EInv, pc \in {"select", "done"}, track.pc \notin {"send", "count"}
                 PROVE  /\ ctr.delivered = Cardinality(confirmed \ RestartOwned)
                        /\ ctr.failed = Cardinality(lost)
                        /\ ctr.recoveryFailed = Cardinality(lost \cap RestartOwned)
                        /\ ctr.recoveryOwned + ctr.durableCurrent = DurablePending
                        /\ ctr.enqueued = ctr.delivered + (ctr.failed - ctr.recoveryFailed)
                                          + ctr.unsent + ctr.durableCurrent
        BY DEF LedgerBalanced
    <2>1. TypeOK /\ JobOK /\ LogCounted /\ UnsentAccounted /\ MemoryOK /\ PartitionOK /\ BooksOK
        BY DEF EInv, IInv, QueueInv, EventsOK
    <2>2. pc \notin Accounting /\ pc \notin Sends /\ pc \notin Counts
        BY DEF Accounting, Counts, Sends
    <2>3. ends = <<>> /\ chunk = <<>> /\ Decided = 0 /\ Unsettled = 0
        BY <2>1, <2>2 DEF JobOK, MemoryOK, Decided, Unsettled
    <2>4. InTransit = 0 /\ Owned = ctr.recoveryOwned
        <3>1. InTransit = 0
            BY <2>2 DEF InTransit, Accounting, Counts
        <3>2. Owned = ctr.recoveryOwned - 0
            BY <2>2 DEF Owned
        <3> QED
            BY <2>1, <3>1, <3>2, OwnedTypes
    <2>5. /\ ctr.delivered \in Int /\ ctr.failed \in Int /\ ctr.recoveryFailed \in Int
          /\ ctr.recoveryOwned \in Int /\ ctr.durableCurrent \in Int /\ Len(wal) \in Nat
          /\ LastDecided \in Nat /\ LastAccepted \in Nat /\ ctr.unsent \in Int
          /\ Len(events) \in Nat /\ Len(pending) \in Nat
          /\ Confirmed \in Nat /\ Losses \in Nat /\ RestartLosses \in Nat
        <3>1. Confirmed \in Nat /\ Losses \in Nat /\ RestartLosses \in Nat
            BY <2>1, HistoryFinite DEF Confirmed, Losses, RestartLosses
        <3> QED
            BY <2>1, <3>1, OwnedTypes, BudgetTypes, MemoryTypes
    <2>6. DueDelivered = 0 /\ DueFailed = 0 /\ DueRecoveryFailed = 0
        BY <2>2, NothingDue
    <2>7. /\ ctr.delivered = Confirmed /\ ctr.failed = Losses
          /\ ctr.recoveryFailed = RestartLosses
          /\ LastDecided = Confirmed + Losses - RestartLosses + Len(wal) - ctr.recoveryOwned
        BY <2>1, <2>4, <2>5, <2>6, BooksAre
    <2>8. ctr.recoveryOwned + ctr.durableCurrent = Len(wal)
        <3>1. ctr.recoveryOwned + ctr.durableCurrent = Len(wal) + InTransit
            BY <2>1 DEF LogCounted
        <3> QED
            BY <2>4, <2>5, <3>1
    <2>9. LastAccepted = ctr.enqueued
        <3>1. ctr.enqueued \in Int
            BY <2>1, CounterTypes DEF TypeOK
        <3> QED
            BY <3>1 DEF LastAccepted
    <2>10. LastAccepted = LastDecided + Len(pending) + Len(events)
        <3>1. LastAccepted = LastDecided + (Len(chunk) - Decided) + Len(pending) + Len(events)
            BY <2>1, DecidedNat
        <3> QED
            BY <2>3, <2>5, <3>1
    <2>11. ctr.unsent = Len(events) + Len(pending)
        <3>1. ctr.unsent = Len(events) + Len(pending) + Unsettled + 0
            BY <2>1 DEF UnsentAccounted
        <3> QED
            BY <2>3, <2>5, <3>1
    <2>12. LastAccepted = ctr.delivered + (ctr.failed - ctr.recoveryFailed)
                          + ctr.unsent + ctr.durableCurrent
        <3>1. LastAccepted = LastDecided + ctr.unsent
            BY <2>5, <2>10, <2>11
        <3>2. LastDecided = Confirmed + Losses - RestartLosses + ctr.durableCurrent
            BY <2>5, <2>7, <2>8
        <3>3. LastAccepted = Confirmed + (Losses - RestartLosses) + ctr.unsent
                             + ctr.durableCurrent
            BY <2>5, <3>1, <3>2
        <3> QED
            BY <2>7, <3>3
    <2> QED
        BY <2>7, <2>8, <2>9, <2>12 DEF Confirmed, Losses, RestartLosses, DurablePending
<1> QED
    BY <1>1, EventsInvariance, PTL

\* Unresolved events are counted by Outstanding.
LEMMA UnresolvedCount ==
    ASSUME TypeOK, JobOK, MemoryOK, PartitionOK
    PROVE  IsFiniteSet(Unresolved) /\ Cardinality(Unresolved) = Outstanding
<1> DEFINE M == (LastDecided + 1) .. LastAccepted
<1>1. /\ LastDecided \in Nat /\ LastAccepted \in Nat /\ LastDecided <= LastAccepted
      /\ Len(wal) \in Nat
    BY BudgetTypes
<1>2. Unresolved = WalEvents \union M /\ WalEvents \cap M = {}
    BY UnresolvedEvents
<1>3. IsFiniteSet(M) /\ Cardinality(M) = LastAccepted - LastDecided
    <2>1. LastDecided + 1 \in Int /\ LastAccepted \in Int
        BY <1>1
    <2>2. /\ IsFiniteSet(M)
          /\ Cardinality(M) = IF LastDecided + 1 > LastAccepted THEN 0
                              ELSE LastAccepted - (LastDecided + 1) + 1
        BY <2>1, FS_Interval
    <2> HIDE DEF M
    <2>3. CASE LastDecided + 1 > LastAccepted
        BY <1>1, <2>2, <2>3
    <2>4. CASE ~(LastDecided + 1 > LastAccepted)
        BY <1>1, <2>2, <2>4
    <2> QED
        BY <2>3, <2>4
<1>4. IsFiniteSet(WalEvents) /\ Cardinality(WalEvents) = Len(wal)
    <2>1. Len(wal) \in 0 .. Len(wal)
        BY <1>1
    <2>2. WalEvents = HeadEvents(Len(wal))
        BY DEF WalEvents, HeadEvents
    <2> QED
        BY <2>1, <2>2, HeadCard
<1> HIDE DEF M
<1>5. /\ IsFiniteSet(WalEvents \union M)
      /\ Cardinality(WalEvents \union M) = Cardinality(WalEvents) + Cardinality(M)
    BY <1>2, <1>3, <1>4, DisjointCard
<1>6. Len(wal) + (LastAccepted - LastDecided) = Outstanding
    BY <1>1 DEF Outstanding
<1> QED
    BY <1>2, <1>3, <1>4, <1>5, <1>6

\* However the torn loads of enqueue interleave with the loop
\* (batcher.go:136-143 against 527-530), at most one batch too much is admitted.
THEOREM OvershootIsBounded == Spec => []OvershootBounded
<1>1. EInv => OvershootBounded
    <2> SUFFICES ASSUME EInv PROVE Cardinality(Unresolved) <= QueueLimit + FlushSize
        BY DEF OvershootBounded
    <2>1. TypeOK /\ JobOK /\ MemoryOK /\ PartitionOK /\ BudgetOK
        BY DEF EInv, IInv, QueueInv, EventsOK
    <2>2. Cardinality(Unresolved) = Outstanding
        BY <2>1, UnresolvedCount
    <2>3. Outstanding \in Nat /\ QueueLimit \in Nat /\ FlushSize \in Nat
        BY <2>1, BudgetTypes
    <2>4. Outstanding <= QueueLimit + FlushSize
                         - (IF track.pc \in {"cas", "send"} THEN 1 ELSE 0)
        BY <2>1 DEF BudgetOK
    <2> QED
        BY <2>2, <2>3, <2>4
<1> QED
    BY <1>1, EventsInvariance, PTL

=============================================================================
