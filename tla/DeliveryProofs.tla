--------------------------- MODULE DeliveryProofs ---------------------------
(***************************************************************************)
(* Theorems about Delivery, for every flush size, split limit, set of      *)
(* poisoned events, and number of events and processes.                    *)
(***************************************************************************)
EXTENDS DeliveryProperties, SequenceLemmas, TLAPS

---------------------------------------------------------------------------
(* Batches and logs *)

\* What is cut from the front of a queue is a batch.
LEMMA ChunkFacts ==
    ASSUME NEW q \in Seq(Events), NEW n \in 1 .. Len(q), n <= FlushSize
    PROVE  /\ IsBatch(SubSeq(q, 1, n))
           /\ SubSeq(q, n + 1, Len(q)) \in Seq(Events)
           /\ Len(SubSeq(q, n + 1, Len(q))) = Len(q) - n
<1>1. /\ SubSeq(q, 1, n) \in Seq(Events) /\ Len(SubSeq(q, 1, n)) = n
      /\ SubSeq(q, n + 1, Len(q)) \in Seq(Events)
      /\ Len(SubSeq(q, n + 1, Len(q))) = Len(q) - n
    BY CutFacts
<1> QED
    BY <1>1 DEF IsBatch

\* Both halves of a batch of several events are batches.
LEMMA HalvesFacts ==
    ASSUME NEW s, IsBatch(s), Len(s) > 1
    PROVE  /\ Mid(Len(s)) \in 1 .. Len(s) - 1
           /\ IsBatch(SubSeq(s, 1, Mid(Len(s))))
           /\ IsBatch(SubSeq(s, Mid(Len(s)) + 1, Len(s)))
<1>1. s \in Seq(Events) /\ Len(s) \in Nat /\ Len(s) <= FlushSize /\ FlushSize \in Nat
    BY DeliveryAssumption DEF IsBatch
<1>2. \A n \in Nat : n > 1 => n \div 2 \in 1 .. n - 1
    OBVIOUS
<1>3. Mid(Len(s)) \in 1 .. Len(s) - 1
    BY <1>1, <1>2 DEF Mid
<1> DEFINE m == Mid(Len(s))
           a == SubSeq(s, 1, m)
           b == SubSeq(s, m + 1, Len(s))
<1> HIDE DEF m
<1>4. /\ a \in Seq(Events) /\ Len(a) = m
      /\ b \in Seq(Events) /\ Len(b) = Len(s) - m /\ m \in 1 .. Len(s) - 1
    BY <1>1, <1>3, CutFacts DEF m
<1> HIDE DEF a, b
<1>5. IsBatch(a)
    <2>1. Len(a) > 0 /\ Len(a) <= FlushSize
        BY <1>1, <1>4
    <2> QED
        BY <1>4, <2>1 DEF IsBatch
<1>6. IsBatch(b)
    <2>1. Len(b) > 0 /\ Len(b) <= FlushSize
        BY <1>1, <1>4
    <2> QED
        BY <1>4, <2>1 DEF IsBatch
<1> QED
    BY <1>3, <1>5, <1>6 DEF a, b, m

\* The operations of the log keep it a log.
LEMMA LogFacts ==
    /\ IsLog(<<>>)
    /\ \A s : IsLog(s) => \A r \in Records : IsBatch(r.events) => IsLog(Append(s, r))
    /\ \A s : IsLog(s) => \A i \in 1 .. Len(s) : IsLog(RemoveAt(s, i))
    /\ \A s : IsLog(s) /\ s # <<>> =>
          IsLog(Tail(s)) /\ Head(s) \in Records /\ IsBatch(Head(s).events)
<1>1. IsLog(<<>>)
    BY DEF IsLog
<1>2. ASSUME NEW s, IsLog(s), NEW r \in Records, IsBatch(r.events)
      PROVE  IsLog(Append(s, r))
    <2>1. s \in Seq(Records) /\ Len(s) \in Nat
        BY <1>2 DEF IsLog
    <2>2. /\ Append(s, r) \in Seq(Records) /\ Len(Append(s, r)) = Len(s) + 1
          /\ Append(s, r)[Len(s) + 1] = r
          /\ \A k \in 1 .. Len(s) : Append(s, r)[k] = s[k]
        BY <2>1, AppendFacts
    <2> QED
        BY <1>2, <2>1, <2>2 DEF IsLog
<1>3. ASSUME NEW s, IsLog(s), NEW i \in 1 .. Len(s)
      PROVE  IsLog(RemoveAt(s, i))
    <2>1. s \in Seq(Records) /\ Len(s) \in Nat
        BY <1>3 DEF IsLog
    <2>2. /\ RemoveAt(s, i) \in Seq(Records) /\ Len(RemoveAt(s, i)) = Len(s) - 1
          /\ \A k \in 1 .. Len(s) - 1 :
                RemoveAt(s, i)[k] = IF k < i THEN s[k] ELSE s[k + 1]
        BY <2>1, RemoveFacts
    <2> QED
        BY <1>3, <2>1, <2>2 DEF IsLog
<1>4. ASSUME NEW s, IsLog(s), s # <<>>
      PROVE  IsLog(Tail(s)) /\ Head(s) \in Records /\ IsBatch(Head(s).events)
    <2>1. s \in Seq(Records) /\ Len(s) \in Nat
        BY <1>4 DEF IsLog
    <2>2. /\ Head(s) \in Records /\ Tail(s) \in Seq(Records) /\ Len(Tail(s)) = Len(s) - 1
          /\ Len(s) > 0 /\ Head(s) = s[1]
          /\ \A k \in 1 .. Len(s) - 1 : Tail(s)[k] = s[k + 1]
        BY <1>4, <2>1, TailFacts
    <2> QED
        BY <1>4, <2>1, <2>2 DEF IsLog
<1> QED
    BY <1>1, <1>2, <1>3, <1>4

---------------------------------------------------------------------------
(* Types *)

\* The initial states have the types of DeliveryTypeOK.
LEMMA TypeInit == DeliveryInit => DeliveryTypeOK
<1> SUFFICES ASSUME DeliveryInit PROVE DeliveryTypeOK
    OBVIOUS
<1>1. IsLog(<<>>)
    BY LogFacts
<1>2. /\ NoPass \in [kind : {"none", "size", "flush", "finish"}, first : Nat, left : Nat]
      /\ NoPass.left = 0
      /\ NoRec \in [id : Nat, events : Seq(Events), from : {"none", "put", "log"},
                     answer : {"none", "accepted", "400", "4xx"}]
      /\ NoRec.from = "none"
    BY DEF NoPass, NoRec
<1>3. /\ log = <<>> /\ versions = {<<>>}
    BY DEF DeliveryInit, Log!LogInit
<1>4. /\ queue = <<>> /\ pass = NoPass /\ todo = <<>> /\ pieces = <<>> /\ rec = NoRec
      /\ up = TRUE /\ stopping = FALSE /\ step = "idle" /\ sends = 0
    BY DEF DeliveryInit
<1>5. /\ queue \in Seq(Events) /\ pass.left <= Len(queue)
      /\ IsLog(todo) /\ IsLog(log) /\ \A v \in versions : IsLog(v)
      /\ pieces \in Seq(Seq(Events)) /\ \A i \in 1 .. Len(pieces) : IsBatch(pieces[i])
    BY <1>1, <1>2, <1>3, <1>4
<1>6. /\ sends \in 0 .. MaxSends /\ made \in 0 .. MaxEvents /\ old \in 0 .. made
      /\ ids \in Nat /\ runs \in 1 .. MaxRuns
      /\ accepted = {} /\ promised = {} /\ lost = {}
    BY DeliveryAssumption DEF DeliveryInit
<1> QED
    BY <1>2, <1>4, <1>5, <1>6 DEF DeliveryTypeOK

\* Steps of the application.
LEMMA TypeApplication == DeliveryTypeOK /\ Application => DeliveryTypeOK'
<1> SUFFICES ASSUME DeliveryTypeOK, Application PROVE DeliveryTypeOK'
    OBVIOUS
<1>1. CASE Enqueue
    <2>1. made + 1 \in Events /\ queue \in Seq(Events) /\ made' = made + 1
          /\ queue' = Append(queue, made + 1)
        BY <1>1, DeliveryAssumption DEF Enqueue, DeliveryTypeOK, Events
    <2>2. queue' \in Seq(Events) /\ Len(queue') = Len(queue) + 1
        BY <2>1, AppendFacts
    <2>3. pass.left \in Nat /\ pass.left <= Len(queue) /\ Len(queue) \in Nat /\ pass' = pass
        BY <1>1, <2>1 DEF Enqueue, DeliveryTypeOK
    <2>4. pass'.left <= Len(queue')
        BY <2>2, <2>3
    <2>5. made' \in 0 .. MaxEvents /\ old' \in 0 .. made'
        BY <1>1, DeliveryAssumption DEF Enqueue, DeliveryTypeOK
    <2> QED
        BY <1>1, <2>2, <2>4, <2>5 DEF Enqueue, DeliveryTypeOK, file, history
<1>2. CASE Stop
    BY <1>2 DEF Stop, DeliveryTypeOK, file, history, bounds
<1> QED
    BY <1>1, <1>2 DEF Application

\* Steps of a pass that send nothing.
LEMMA TypePass ==
    ASSUME DeliveryTypeOK, PassOK,
           BeginPass \/ Recovered \/ Replay \/ Defer \/ EndPass \/ PersistDone
    PROVE  DeliveryTypeOK'
<1>1. CASE BeginPass
    <2>1. /\ pass' \in [kind : {"none", "size", "flush", "finish"}, first : Nat, left : Nat]
          /\ pass'.left = 0
        BY <1>1 DEF BeginPass, DeliveryTypeOK
    <2>2. Len(queue) \in Nat
        BY DEF DeliveryTypeOK
    <2> QED
        BY <1>1, <2>1, <2>2 DEF BeginPass, DeliveryTypeOK, file, history, bounds
<1>2. CASE Recovered
    <2>1. /\ pass \in [kind : {"none", "size", "flush", "finish"}, first : Nat, left : Nat]
          /\ queue \in Seq(Events) /\ Len(queue) \in Nat /\ FlushSize \in Nat
        BY DeliveryAssumption DEF DeliveryTypeOK
    <2>2. /\ pass' \in [kind : {"none", "size", "flush", "finish"}, first : Nat, left : Nat]
          /\ pass'.left <= Len(queue)
        BY <1>2, <2>1 DEF Recovered, Recovering, PassOK
    <2> QED
        BY <1>2, <2>1, <2>2 DEF Recovered, DeliveryTypeOK, file, history, bounds
<1>3. CASE Replay
    <2>1. IsLog(Tail(todo)) /\ Head(todo) \in Records /\ IsBatch(Head(todo).events)
        BY <1>3, LogFacts DEF Replay, DeliveryTypeOK
    <2>2. /\ rec' \in [id : Nat, events : Seq(Events), from : {"none", "put", "log"},
                        answer : {"none", "accepted", "400", "4xx"}]
          /\ rec'.from = "log" /\ rec'.events = Head(todo).events
        BY <1>3, <2>1 DEF Replay, FromLog, Records
    <2> QED
        BY <1>3, <2>1, <2>2 DEF Replay, DeliveryTypeOK, file, history, bounds
<1>4. CASE Defer
    BY <1>4, LogFacts DEF Defer, Blocked, AfterBlock, DeliveryTypeOK, file, history, bounds
<1>5. CASE EndPass
    <2>1. Len(queue) \in Nat /\ MaxSends \in Nat
        BY DeliveryAssumption DEF DeliveryTypeOK
    <2> QED
        BY <1>5, <2>1 DEF EndPass, NoPass, DeliveryTypeOK, file, history, bounds
<1>6. CASE PersistDone
    <2>1. Len(queue) \in Nat
        BY DEF DeliveryTypeOK
    <2> QED
        BY <1>6, <2>1 DEF PersistDone, NoPass, DeliveryTypeOK, file, history, bounds
<1> QED
    BY <1>1, <1>2, <1>3, <1>4, <1>5, <1>6

\* How much of the queue is taken at a time.
LEMMA SmallerFacts ==
    ASSUME NEW n \in Nat, n > 0
    PROVE  Smaller(FlushSize, n) \in 1 .. n /\ Smaller(FlushSize, n) <= FlushSize
BY DeliveryAssumption DEF Smaller

\* A put leaves a log, and names a record of its own.
LEMMA PutTypes ==
    ASSUME DeliveryTypeOK, NEW events, IsBatch(events),
           NEW outcome \in {"nil", "warned", "failed"}, Put(events, outcome)
    PROVE  /\ IsLog(log') /\ \A v \in versions' : IsLog(v)
           /\ ids' = ids + 1 /\ ids' \in Nat
           /\ promised' \subseteq Events /\ lost' \subseteq Events \X Causes
<1>1. ids \in Nat /\ ids' = ids + 1
    BY DEF Put, DeliveryTypeOK
<1>2. events \in Seq(Events) /\ ToSet(events) \subseteq Events
    BY ElementFacts DEF IsBatch
<1>3. [id |-> ids', events |-> events] \in Records
    BY <1>1, <1>2 DEF Records
<1>4. IsLog(log) /\ IsLog(Append(log, [id |-> ids', events |-> events]))
    BY <1>3, LogFacts DEF DeliveryTypeOK
<1>5. IsLog(log')
    BY <1>4 DEF Put, Log!AppendRecord
<1>6. \A v \in versions' : v \in versions \/ v = log'
    <2>1. CASE outcome = "nil"
        BY <2>1 DEF Put, Log!Synced
    <2>2. CASE outcome = "warned"
        BY <2>2 DEF Put, Log!Exposed
    <2>3. CASE outcome = "failed"
        BY <2>3 DEF Put
    <2> QED
        BY <2>1, <2>2, <2>3
<1>7. \A v \in versions' : IsLog(v)
    BY <1>5, <1>6 DEF DeliveryTypeOK
<1>8. promised' \subseteq Events /\ lost' \subseteq Events \X Causes
    BY <1>2 DEF Put, Lost, Causes, DeliveryTypeOK
<1> QED
    BY <1>1, <1>5, <1>7, <1>8

\* What is in front of the pieces is a batch, and so are the others.
LEMMA PiecesFacts ==
    ASSUME DeliveryTypeOK, pieces # <<>>
    PROVE  /\ IsBatch(Head(pieces)) /\ Tail(pieces) \in Seq(Seq(Events))
           /\ Len(Tail(pieces)) = Len(pieces) - 1 /\ Len(pieces) \in Nat
           /\ \A k \in 1 .. Len(pieces) - 1 : Tail(pieces)[k] = pieces[k + 1]
           /\ \A i \in 1 .. Len(Tail(pieces)) : IsBatch(Tail(pieces)[i])
           /\ Head(pieces) = pieces[1] /\ Len(pieces) > 0
<1>1. /\ Len(Tail(pieces)) = Len(pieces) - 1 /\ Len(pieces) \in Nat /\ Len(pieces) > 0
      /\ Head(pieces) = pieces[1] /\ Tail(pieces) \in Seq(Seq(Events))
      /\ \A k \in 1 .. Len(pieces) - 1 : Tail(pieces)[k] = pieces[k + 1]
    BY TailFacts DEF DeliveryTypeOK
<1>2. \A i \in 1 .. Len(pieces) : IsBatch(pieces[i])
    BY DEF DeliveryTypeOK
<1> QED
    BY <1>1, <1>2

\* Steps of a pass that take events from the queue or put them into the log.
LEMMA TypeSend ==
    ASSUME DeliveryTypeOK, PassOK,
           TakeChunk \/ PutPiece \/ SplitLimit \/ PersistChunk
    PROVE  DeliveryTypeOK'
<1>1. CASE TakeChunk
    <2> DEFINE size == Smaller(FlushSize, pass.left)
    <2>1. /\ queue \in Seq(Events) /\ Len(queue) \in Nat /\ pass.left <= Len(queue)
          /\ pass.left \in Nat /\ pass.left > 0
        BY <1>1 DEF TakeChunk, DeliveryTypeOK
    <2>2. size \in 1 .. pass.left /\ size <= FlushSize
        BY <2>1, SmallerFacts
    <2>3. /\ pieces' = <<Chunk(size)>> /\ queue' = Rest(size)
          /\ pass' = [pass EXCEPT !.left = @ - size]
        BY <1>1 DEF TakeChunk
    <2> HIDE DEF size
    <2>4. size \in 1 .. Len(queue)
        BY <2>1, <2>2
    <2>5. IsBatch(Chunk(size)) /\ queue' \in Seq(Events) /\ Len(queue') = Len(queue) - size
        BY <2>1, <2>2, <2>3, <2>4, ChunkFacts DEF Chunk, Rest
    <2>6. pass.left - size \in Nat /\ pass.left - size <= Len(queue')
        BY <2>1, <2>2, <2>5
    <2>7. /\ pass' \in [kind : {"none", "size", "flush", "finish"}, first : Nat, left : Nat]
          /\ pass'.left <= Len(queue')
        BY <2>3, <2>6 DEF DeliveryTypeOK
    <2>8. pieces' \in Seq(Seq(Events)) /\ \A i \in 1 .. Len(pieces') : IsBatch(pieces'[i])
        BY <2>3, <2>5 DEF IsBatch
    <2>9. sends' \in 0 .. MaxSends
        BY <1>1, DeliveryAssumption DEF TakeChunk
    <2> QED
        BY <1>1, <2>5, <2>7, <2>8, <2>9 DEF TakeChunk, DeliveryTypeOK, file, history, bounds
<1>2. CASE PutPiece
    <2>1. IsBatch(Head(pieces)) /\ Head(pieces) \in Seq(Events)
        BY <1>2, PiecesFacts DEF PutPiece, IsBatch
    <2>2. PICK outcome \in {"nil", "warned", "failed"} :
              /\ Put(Head(pieces), outcome)
              /\ rec' = IF outcome = "nil"
                        THEN [id |-> ids', events |-> Head(pieces), from |-> "put",
                              answer |-> "none"]
                        ELSE NoRec
        BY <1>2 DEF PutPiece
    <2>3. /\ ids' \in Nat /\ IsLog(log')
          /\ \A v \in versions' : IsLog(v)
          /\ promised' \subseteq Events /\ lost' \subseteq Events \X Causes
        BY <2>1, <2>2, PutTypes
    <2>4. UNCHANGED <<made, runs, old, accepted>>
        BY <2>2 DEF Put
    <2>5. /\ rec' \in [id : Nat, events : Seq(Events), from : {"none", "put", "log"},
                        answer : {"none", "accepted", "400", "4xx"}]
          /\ IF rec'.from = "none" THEN rec' = NoRec ELSE IsBatch(rec'.events)
        <3>1. CASE outcome = "nil"
            BY <2>1, <2>2, <2>3, <3>1
        <3>2. CASE outcome # "nil"
            BY <2>2, <3>2 DEF NoRec
        <3> QED
            BY <3>1, <3>2
    <2>6. /\ pieces' = Tail(pieces) /\ pieces' \in Seq(Seq(Events))
          /\ \A i \in 1 .. Len(pieces') : IsBatch(pieces'[i])
        BY <1>2, PiecesFacts DEF PutPiece
    <2>7. sends' \in 0 .. MaxSends
        BY <1>2, DeliveryAssumption DEF PutPiece, DeliveryTypeOK
    <2>8. UNCHANGED <<up, stopping, queue, pass, step, todo>>
        BY <1>2 DEF PutPiece
    <2> QED
        BY <2>3, <2>4, <2>5, <2>6, <2>7, <2>8 DEF DeliveryTypeOK
<1>3. CASE SplitLimit
    <2>1. ToSet(Head(pieces)) \subseteq Events
        BY <1>3, PiecesFacts, ElementFacts DEF SplitLimit, IsBatch
    <2>2. lost' \subseteq Events \X Causes
        BY <1>3, <2>1 DEF SplitLimit, Lost, Causes, DeliveryTypeOK
    <2>3. /\ pieces' = Tail(pieces) /\ pieces' \in Seq(Seq(Events))
          /\ \A i \in 1 .. Len(pieces') : IsBatch(pieces'[i])
        BY <1>3, PiecesFacts DEF SplitLimit
    <2> QED
        BY <1>3, <2>2, <2>3 DEF SplitLimit, DeliveryTypeOK, file, bounds
<1>4. CASE PersistChunk
    <2> DEFINE size == Smaller(FlushSize, Len(queue))
    <2>1. queue \in Seq(Events) /\ Len(queue) \in Nat /\ Len(queue) > 0
        BY <1>4 DEF PersistChunk, DeliveryTypeOK
    <2>2. size \in 1 .. Len(queue) /\ size <= FlushSize
        BY <2>1, SmallerFacts
    <2>3. /\ queue' = Rest(size)
          /\ \E outcome \in {"nil", "warned", "failed"} : Put(Chunk(size), outcome)
        BY <1>4 DEF PersistChunk
    <2> HIDE DEF size
    <2>4. IsBatch(Chunk(size)) /\ queue' \in Seq(Events) /\ Len(queue') = Len(queue) - size
        BY <2>1, <2>2, <2>3, ChunkFacts DEF Chunk, Rest
    <2>5. PICK outcome \in {"nil", "warned", "failed"} : Put(Chunk(size), outcome)
        BY <2>3
    <2>6. /\ ids' \in Nat /\ IsLog(log')
          /\ \A v \in versions' : IsLog(v)
          /\ promised' \subseteq Events /\ lost' \subseteq Events \X Causes
        BY <2>4, <2>5, PutTypes
    <2>7. UNCHANGED <<made, runs, old, accepted>>
        BY <2>5 DEF Put
    <2>8. pass.left = 0 /\ pass.left <= Len(queue')
        BY <1>4, <2>1, <2>2, <2>4 DEF PersistChunk, PassOK
    <2>9. UNCHANGED <<up, stopping, pass, step, todo, pieces, sends, rec>>
        BY <1>4 DEF PersistChunk
    <2> QED
        BY <2>4, <2>6, <2>7, <2>8, <2>9 DEF DeliveryTypeOK
<1> QED
    BY <1>1, <1>2, <1>3, <1>4

\* After a record the pass goes on, or a recovery is blocked.
LEMMA GoesOn ==
    ASSUME Continue \/ BlockedIfFromLog
    PROVE  \/ step' = step /\ todo' = todo
           \/ rec.from = "log" /\ todo' = <<>> /\ step' \in {"persist", "idle"}
BY DEF Continue, BlockedIfFromLog, Blocked, AfterBlock

\* What follows a record has the types of DeliveryTypeOK.
LEMMA GoesOnTypes ==
    ASSUME DeliveryTypeOK, Continue \/ BlockedIfFromLog
    PROVE  step' \in {"idle", "recover", "send", "persist", "done"} /\ IsLog(todo')
<1>1. IsLog(<<>>)
    BY LogFacts
<1> QED
    BY <1>1, GoesOn DEF DeliveryTypeOK

\* An acknowledgement takes one record with the id of rec out of the log.
LEMMA AcknowledgedFacts ==
    ASSUME DeliveryTypeOK, NEW synced \in BOOLEAN, Acknowledged(synced)
    PROVE  /\ \E i \in 1 .. Len(log) : log[i].id = rec.id /\ log' = RemoveAt(log, i)
           /\ IsLog(log') /\ log' \in versions'
           /\ \A v \in versions' : IsLog(v)
           /\ \A v \in versions' : v \in versions \/ v = log'
           /\ rec' = NoRec
           /\ UNCHANGED <<up, stopping, queue, pass, sends, bounds, accepted>>
<1>1. PICK i \in 1 .. Len(log) : log[i].id = rec.id /\ log' = RemoveAt(log, i)
    BY DEF Acknowledged, Removes, Log!RemoveRecord, Log!RemoveAt, RemoveAt
<1>2. IsLog(log')
    BY <1>1, LogFacts DEF DeliveryTypeOK
<1>3. /\ log' \in versions'
      /\ \A v \in versions' : v \in versions \/ v = log'
    BY DEF Acknowledged, Log!Synced, Log!Exposed
<1>4. \A v \in versions' : IsLog(v)
    BY <1>2, <1>3 DEF DeliveryTypeOK
<1> QED
    BY <1>1, <1>2, <1>3, <1>4 DEF Acknowledged

\* The answers of the endpoint have the types of DeliveryTypeOK.
LEMMA TypeAnswer ==
    ASSUME DeliveryTypeOK, Arrive \/ Accept \/ Refuse
    PROVE  DeliveryTypeOK'
<1>1. ToSet(rec.events) \subseteq Events /\ rec.id \in Nat
    BY ElementFacts DEF DeliveryTypeOK
<1>2. Arrived => accepted' \subseteq Events \X Nat
    BY <1>1 DEF Arrived, DeliveryTypeOK
<1>3. CASE Arrive
    BY <1>2, <1>3 DEF Arrive, DeliveryTypeOK, memory, file, bounds
<1>4. ASSUME rec.from # "none",
             NEW answer \in {"accepted", "400", "4xx"}, rec' = [rec EXCEPT !.answer = answer]
      PROVE  /\ rec' \in [id : Nat, events : Seq(Events), from : {"none", "put", "log"},
                          answer : {"none", "accepted", "400", "4xx"}]
             /\ IF rec'.from = "none" THEN rec' = NoRec ELSE IsBatch(rec'.events)
    BY <1>4 DEF DeliveryTypeOK
<1>5. CASE Accept
    <2>1. /\ rec' \in [id : Nat, events : Seq(Events), from : {"none", "put", "log"},
                        answer : {"none", "accepted", "400", "4xx"}]
          /\ IF rec'.from = "none" THEN rec' = NoRec ELSE IsBatch(rec'.events)
        BY <1>4, <1>5 DEF Accept, Posting
    <2> QED
        BY <1>2, <1>5, <2>1 DEF Accept, DeliveryTypeOK, file, bounds
<1>6. CASE Refuse
    <2>1. /\ rec' \in [id : Nat, events : Seq(Events), from : {"none", "put", "log"},
                        answer : {"none", "accepted", "400", "4xx"}]
          /\ IF rec'.from = "none" THEN rec' = NoRec ELSE IsBatch(rec'.events)
        BY <1>4, <1>6 DEF Refuse, Posting
    <2> QED
        BY <1>6, <2>1 DEF Refuse, DeliveryTypeOK, file, bounds, history
<1> QED
    BY <1>3, <1>5, <1>6

\* So have the steps after an answer.
LEMMA TypeResolve ==
    ASSUME DeliveryTypeOK, NEW synced \in BOOLEAN,
           Resolve(synced) \/ GiveUp \/ AcknowledgeFails
    PROVE  DeliveryTypeOK'
<1>1. /\ NoRec \in [id : Nat, events : Seq(Events), from : {"none", "put", "log"},
                     answer : {"none", "accepted", "400", "4xx"}]
      /\ NoRec.from = "none"
    BY DEF NoRec
<1>2. CASE Confirm(synced)
    <2>1. Acknowledged(synced) /\ (Continue \/ BlockedIfFromLog)
        BY <1>2 DEF Confirm
    <2>2. UNCHANGED <<pieces, promised, lost>>
        BY <1>2 DEF Confirm
    <2> QED
        BY <1>1, <2>1, <2>2, AcknowledgedFacts, GoesOnTypes DEF DeliveryTypeOK, bounds
<1>3. CASE Isolate(synced)
    <2>1. Acknowledged(synced) /\ Continue
        BY <1>3 DEF Isolate
    <2> DEFINE a == SubSeq(rec.events, 1, Mid(Len(rec.events)))
               b == SubSeq(rec.events, Mid(Len(rec.events)) + 1, Len(rec.events))
    <2>2. IsBatch(rec.events) /\ Len(rec.events) > 1
        BY <1>3 DEF Isolate, Splits, DeliveryTypeOK
    <2>3. IsBatch(a) /\ IsBatch(b) /\ pieces' = <<a, b>> \o pieces
        BY <1>3, <2>2, HalvesFacts DEF Isolate
    <2> HIDE DEF a, b
    <2>4. a \in Seq(Events) /\ b \in Seq(Events)
        BY <2>3 DEF IsBatch
    <2>5. /\ pieces' \in Seq(Seq(Events))
          /\ \A i \in 1 .. Len(pieces') : IsBatch(pieces'[i])
        <3>1. pieces \in Seq(Seq(Events)) /\ \A i \in 1 .. Len(pieces) : IsBatch(pieces[i])
            BY DEF DeliveryTypeOK
        <3>2. /\ pieces' \in Seq(Seq(Events)) /\ Len(pieces') = Len(pieces) + 2
              /\ pieces'[1] = a /\ pieces'[2] = b
              /\ \A k \in 1 .. Len(pieces) + 2 :
                    k = 1 \/ k = 2 \/ (k - 2 \in 1 .. Len(pieces) /\ pieces'[k] = pieces[k - 2])
            BY <2>3, <2>4, <3>1, PairFacts
        <3> QED
            BY <2>3, <3>1, <3>2
    <2>6. promised' \subseteq Events /\ lost' = lost
        BY <1>3 DEF Isolate, DeliveryTypeOK
    <2> QED
        BY <1>1, <2>1, <2>5, <2>6, AcknowledgedFacts, GoesOnTypes DEF DeliveryTypeOK, bounds
<1>4. CASE Discard(synced)
    <2>1. Acknowledged(synced) /\ Continue
        BY <1>4 DEF Discard
    <2>2. UNCHANGED <<pieces, promised>>
        BY <1>4 DEF Discard
    <2>3. ToSet(rec.events) \subseteq Events
        BY ElementFacts DEF DeliveryTypeOK
    <2>4. lost' \subseteq Events \X Causes
        BY <1>4, <2>3 DEF Discard, Lost, Causes, DeliveryTypeOK
    <2> QED
        BY <1>1, <2>1, <2>2, <2>4, AcknowledgedFacts, GoesOnTypes DEF DeliveryTypeOK, bounds
<1>5. CASE GiveUp
    <2>1. IsLog(log') /\ \A v \in versions' : IsLog(v)
        BY <1>5 DEF GiveUp, Retained, Log!Synced, DeliveryTypeOK
    <2>2. UNCHANGED <<up, stopping, queue, pass, pieces, sends, bounds, history>> /\ rec' = NoRec
        BY <1>5 DEF GiveUp
    <2>3. BlockedIfFromLog
        BY <1>5 DEF GiveUp
    <2> QED
        BY <1>1, <2>1, <2>2, <2>3, GoesOnTypes DEF DeliveryTypeOK, bounds, history
<1>6. CASE AcknowledgeFails
    <2>1. /\ UNCHANGED <<up, stopping, queue, pass, pieces, sends, file, bounds, history>>
          /\ rec' = NoRec /\ BlockedIfFromLog
        BY <1>6 DEF AcknowledgeFails
    <2> QED
        BY <1>1, <2>1, GoesOnTypes DEF DeliveryTypeOK, file, bounds, history
<1> QED
    BY <1>2, <1>3, <1>4, <1>5, <1>6 DEF Resolve

\* So have the steps of the environment.
LEMMA TypeEnvironment ==
    ASSUME DeliveryTypeOK, PassOK, Age \/ Exit \/ Crash \/ PowerLoss \/ Restart
    PROVE  DeliveryTypeOK'
<1>1. /\ NoRec \in [id : Nat, events : Seq(Events), from : {"none", "put", "log"},
                     answer : {"none", "accepted", "400", "4xx"}]
      /\ NoRec.from = "none"
      /\ NoPass \in [kind : {"none", "size", "flush", "finish"}, first : Nat, left : Nat]
      /\ NoPass.left = 0
    BY DEF NoRec, NoPass
<1>2. ASSUME Down
      PROVE  /\ up' \in BOOLEAN /\ stopping' \in BOOLEAN
             /\ queue' \in Seq(Events) /\ pass' = NoPass
             /\ pass'.left <= Len(queue') /\ step' = "idle" /\ IsLog(todo')
             /\ pieces' \in Seq(Seq(Events))
             /\ \A i \in 1 .. Len(pieces') : IsBatch(pieces'[i])
             /\ sends' \in 0 .. MaxSends /\ rec' = NoRec
             /\ UNCHANGED <<bounds, history>>
    <2>1. /\ queue' = <<>> /\ todo' = <<>> /\ pieces' = <<>> /\ pass' = NoPass
          /\ sends' = 0 /\ rec' = NoRec /\ step' = "idle"
          /\ up' = FALSE /\ stopping' = FALSE /\ UNCHANGED <<bounds, history>>
        BY <1>2 DEF Down
    <2>2. 0 \in 0 .. MaxSends
        BY DeliveryAssumption
    <2>3. /\ queue' \in Seq(Events) /\ pass'.left <= Len(queue')
          /\ pieces' \in Seq(Seq(Events))
          /\ \A i \in 1 .. Len(pieces') : IsBatch(pieces'[i])
        BY <1>1, <2>1
    <2>4. IsLog(todo')
        BY <2>1, LogFacts
    <2> QED
        BY <2>1, <2>2, <2>3, <2>4
<1>3. ASSUME Down, IsLog(log'), \A v \in versions' : IsLog(v)
      PROVE  DeliveryTypeOK'
    BY <1>1, <1>2, <1>3 DEF DeliveryTypeOK, bounds, history
<1>4. CASE Exit \/ Crash
    BY <1>3, <1>4 DEF Exit, Crash, file, DeliveryTypeOK
<1>5. CASE PowerLoss
    <2>1. log' \in versions /\ versions' = {log'} /\ Down
        BY <1>5 DEF PowerLoss, Log!PowerLoss, Log!Synced
    <2> QED
        BY <1>3, <2>1 DEF DeliveryTypeOK
<1>6. CASE Age
    <2>1. old' \in 0 .. made
        BY <1>6 DEF Age, DeliveryTypeOK
    <2> QED
        BY <1>6, <2>1 DEF Age, DeliveryTypeOK, memory, file, history
<1>7. CASE Restart
    <2>1. runs' \in 1 .. MaxRuns
        BY <1>7, DeliveryAssumption DEF Restart, PassOK, DeliveryTypeOK
    <2> QED
        BY <1>7, <2>1 DEF Restart, DeliveryTypeOK, memory, file, history
<1> QED
    BY <1>4, <1>5, <1>6, <1>7

---------------------------------------------------------------------------
(* The pass *)

\* Initially nothing is being done.
LEMMA PassInit == DeliveryInit => PassOK
<1> SUFFICES ASSUME DeliveryInit PROVE PassOK
    OBVIOUS
<1>1. /\ up = TRUE /\ stopping = FALSE /\ pass = NoPass /\ step = "idle"
      /\ rec = NoRec /\ pieces = <<>>
    BY DEF DeliveryInit
<1> QED
    BY <1>1 DEF PassOK, NoPass, NoRec, WalFirst

\* A recovered record is the oldest of the log, so its acknowledgement leaves
\* what is still to be recovered.
LEMMA AcknowledgeRecovered ==
    ASSUME DeliveryTypeOK, PassOK, NumbersOK, rec.from = "log",
           NEW synced \in BOOLEAN, Acknowledged(synced)
    PROVE  log' = todo
<1>1. log = <<Tried>> \o todo
    BY DEF PassOK
<1>2. todo \in Seq(Records) /\ log \in Seq(Records)
    BY DEF DeliveryTypeOK, IsLog
<1>3. Tried \in Records /\ Tried.id = rec.id
    BY DEF Tried, Records, DeliveryTypeOK
<1>4. PICK i \in 1 .. Len(log) : log[i].id = rec.id /\ log' = RemoveAt(log, i)
    BY AcknowledgedFacts
<1>5. log[1] = Tried /\ Len(log) = Len(todo) + 1 /\ Len(todo) \in Nat
    BY <1>1, <1>2, <1>3, PrependFacts
<1>6. i = 1
    <2>1. SUFFICES ASSUME 1 < i PROVE FALSE
        BY <1>5
    <2>2. 1 \in 1 .. Len(log)
        BY <1>5
    <2>3. log[1].id < log[i].id
        BY <2>1, <2>2 DEF NumbersOK, Numbered
    <2>4. rec.id \in Nat
        BY DEF DeliveryTypeOK
    <2> QED
        BY <1>3, <1>4, <1>5, <2>3, <2>4
<1> QED
    BY <1>1, <1>2, <1>3, <1>4, <1>6, WithoutHead

\* An acknowledgement adds no record to the log.
LEMMA AcknowledgeRemoves ==
    ASSUME DeliveryTypeOK, NEW synced \in BOOLEAN, Acknowledged(synced)
    PROVE  /\ ToSet(log') \subseteq ToSet(log)
           /\ \A k \in 1 .. Len(log') : \E l \in 1 .. Len(log) : log'[k] = log[l]
<1>1. log \in Seq(Records) /\ Len(log) \in Nat
    BY DEF DeliveryTypeOK, IsLog
<1>2. PICK i \in 1 .. Len(log) : log[i].id = rec.id /\ log' = RemoveAt(log, i)
    BY AcknowledgedFacts
<1>3. /\ Len(log') = Len(log) - 1
      /\ \A k \in 1 .. Len(log) - 1 : log'[k] = IF k < i THEN log[k] ELSE log[k + 1]
    BY <1>1, <1>2, RemoveFacts
<1>4. ToSet(log') \subseteq ToSet(log)
    BY <1>1, <1>2, PartsSubset
<1>5. ASSUME NEW k \in 1 .. Len(log')
      PROVE  \E l \in 1 .. Len(log) : log'[k] = log[l]
    <2>1. k \in 1 .. Len(log) /\ k + 1 \in 1 .. Len(log) /\ k \in 1 .. Len(log) - 1
        BY <1>1, <1>3
    <2> QED
        BY <1>3, <2>1
<1> QED
    BY <1>4, <1>5

\* Nothing but the pass depends on what the application does.
LEMMA PassApplication ==
    ASSUME DeliveryTypeOK, PassOK, Application \/ Arrive \/ Age \/ Restart
    PROVE  PassOK'
<1>1. CASE Enqueue
    <2>1. queue \in Seq(Events) /\ made + 1 \in Events /\ queue' = Append(queue, made + 1)
        BY <1>1, DeliveryAssumption DEF Enqueue, DeliveryTypeOK, Events
    <2>2. Len(queue') = Len(queue) + 1 /\ Len(queue) \in Nat /\ FlushSize \in Nat
        BY <2>1, AppendFacts, DeliveryAssumption
    <2>3. Len(queue) >= FlushSize => Len(queue') >= FlushSize
        BY <2>2
    <2> QED
        BY <1>1, <2>3 DEF Enqueue, PassOK, WalFirst, Tried, file, history
<1>2. CASE Stop
    BY <1>2 DEF Stop, PassOK, WalFirst, Tried, file, history, bounds
<1>3. CASE Arrive
    BY <1>3 DEF Arrive, PassOK, WalFirst, Tried, file, memory, bounds
<1>4. CASE Age
    BY <1>4 DEF Age, PassOK, WalFirst, Tried, file, memory, history
<1>5. CASE Restart
    <2>1. runs' = runs + 1 /\ ~up /\ up' = TRUE
        BY <1>5 DEF Restart
    <2>2. ~stopping /\ runs < MaxRuns
        BY <2>1 DEF PassOK
    <2> QED
        BY <1>5, <2>1, <2>2 DEF Restart, PassOK, WalFirst, Tried, file, memory, history
<1> QED
    BY <1>1, <1>2, <1>3, <1>4, <1>5 DEF Application

\* A step of a pass that sends nothing leaves the pass in order.
LEMMA PassMoves ==
    ASSUME DeliveryTypeOK, PassOK,
           BeginPass \/ Recovered \/ Replay \/ Defer \/ EndPass \/ PersistDone
    PROVE  PassOK'
<1>1. rec.from \in {"none", "put", "log"} /\ (rec.from = "none" <=> rec = NoRec)
    BY DEF DeliveryTypeOK, NoRec
<1>2. CASE BeginPass
    <2>1. PICK kind \in {"size", "flush", "finish"} :
              Triggered(kind) /\ pass' = [kind |-> kind, first |-> ids + 1, left |-> 0]
        BY <1>2 DEF BeginPass
    <2>2. /\ up /\ step = "idle" /\ step' = "recover" /\ todo' = log
          /\ UNCHANGED <<up, stopping, queue, pieces, sends, rec, log, ids, runs>>
        BY <1>2 DEF BeginPass, file, bounds
    <2>3. rec.from = "none" /\ pieces = <<>>
        BY <1>1, <2>2 DEF PassOK
    <2>4. /\ pass'.kind = "finish" => stopping
          /\ pass'.kind = "size" => Len(queue) >= FlushSize
          /\ pass'.left = 0 /\ pass'.first = ids + 1
        BY <2>1 DEF Triggered
    <2>5. ids + 1 <= ids + 1
        BY DEF DeliveryTypeOK
    <2> QED
        BY <2>2, <2>3, <2>4, <2>5 DEF PassOK, WalFirst
<1>3. CASE Recovered
    <2>1. /\ up /\ step = "recover" /\ rec = NoRec /\ todo = <<>> /\ step' = "send"
          /\ pass'.kind = pass.kind /\ pass'.first = pass.first
          /\ UNCHANGED <<up, stopping, queue, todo, pieces, sends, rec, log, ids, runs>>
        BY <1>3 DEF Recovered, Recovering, file, bounds, DeliveryTypeOK
    <2>2. rec.from = "none" /\ log = <<>> /\ pieces = <<>>
        BY <1>1, <2>1 DEF PassOK
    <2> QED
        BY <2>1, <2>2 DEF PassOK, WalFirst
<1>4. CASE Replay
    <2>1. /\ up /\ step = "recover" /\ rec.from = "none" /\ todo # <<>> /\ log = todo
        BY <1>1, <1>4 DEF Replay, Recovering, PassOK
    <2>2. /\ rec' = FromLog(Head(todo)) /\ todo' = Tail(todo)
          /\ UNCHANGED <<up, stopping, queue, pass, step, pieces, log, ids, runs>>
        BY <1>4 DEF Replay, file, bounds
    <2>3. todo \in Seq(Records) /\ Head(todo) \in Records /\ todo = <<Head(todo)>> \o Tail(todo)
        BY <2>1, TailFacts DEF DeliveryTypeOK, IsLog
    <2>4. Tried' = Head(todo) /\ rec'.from = "log"
        BY <2>2, <2>3 DEF Tried, FromLog, Records
    <2> QED
        BY <2>1, <2>2, <2>3, <2>4 DEF PassOK, WalFirst
<1>5. CASE Defer
    <2>1. /\ up /\ step = "recover" /\ rec.from = "none"
          /\ step' = AfterBlock
          /\ UNCHANGED <<up, stopping, queue, pass, pieces, rec, log, ids, runs>>
        BY <1>1, <1>5 DEF Defer, Blocked, Recovering, file, bounds
    <2>2. \/ step' = "persist" /\ pass.kind = "finish"
          \/ step' = "idle"
        BY <2>1 DEF AfterBlock
    <2> QED
        BY <2>1, <2>2 DEF PassOK, WalFirst
<1>6. CASE EndPass
    <2>1. /\ up /\ step = "send" /\ rec.from = "none" /\ pieces = <<>>
          /\ step' = (IF pass.kind = "finish" THEN "done" ELSE "idle")
          /\ pass' = NoPass
          /\ UNCHANGED <<up, stopping, queue, pieces, rec, log, ids, runs>>
        BY <1>1, <1>6 DEF EndPass, Sending, file, bounds
    <2>2. \/ step' = "done" /\ pass.kind = "finish"
          \/ step' = "idle"
        BY <2>1
    <2> QED
        BY <2>1, <2>2 DEF PassOK, WalFirst, NoPass
<1>7. CASE PersistDone
    <2>1. /\ up /\ step = "persist" /\ step' = "done" /\ pass' = NoPass
          /\ UNCHANGED <<up, stopping, queue, pieces, rec, log, ids, runs>>
        BY <1>7 DEF PersistDone, file, bounds
    <2> QED
        BY <1>1, <2>1 DEF PassOK, WalFirst, NoPass
<1> QED
    BY <1>2, <1>3, <1>4, <1>5, <1>6, <1>7

\* A put numbers its record after all others.
LEMMA PutAppends ==
    ASSUME DeliveryTypeOK, NEW events, IsBatch(events),
           NEW outcome \in {"nil", "warned", "failed"}, Put(events, outcome)
    PROVE  /\ ids' = ids + 1 /\ ids \in Nat
           /\ \/ log' = log
              \/ /\ Len(log') = Len(log) + 1 /\ Len(log) \in Nat
                 /\ log'[Len(log) + 1] = [id |-> ids + 1, events |-> events]
                 /\ \A k \in 1 .. Len(log) : log'[k] = log[k]
                 /\ ToSet(log') = ToSet(log) \union {[id |-> ids + 1, events |-> events]}
<1>1. ids \in Nat /\ ids' = ids + 1
    BY DEF Put, DeliveryTypeOK
<1>2. [id |-> ids + 1, events |-> events] \in Records /\ log \in Seq(Records)
    BY <1>1 DEF Records, IsBatch, DeliveryTypeOK, IsLog
<1>3. log' = log \/ log' = Append(log, [id |-> ids + 1, events |-> events])
    BY <1>1 DEF Put, Log!AppendRecord
<1> DEFINE r == [id |-> ids + 1, events |-> events]
<1>4. /\ Len(Append(log, r)) = Len(log) + 1 /\ Len(log) \in Nat
      /\ Append(log, r)[Len(log) + 1] = r
      /\ \A k \in 1 .. Len(log) : Append(log, r)[k] = log[k]
      /\ ToSet(Append(log, r)) = ToSet(log) \union {r}
    BY <1>2, AppendFacts
<1> QED
    BY <1>1, <1>3, <1>4

\* So does a step that takes events from the queue or puts them into the log.
LEMMA PassSends ==
    ASSUME DeliveryTypeOK, PassOK, TakeChunk \/ PutPiece \/ SplitLimit \/ PersistChunk
    PROVE  PassOK'
<1>1. rec.from \in {"none", "put", "log"} /\ (rec.from = "none" <=> rec = NoRec)
    BY DEF DeliveryTypeOK, NoRec
<1>2. ids \in Nat /\ pass.first \in Nat
    BY DEF DeliveryTypeOK
<1>3. CASE TakeChunk
    <2>1. /\ step = "send" /\ rec.from = "none"
          /\ pass'.kind = pass.kind /\ pass'.first = pass.first
          /\ UNCHANGED <<up, stopping, step, todo, rec, log, ids, runs>>
        BY <1>1, <1>3 DEF TakeChunk, Sending, file, bounds, DeliveryTypeOK
    <2> QED
        BY <2>1 DEF PassOK, WalFirst
<1>4. CASE SplitLimit
    <2>1. /\ step = "send" /\ rec.from = "none"
          /\ UNCHANGED <<up, stopping, pass, step, todo, rec, log, ids, runs>>
        BY <1>1, <1>4 DEF SplitLimit, Sending, file, bounds
    <2> QED
        BY <2>1 DEF PassOK, WalFirst
<1>5. ASSUME NEW events, IsBatch(events),
             NEW outcome \in {"nil", "warned", "failed"}, Put(events, outcome),
             step = "send"
      PROVE  \A i \in 1 .. Len(log') : log'[i].id >= pass.first
    <2>1. \A i \in 1 .. Len(log) : log[i].id >= pass.first
        BY <1>5 DEF PassOK, WalFirst
    <2>2. pass.first <= ids + 1
        BY <1>5 DEF PassOK
    <2>3. CASE log' = log
        BY <2>1, <2>3
    <2>4. CASE log' # log
        <3>1. /\ Len(log') = Len(log) + 1 /\ Len(log) \in Nat
              /\ log'[Len(log) + 1] = [id |-> ids + 1, events |-> events]
              /\ \A k \in 1 .. Len(log) : log'[k] = log[k]
            BY <1>5, <2>4, PutAppends
        <3>2. \A i \in 1 .. Len(log') : i \in 1 .. Len(log) \/ i = Len(log) + 1
            BY <3>1
        <3> QED
            BY <1>2, <2>1, <2>2, <3>1, <3>2
    <2> QED
        BY <2>3, <2>4
<1>6. CASE PutPiece
    <2>1. IsBatch(Head(pieces))
        BY <1>6, PiecesFacts DEF PutPiece
    <2>2. PICK outcome \in {"nil", "warned", "failed"} :
              /\ Put(Head(pieces), outcome)
              /\ rec' = IF outcome = "nil"
                        THEN [id |-> ids', events |-> Head(pieces), from |-> "put",
                              answer |-> "none"]
                        ELSE NoRec
        BY <1>6 DEF PutPiece
    <2>3. /\ step = "send"
          /\ UNCHANGED <<up, stopping, pass, step, todo>>
        BY <1>6 DEF PutPiece, Sending
    <2>4. runs' = runs /\ ids' = ids + 1
        BY <2>2 DEF Put
    <2>5. \/ rec'.from = "put" /\ rec'.id = ids'
          \/ rec'.from = "none"
        BY <2>2 DEF NoRec
    <2>6. \A i \in 1 .. Len(log') : log'[i].id >= pass.first
        BY <1>5, <2>1, <2>2, <2>3
    <2>7. pass.first <= ids' + 1
        BY <1>2, <2>3, <2>4 DEF PassOK
    <2> QED
        BY <2>3, <2>4, <2>5, <2>6, <2>7 DEF PassOK, WalFirst
<1>7. CASE PersistChunk
    <2>1. /\ step = "persist" /\ UNCHANGED <<up, stopping, pass, step, todo, pieces, sends, rec>>
        BY <1>7 DEF PersistChunk
    <2>2. rec.from = "none"
        BY <1>1, <2>1 DEF PassOK
    <2>3. runs' = runs
        BY <1>7 DEF PersistChunk, Put
    <2> QED
        BY <2>1, <2>2, <2>3 DEF PassOK, WalFirst
<1> QED
    BY <1>3, <1>4, <1>6, <1>7

\* After a recovered record is dealt with, what is left to recover is the log; if
\* it is not, the recovery has ended.
LEMMA PassResolves ==
    ASSUME DeliveryTypeOK, PassOK, rec.from # "none", rec'.from = "none",
           UNCHANGED <<up, stopping, queue, pass, ids, runs>>,
           Continue \/ BlockedIfFromLog,
           rec.from = "log" /\ Continue => log' = todo,
           \A k \in 1 .. Len(log') : \E l \in 1 .. Len(log) : log'[k] = log[l],
           rec.from = "log" => pieces' = pieces
    PROVE  PassOK'
<1>1. rec.from \in {"put", "log"}
    BY DEF DeliveryTypeOK
<1>2. CASE Continue
    <2>1. step' = step /\ todo' = todo
        BY <1>2 DEF Continue
    <2>2. step = "send" => \A k \in 1 .. Len(log') : log'[k].id >= pass.first
        BY DEF PassOK, WalFirst
    <2>3. step # "send" => pieces' = pieces
        BY <1>1 DEF PassOK
    <2>4. step = "recover" => rec.from = "log"
        BY <1>1 DEF PassOK
    <2> QED
        BY <1>2, <2>1, <2>2, <2>3, <2>4 DEF PassOK, WalFirst
<1>3. CASE BlockedIfFromLog /\ rec.from = "log"
    <2>1. \/ step' = "persist" /\ pass.kind = "finish"
          \/ step' = "idle"
        BY <1>3 DEF BlockedIfFromLog, Blocked, AfterBlock
    <2>2. step = "recover" /\ up /\ pieces = <<>> /\ pass.left = 0
        BY <1>3 DEF PassOK
    <2> QED
        BY <1>3, <2>1, <2>2 DEF PassOK, WalFirst
<1>4. BlockedIfFromLog /\ rec.from # "log" => Continue
    BY DEF BlockedIfFromLog
<1> QED
    BY <1>2, <1>3, <1>4

\* The steps of a record leave the pass in order.
LEMMA PassRecords ==
    ASSUME DeliveryTypeOK, PassOK, NumbersOK, SendRecord
    PROVE  PassOK'
<1>1. NoRec.from = "none"
    BY DEF NoRec
<1>2. CASE Answer
    <2>1. \E answer : rec' = [rec EXCEPT !.answer = answer]
        BY <1>2 DEF Answer, Accept, Refuse
    <2>2. UNCHANGED <<up, stopping, queue, pass, step, todo, pieces, log, ids, runs>>
        BY <1>2 DEF Answer, Accept, Refuse, file, bounds
    <2>3. rec'.from = rec.from /\ rec'.id = rec.id /\ rec'.events = rec.events
        BY <2>1 DEF DeliveryTypeOK
    <2> QED
        BY <2>2, <2>3 DEF PassOK, WalFirst, Tried
<1>3. CASE GiveUp \/ AcknowledgeFails
    <2>1. /\ rec' = NoRec /\ rec.from # "none" /\ BlockedIfFromLog
          /\ UNCHANGED <<up, stopping, queue, pass, pieces, log, ids, runs>>
        BY <1>3 DEF GiveUp, AcknowledgeFails, Posting, Retained, bounds, file,
                    DeliveryTypeOK, NoRec
    <2>2. rec.from = "log" => ~Continue
        <3>1. SUFFICES ASSUME rec.from = "log", Continue PROVE FALSE
            OBVIOUS
        <3>2. step = "recover" /\ step' = step
            BY <3>1 DEF PassOK, Continue
        <3>3. step' \in {"idle", "persist"}
            BY <2>1, <3>1 DEF BlockedIfFromLog, Blocked, AfterBlock
        <3> QED
            BY <3>2, <3>3
    <2>3. \A k \in 1 .. Len(log') : \E l \in 1 .. Len(log) : log'[k] = log[l]
        BY <2>1
    <2> QED
        BY <1>1, <2>1, <2>2, <2>3, PassResolves
<1>4. ASSUME NEW synced \in BOOLEAN, Resolve(synced)
      PROVE  PassOK'
    <2>1. Acknowledged(synced) /\ (Continue \/ BlockedIfFromLog) /\ rec.answer # "none"
        BY <1>4 DEF Resolve, Confirm, Isolate, Discard, Splits
    <2>2. rec' = NoRec /\ UNCHANGED <<up, stopping, queue, pass, ids, runs>>
        BY <2>1, AcknowledgedFacts DEF bounds
    <2>3. rec.from # "none"
        BY <2>1 DEF DeliveryTypeOK, NoRec
    <2>4. rec.from = "log" => log' = todo
        BY <2>1, AcknowledgeRecovered
    <2>5. \A k \in 1 .. Len(log') : \E l \in 1 .. Len(log) : log'[k] = log[l]
        BY <2>1, AcknowledgeRemoves
    <2>6. rec.from = "log" => pieces' = pieces
        BY <1>4 DEF Resolve, Confirm, Isolate, Discard, Splits
    <2> QED
        BY <1>1, <2>1, <2>2, <2>3, <2>4, <2>5, <2>6, PassResolves
<1> QED
    BY <1>2, <1>3, <1>4 DEF SendRecord

\* The end of the process ends the pass.
LEMMA PassEnds ==
    ASSUME DeliveryTypeOK, PassOK, Exit \/ Crash \/ PowerLoss
    PROVE  PassOK'
<1>1. Down /\ runs' = runs
    BY DEF Exit, Crash, PowerLoss, Down, bounds
<1>2. runs < MaxRuns
    BY DEF Exit, Crash, PowerLoss, PassOK
<1>3. /\ up' = FALSE /\ stopping' = FALSE /\ pass' = NoPass /\ step' = "idle"
      /\ rec' = NoRec /\ pieces' = <<>>
    BY <1>1 DEF Down
<1> QED
    BY <1>1, <1>2, <1>3 DEF PassOK, WalFirst, NoPass, NoRec

---------------------------------------------------------------------------
(* What is kept and what waits *)

\* A record is kept by the log, by one of its versions, by the recovery, or by
\* being sent.
LEMMA KeptBy ==
    \A r : r \in Kept <=> \/ \E v \in versions \union {log, todo} : r \in ToSet(v)
                          \/ rec.from # "none" /\ r = Tried
<1> DEFINE U == UNION {ToSet(v) : v \in versions \union {log, todo}}
           T == IF rec.from = "none" THEN {} ELSE {Tried}
<1>1. \A r : r \in U <=> \E v \in versions \union {log, todo} : r \in ToSet(v)
    OBVIOUS
<1>2. \A r : r \in T <=> rec.from # "none" /\ r = Tried
    OBVIOUS
<1>3. Kept = U \union T
    BY DEF Kept
<1> QED
    BY <1>1, <1>2, <1>3

\* What the log, its versions, the recovery and the record hold is kept.
LEMMA KeptHas ==
    /\ \A v \in versions : ToSet(v) \subseteq Kept
    /\ ToSet(log) \subseteq Kept /\ ToSet(todo) \subseteq Kept
    /\ rec.from # "none" => Tried \in Kept
<1>1. \A v \in versions \union {log, todo} : \A r \in ToSet(v) : r \in Kept
    BY KeptBy
<1> QED
    BY <1>1, KeptBy

\* Nothing else is kept.
LEMMA KeptWithin ==
    ASSUME NEW K, \A v \in versions' : ToSet(v) \subseteq K,
           ToSet(log') \subseteq K, ToSet(todo') \subseteq K,
           rec'.from # "none" => Tried' \in K
    PROVE  Kept' \subseteq K
<1>1. \A r : r \in Kept' <=> \/ \E v \in versions' \union {log', todo'} : r \in ToSet(v)
                             \/ rec'.from # "none" /\ r = Tried'
    <2> DEFINE U == UNION {ToSet(v) : v \in versions' \union {log', todo'}}
               T == IF rec'.from = "none" THEN {} ELSE {Tried'}
    <2>1. \A r : r \in U <=> \E v \in versions' \union {log', todo'} : r \in ToSet(v)
        OBVIOUS
    <2>2. \A r : r \in T <=> rec'.from # "none" /\ r = Tried'
        OBVIOUS
    <2>3. Kept' = U \union T
        BY DEF Kept
    <2> QED
        BY <2>1, <2>2, <2>3
<1>2. \A v \in versions' \union {log', todo'} : \A r \in ToSet(v) : r \in K
    OBVIOUS
<1> QED
    BY <1>1, <1>2

\* What is kept are records of batches.
LEMMA KeptRecords ==
    ASSUME DeliveryTypeOK
    PROVE  /\ \A r \in Kept : r \in Records /\ IsBatch(r.events)
           /\ \A r \in Kept : r.events \in Seq(Events) /\ ToSet(r.events) \subseteq Events
<1>1. ASSUME NEW s, IsLog(s), NEW r \in ToSet(s)
      PROVE  r \in Records /\ IsBatch(r.events)
    <2>1. s \in Seq(Records)
        BY <1>1 DEF IsLog
    <2>2. PICK i \in 1 .. Len(s) : s[i] = r
        BY <1>1, <2>1, ElementFacts
    <2> QED
        BY <1>1, <2>1, <2>2 DEF IsLog
<1>2. ASSUME rec.from # "none"
      PROVE  Tried \in Records /\ IsBatch(Tried.events)
    BY <1>2 DEF Tried, Records, DeliveryTypeOK
<1>3. ASSUME NEW r \in Kept
      PROVE  r \in Records /\ IsBatch(r.events)
    <2>1. \A v \in versions \union {log, todo} : IsLog(v)
        BY DEF DeliveryTypeOK
    <2>2. (\E v \in versions \union {log, todo} : r \in ToSet(v)) \/ (rec.from # "none" /\ r = Tried)
        BY <1>3, KeptBy
    <2> QED
        BY <1>1, <1>2, <2>1, <2>2
<1>4. \A s : IsBatch(s) => s \in Seq(Events) /\ ToSet(s) \subseteq Events
    BY ElementFacts DEF IsBatch
<1> QED
    BY <1>3, <1>4

\* A put adds its record at most.
LEMMA KeptPut ==
    ASSUME DeliveryTypeOK, PassOK, NEW events, IsBatch(events),
           NEW outcome \in {"nil", "warned", "failed"}, Put(events, outcome), todo' = todo,
           rec'.from # "none" => rec' = [id |-> ids', events |-> events, from |-> "put",
                                        answer |-> "none"]
    PROVE  Kept' \subseteq Kept \union {[id |-> ids + 1, events |-> events]}
<1> DEFINE r == [id |-> ids + 1, events |-> events]
           K == Kept \union {r}
<1>1. ids' = ids + 1 /\ ToSet(log') \subseteq K
    BY KeptHas, PutAppends
<1>2. \A v \in versions' : v \in versions \/ v = log'
    <2>1. CASE outcome = "nil"
        BY <2>1 DEF Put, Log!Synced
    <2>2. CASE outcome = "warned"
        BY <2>2 DEF Put, Log!Exposed
    <2>3. CASE outcome = "failed"
        BY <2>3 DEF Put
    <2> QED
        BY <2>1, <2>2, <2>3
<1>3. \A v \in versions' : ToSet(v) \subseteq K
    BY <1>1, <1>2, KeptHas
<1>4. rec'.from # "none" => Tried' = r
    BY <1>1 DEF Tried
<1>5. ToSet(todo') \subseteq K /\ r \in K
    BY KeptHas
<1> HIDE DEF K
<1>6. Kept' \subseteq K
    BY <1>1, <1>3, <1>4, <1>5, KeptWithin
<1> QED
    BY <1>6 DEF K

\* The steps that put nothing keep nothing new.
LEMMA KeptStays ==
    ASSUME DeliveryTypeOK, PassOK, DeliveryNext, ~PutPiece, ~PersistChunk
    PROVE  Kept' \subseteq Kept
<1>1. NoRec.from = "none"
    BY DEF NoRec
<1>2. ToSet(<<>>) = {}
    BY DEF ToSet
<1>3. ASSUME UNCHANGED file, UNCHANGED rec,
             todo' = todo \/ todo' = log \/ todo' = <<>>
      PROVE  Kept' \subseteq Kept
    <2>1. Tried' = Tried
        BY <1>3 DEF Tried
    <2> QED
        BY <1>2, <1>3, <2>1, KeptHas, KeptWithin DEF file
<1>4. CASE Replay
    <2>1. /\ todo # <<>> /\ rec' = FromLog(Head(todo)) /\ todo' = Tail(todo) /\ UNCHANGED file
        BY <1>4 DEF Replay
    <2>2. todo \in Seq(Records)
        BY DEF DeliveryTypeOK, IsLog
    <2>3. ToSet(todo') \subseteq ToSet(todo) /\ Head(todo) \in ToSet(todo) /\ Head(todo) \in Records
        BY <2>1, <2>2, TailFacts
    <2>4. Tried' = Head(todo)
        BY <2>1, <2>3 DEF Tried, FromLog, Records
    <2> QED
        BY <2>1, <2>3, <2>4, KeptHas, KeptWithin DEF file
<1>5. CASE Answer
    <2>1. UNCHANGED <<todo, log, versions>> /\ \E answer : rec' = [rec EXCEPT !.answer = answer]
        BY <1>5 DEF Answer, Accept, Refuse, file
    <2>2. rec'.from = rec.from /\ Tried' = Tried
        BY <2>1 DEF Tried, DeliveryTypeOK
    <2> QED
        BY <2>1, <2>2, KeptHas, KeptWithin
<1>6. ASSUME rec' = NoRec, todo' = todo \/ todo' = <<>>, ToSet(log') \subseteq ToSet(log),
             \A v \in versions' : v \in versions \/ v = log'
      PROVE  Kept' \subseteq Kept
    <2>1. ToSet(log') \subseteq Kept /\ ToSet(todo') \subseteq Kept
        BY <1>2, <1>6, KeptHas
    <2>2. \A v \in versions' : ToSet(v) \subseteq Kept
        BY <1>6, <2>1, KeptHas
    <2> QED
        BY <1>1, <1>6, <2>1, <2>2, KeptWithin
<1>7. CASE GiveUp \/ AcknowledgeFails
    <2>1. /\ rec' = NoRec /\ log' = log /\ BlockedIfFromLog
          /\ \A v \in versions' : v \in versions \/ v = log'
        BY <1>7 DEF GiveUp, AcknowledgeFails, Retained, file, Log!Synced
    <2>2. todo' = todo \/ todo' = <<>>
        BY <2>1, GoesOn
    <2> QED
        BY <1>6, <2>1, <2>2
<1>8. ASSUME NEW synced \in BOOLEAN, Resolve(synced)
      PROVE  Kept' \subseteq Kept
    <2>1. Acknowledged(synced) /\ (Continue \/ BlockedIfFromLog)
        BY <1>8 DEF Resolve, Confirm, Isolate, Discard
    <2>2. todo' = todo \/ todo' = <<>>
        BY <2>1, GoesOn
    <2> QED
        BY <1>6, <2>1, <2>2, AcknowledgedFacts, AcknowledgeRemoves
<1>9. CASE Exit \/ Crash \/ PowerLoss
    <2>1. rec' = NoRec /\ todo' = <<>>
        BY <1>9 DEF Exit, Crash, PowerLoss, Down
    <2>2. (log' = log \/ log' \in versions) /\ \A v \in versions' : v \in versions \/ v = log'
        BY <1>9 DEF Exit, Crash, PowerLoss, Log!PowerLoss, Log!Synced, file
    <2>3. ToSet(log') \subseteq Kept /\ ToSet(todo') \subseteq Kept
        BY <1>2, <2>1, <2>2, KeptHas
    <2>4. \A v \in versions' : ToSet(v) \subseteq Kept
        BY <2>2, <2>3, KeptHas
    <2> QED
        BY <1>1, <2>1, <2>3, <2>4, KeptWithin
<1>10. CASE Application \/ Arrive \/ Age \/ Restart
    BY <1>3, <1>10 DEF Application, Enqueue, Stop, Arrive, Age, Restart, memory
<1>11. CASE BeginPass \/ Recovered \/ Defer \/ TakeChunk \/ SplitLimit \/ EndPass \/ PersistDone
    BY <1>3, <1>11 DEF BeginPass, Recovered, Defer, Blocked, TakeChunk, SplitLimit, EndPass,
                       PersistDone
<1> QED
    BY <1>4, <1>5, <1>7, <1>8, <1>9, <1>10, <1>11 DEF DeliveryNext, Loop, SendRecord

\* An event waits in the queue or in a piece.
LEMMA WaitingBy ==
    \A e : e \in Waiting <=> \/ e \in ToSet(queue)
                             \/ \E i \in 1 .. Len(pieces) : e \in ToSet(pieces[i])
BY DEF Waiting

\* What waits are events.
LEMMA WaitingTypes == DeliveryTypeOK => Waiting \subseteq Events
<1> SUFFICES ASSUME DeliveryTypeOK PROVE Waiting \subseteq Events
    OBVIOUS
<1>1. queue \in Seq(Events) /\ \A i \in 1 .. Len(pieces) : pieces[i] \in Seq(Events)
    BY DEF DeliveryTypeOK, IsBatch
<1>2. \A s \in Seq(Events) : ToSet(s) \subseteq Events
    BY ElementFacts
<1> QED
    BY <1>1, <1>2, WaitingBy

\* The parts of an ascending sequence ascend, the first before the second.
LEMMA CutOrder ==
    ASSUME NEW s \in Seq(Events), NEW n \in 0 .. Len(s)
    PROVE  LET a == SubSeq(s, 1, n)
               b == SubSeq(s, n + 1, Len(s))
           IN /\ Ascending(s) => Ascending(a) /\ Ascending(b) /\ Precedes(a, b)
              /\ \A t : Precedes(s, t) => Precedes(a, t) /\ Precedes(b, t)
              /\ \A t : Precedes(t, s) => Precedes(t, a) /\ Precedes(t, b)
<1> DEFINE a == SubSeq(s, 1, n)
           b == SubSeq(s, n + 1, Len(s))
<1>1. /\ Len(a) = n /\ Len(b) = Len(s) - n /\ Len(s) \in Nat
      /\ \A k \in 1 .. n : a[k] = s[k]
      /\ \A k \in 1 .. Len(s) - n : b[k] = s[n + k]
    BY CutFacts
<1>2. /\ \A k \in 1 .. n : k \in 1 .. Len(s)
      /\ \A k \in 1 .. Len(s) - n : n + k \in 1 .. Len(s)
      /\ \A k \in 1 .. n, l \in 1 .. Len(s) - n : k < n + l
      /\ \A k, l \in 1 .. Len(s) - n : k < l => n + k < n + l
    BY <1>1
<1> HIDE DEF a, b
<1>3. ASSUME Ascending(s)
      PROVE  Ascending(a) /\ Ascending(b) /\ Precedes(a, b)
    BY <1>1, <1>2, <1>3 DEF Ascending, Precedes
<1>4. ASSUME NEW t
      PROVE  /\ Precedes(s, t) => Precedes(a, t) /\ Precedes(b, t)
             /\ Precedes(t, s) => Precedes(t, a) /\ Precedes(t, b)
    BY <1>1, <1>2 DEF Precedes
<1> QED
    BY <1>3, <1>4 DEF a, b

\* A sequence has no element of one that precedes it.
LEMMA PrecedesApart ==
    ASSUME NEW s \in Seq(Events), NEW t \in Seq(Events), Precedes(s, t)
    PROVE  \A e \in ToSet(s) : e \notin ToSet(t)
<1> SUFFICES ASSUME NEW e \in ToSet(s), e \in ToSet(t) PROVE FALSE
    OBVIOUS
<1>1. PICK k \in 1 .. Len(s) : s[k] = e
    BY ElementFacts
<1>2. PICK l \in 1 .. Len(t) : t[l] = e
    BY ElementFacts
<1>3. e \in Int
    <2>1. e \in Events
        BY ElementFacts
    <2> QED
        BY <2>1, DeliveryAssumption DEF Events
<1> QED
    BY <1>1, <1>2, <1>3 DEF Precedes

\* An event waits in the next state.
LEMMA WaitingNext ==
    \A e : e \in Waiting' <=> \/ e \in ToSet(queue')
                              \/ \E i \in 1 .. Len(pieces') : e \in ToSet(pieces'[i])
BY DEF Waiting

\* A batch that waited, and was before all that waits, is put.
Puts(events, outcome) ==
    /\ IsBatch(events) /\ Put(events, outcome)
    /\ rec.from = "none" /\ todo' = todo
    /\ \/ rec' = NoRec
       \/ /\ rec' = [id |-> ids', events |-> events, from |-> "put", answer |-> "none"]
          /\ outcome = "nil"
    /\ Ascending(events) /\ Precedes(events, queue')
    /\ \A i \in 1 .. Len(pieces') : Precedes(events, pieces'[i])
    /\ ToSet(events) \subseteq Waiting /\ Waiting' \subseteq Waiting
    /\ \A e \in ToSet(events) : e \notin Waiting'

\* So it is for a piece.
LEMMA PutPieceWaited ==
    ASSUME DeliveryTypeOK, OrderOK, PutPiece
    PROVE  \E events \in Seq(Events) : \E outcome \in {"nil", "warned", "failed"} :
              Puts(events, outcome)
<1> DEFINE events == Head(pieces)
<1>1. PICK outcome \in {"nil", "warned", "failed"} :
          /\ Put(events, outcome)
          /\ rec' = IF outcome = "nil"
                    THEN [id |-> ids', events |-> events, from |-> "put", answer |-> "none"]
                    ELSE NoRec
    BY DEF PutPiece
<1>2. /\ pieces # <<>> /\ pieces' = Tail(pieces) /\ queue' = queue /\ todo' = todo
      /\ rec = NoRec
    BY DEF PutPiece, Sending
<1>3. /\ IsBatch(events) /\ events = pieces[1] /\ Len(pieces) \in Nat /\ Len(pieces) > 0
      /\ Len(pieces') = Len(pieces) - 1
      /\ \A k \in 1 .. Len(pieces) - 1 : pieces'[k] = pieces[k + 1]
      /\ \A i \in 1 .. Len(pieces') : IsBatch(pieces'[i])
    BY <1>2, PiecesFacts
<1> HIDE DEF events
<1>4. \A k \in 1 .. Len(pieces') : k + 1 \in 1 .. Len(pieces) /\ pieces'[k] = pieces[k + 1]
    BY <1>3
<1>5. 1 \in 1 .. Len(pieces)
    BY <1>3
<1>6. Ascending(events) /\ Precedes(events, queue')
    BY <1>2, <1>3, <1>5 DEF OrderOK
<1>7. \A i \in 1 .. Len(pieces') : Precedes(events, pieces'[i])
    <2> SUFFICES ASSUME NEW i \in 1 .. Len(pieces') PROVE Precedes(events, pieces'[i])
        OBVIOUS
    <2>1. 1 < i + 1 /\ i + 1 \in 1 .. Len(pieces)
        BY <1>4
    <2>2. Precedes(pieces[1], pieces[i + 1])
        BY <1>5, <2>1 DEF OrderOK
    <2> QED
        BY <1>3, <1>4, <2>2
<1>8. ToSet(events) \subseteq Waiting
    BY <1>3, <1>5, WaitingBy
<1>9. Waiting' \subseteq Waiting
    BY <1>2, <1>4, WaitingBy, WaitingNext
<1>10. \A e \in ToSet(events) : e \notin Waiting'
    <2>1. events \in Seq(Events) /\ queue' \in Seq(Events)
        BY <1>2, <1>3 DEF IsBatch, DeliveryTypeOK
    <2>2. \A e \in ToSet(events) : e \notin ToSet(queue')
        BY <1>6, <2>1, PrecedesApart
    <2>3. ASSUME NEW i \in 1 .. Len(pieces')
          PROVE  \A e \in ToSet(events) : e \notin ToSet(pieces'[i])
        <3>1. pieces'[i] \in Seq(Events)
            BY <1>3 DEF IsBatch
        <3> QED
            BY <1>7, <2>1, <3>1, PrecedesApart
    <2> QED
        BY <2>2, <2>3, WaitingNext
<1>11. events \in Seq(Events) /\ rec.from = "none"
    BY <1>2, <1>3 DEF IsBatch, NoRec
<1> QED
    BY <1>1, <1>2, <1>3, <1>6, <1>7, <1>8, <1>9, <1>10, <1>11 DEF Puts

\* So it is for what is persisted from the queue.
LEMMA PersistChunkWaited ==
    ASSUME DeliveryTypeOK, PassOK, OrderOK, PersistChunk
    PROVE  \E events \in Seq(Events) : \E outcome \in {"nil", "warned", "failed"} :
              Puts(events, outcome)
<1> DEFINE size == Smaller(FlushSize, Len(queue))
           events == SubSeq(queue, 1, size)
<1>1. /\ step = "persist" /\ queue # <<>>
      /\ UNCHANGED <<todo, pieces, rec>>
    BY DEF PersistChunk
<1>2. rec = NoRec /\ pieces = <<>>
    BY <1>1 DEF PassOK, DeliveryTypeOK
<1>3. queue \in Seq(Events) /\ Len(queue) \in Nat /\ Len(queue) > 0
    BY <1>1 DEF DeliveryTypeOK
<1>4. size \in 1 .. Len(queue) /\ size <= FlushSize
    BY <1>3, SmallerFacts
<1>5. /\ queue' = SubSeq(queue, size + 1, Len(queue))
      /\ \E outcome \in {"nil", "warned", "failed"} : Put(events, outcome)
    BY DEF PersistChunk, Chunk, Rest
<1> HIDE DEF size
<1>6. size \in 0 .. Len(queue)
    BY <1>4
<1>7. IsBatch(events) /\ events \in Seq(Events) /\ queue' \in Seq(Events)
    BY <1>3, <1>4, <1>5, ChunkFacts DEF IsBatch
<1>8. Ascending(events) /\ Precedes(events, queue')
    BY <1>3, <1>5, <1>6, CutOrder DEF OrderOK
<1>9. ToSet(events) \subseteq ToSet(queue) /\ ToSet(queue') \subseteq ToSet(queue)
    BY <1>3, <1>5, <1>6, PartsSubset
<1>10. \A e \in ToSet(events) : e \notin ToSet(queue')
    BY <1>7, <1>8, PrecedesApart
<1> HIDE DEF events
<1>11. pieces' = <<>> /\ Len(pieces') = 0
    BY <1>1, <1>2
<1>12. /\ ToSet(events) \subseteq Waiting /\ Waiting' \subseteq Waiting
       /\ \A e \in ToSet(events) : e \notin Waiting'
    BY <1>9, <1>10, <1>11, WaitingBy, WaitingNext
<1>13. PICK outcome \in {"nil", "warned", "failed"} : Put(events, outcome)
    BY <1>5
<1>14. /\ rec.from = "none" /\ rec' = NoRec /\ todo' = todo
       /\ \A i \in 1 .. Len(pieces') : Precedes(events, pieces'[i])
    BY <1>1, <1>2, <1>11 DEF NoRec
<1> QED
    BY <1>7, <1>8, <1>12, <1>13, <1>14 DEF Puts

\* Apart from what is enqueued and what is refused whole, nothing starts to wait.
LEMMA WaitingStays ==
    ASSUME DeliveryTypeOK, PassOK, DeliveryNext, ~PutPiece, ~PersistChunk, ~Enqueue,
           \A synced \in BOOLEAN : ~Isolate(synced)
    PROVE  Waiting' \subseteq Waiting
<1>1. CASE UNCHANGED <<queue, pieces>>
    BY <1>1, WaitingBy, WaitingNext
<1>2. CASE queue' = <<>> /\ pieces' = <<>>
    <2>1. ToSet(queue') = {} /\ Len(pieces') = 0
        BY <1>2 DEF ToSet
    <2> QED
        BY <2>1, WaitingNext
<1>3. CASE TakeChunk
    <2> DEFINE size == Smaller(FlushSize, pass.left)
    <2>1. /\ queue \in Seq(Events) /\ Len(queue) \in Nat /\ pass.left <= Len(queue)
          /\ pass.left \in Nat /\ pass.left > 0
        BY <1>3 DEF TakeChunk, DeliveryTypeOK
    <2>2. size \in 1 .. pass.left
        BY <2>1, SmallerFacts
    <2>3. pieces' = <<SubSeq(queue, 1, size)>> /\ queue' = SubSeq(queue, size + 1, Len(queue))
        BY <1>3 DEF TakeChunk, Chunk, Rest
    <2> HIDE DEF size
    <2>4. size \in 0 .. Len(queue)
        BY <2>1, <2>2
    <2>5. ToSet(SubSeq(queue, 1, size)) \subseteq ToSet(queue) /\ ToSet(queue') \subseteq ToSet(queue)
        BY <2>1, <2>3, <2>4, PartsSubset
    <2>6. \A i \in 1 .. Len(pieces') : ToSet(pieces'[i]) \subseteq ToSet(queue)
        <3> DEFINE a == SubSeq(queue, 1, size)
        <3> HIDE DEF a
        <3>1. pieces' = <<a>>
            BY <2>3 DEF a
        <3>2. \A i \in 1 .. Len(pieces') : pieces'[i] = a
            BY <3>1
        <3> QED
            BY <2>5, <3>2 DEF a
    <2> QED
        BY <2>5, <2>6, WaitingBy, WaitingNext
<1>4. CASE SplitLimit
    <2>1. pieces # <<>> /\ pieces' = Tail(pieces) /\ queue' = queue
        BY <1>4 DEF SplitLimit
    <2>2. /\ Len(pieces) \in Nat /\ Len(pieces') = Len(pieces) - 1
          /\ \A k \in 1 .. Len(pieces) - 1 : pieces'[k] = pieces[k + 1]
        BY <2>1, PiecesFacts
    <2>3. \A k \in 1 .. Len(pieces') : k + 1 \in 1 .. Len(pieces) /\ pieces'[k] = pieces[k + 1]
        BY <2>2
    <2> QED
        BY <2>1, <2>3, WaitingBy, WaitingNext
<1>5. CASE Stop \/ Arrive \/ Age \/ Restart
    BY <1>1, <1>5 DEF Stop, Arrive, Age, Restart, memory
<1>6. CASE BeginPass \/ Recovered \/ Replay \/ Defer \/ EndPass \/ PersistDone
    BY <1>1, <1>6 DEF BeginPass, Recovered, Replay, Defer, EndPass, PersistDone
<1>7. CASE Answer \/ GiveUp \/ AcknowledgeFails
    BY <1>1, <1>7 DEF Answer, Accept, Refuse, GiveUp, AcknowledgeFails
<1>8. ASSUME NEW synced \in BOOLEAN, Resolve(synced)
      PROVE  UNCHANGED <<queue, pieces>>
    BY <1>8 DEF Resolve, Confirm, Discard, Acknowledged
<1>9. CASE Exit \/ Crash \/ PowerLoss
    BY <1>2, <1>9 DEF Exit, Crash, PowerLoss, Down
<1> QED
    BY <1>1, <1>3, <1>4, <1>5, <1>6, <1>7, <1>8, <1>9 DEF DeliveryNext, Application, Loop, SendRecord

---------------------------------------------------------------------------
(* Order *)

\* Initially nothing waits.
LEMMA OrderInit == DeliveryInit => OrderOK
<1> SUFFICES ASSUME DeliveryInit PROVE OrderOK
    OBVIOUS
<1>1. queue = <<>> /\ pieces = <<>> /\ rec = NoRec
    BY DEF DeliveryInit
<1>2. Len(queue) = 0 /\ Len(pieces) = 0 /\ rec.from = "none"
    BY <1>1 DEF NoRec
<1> QED
    BY <1>2 DEF OrderOK, Ascending

\* An event is enqueued behind all that waits and all that is sent.
LEMMA OrderEnqueue ==
    ASSUME DeliveryTypeOK, NumbersOK, OrderOK, Enqueue
    PROVE  OrderOK'
<1>1. /\ queue' = Append(queue, made + 1) /\ UNCHANGED <<pieces, rec>>
      /\ queue \in Seq(Events) /\ made \in Nat /\ made + 1 \in Events
    BY DeliveryAssumption DEF Enqueue, DeliveryTypeOK, Events
<1>2. /\ Len(queue') = Len(queue) + 1 /\ Len(queue) \in Nat
      /\ queue'[Len(queue) + 1] = made + 1
      /\ \A k \in 1 .. Len(queue) : queue'[k] = queue[k]
    BY <1>1, AppendFacts
<1>3. \A k \in 1 .. Len(queue') : k \in 1 .. Len(queue) \/ k = Len(queue) + 1
    BY <1>2
<1>4. ASSUME NEW s \in Seq(Events), Precedes(s, queue), \A e \in ToSet(s) : e <= made
      PROVE  Precedes(s, queue')
    <2>1. \A k \in 1 .. Len(s) : s[k] <= made /\ s[k] \in Int
        <3>1. \A k \in 1 .. Len(s) : s[k] \in ToSet(s) /\ s[k] \in Events
            BY ElementFacts
        <3> QED
            BY <1>4, <3>1, DeliveryAssumption DEF Events
    <2> SUFFICES ASSUME NEW k \in 1 .. Len(s), NEW l \in 1 .. Len(queue') PROVE s[k] < queue'[l]
        BY DEF Precedes
    <2>2. CASE l \in 1 .. Len(queue)
        BY <1>2, <1>4, <2>2 DEF Precedes
    <2>3. CASE l = Len(queue) + 1
        BY <1>1, <1>2, <2>1, <2>3
    <2> QED
        BY <1>3, <2>2, <2>3
<1>5. Ascending(queue')
    <2>1. \A k \in 1 .. Len(queue) : queue[k] <= made /\ queue[k] \in Int
        <3>1. \A k \in 1 .. Len(queue) : queue[k] \in ToSet(queue) /\ queue[k] \in Events
            BY <1>1, ElementFacts
        <3>2. \A k \in 1 .. Len(queue) : queue[k] \in Waiting
            BY <3>1, WaitingBy
        <3> QED
            BY <3>1, <3>2, DeliveryAssumption DEF Events, NumbersOK
    <2> SUFFICES ASSUME NEW k \in 1 .. Len(queue'), NEW l \in 1 .. Len(queue'), k < l
                 PROVE  queue'[k] < queue'[l]
        BY DEF Ascending
    <2>2. k \in 1 .. Len(queue)
        BY <1>2, <1>3
    <2>3. CASE l \in 1 .. Len(queue)
        BY <1>2, <2>2, <2>3 DEF OrderOK, Ascending
    <2>4. CASE l = Len(queue) + 1
        BY <1>1, <1>2, <2>1, <2>2, <2>4
    <2> QED
        BY <1>3, <2>3, <2>4
<1>6. \A i \in 1 .. Len(pieces) : Precedes(pieces[i], queue')
    <2> SUFFICES ASSUME NEW i \in 1 .. Len(pieces) PROVE Precedes(pieces[i], queue')
        OBVIOUS
    <2>1. pieces[i] \in Seq(Events)
        BY DEF DeliveryTypeOK, IsBatch
    <2>2. \A e \in ToSet(pieces[i]) : e <= made
        BY WaitingBy DEF NumbersOK
    <2> QED
        BY <1>4, <2>1, <2>2 DEF OrderOK
<1>7. rec.from = "put" => Precedes(rec.events, queue')
    <2> SUFFICES ASSUME rec.from = "put" PROVE Precedes(rec.events, queue')
        OBVIOUS
    <2>1. rec.events \in Seq(Events) /\ Tried \in Kept /\ Tried.events = rec.events
        BY KeptHas DEF DeliveryTypeOK, Tried
    <2>2. \A e \in ToSet(rec.events) : e <= made
        BY <2>1 DEF NumbersOK
    <2> QED
        BY <1>4, <2>1, <2>2 DEF OrderOK
<1> QED
    BY <1>1, <1>5, <1>6, <1>7 DEF OrderOK

\* The halves of a batch come one after the other, before all that waits.
LEMMA OrderIsolate ==
    ASSUME DeliveryTypeOK, OrderOK, NEW synced \in BOOLEAN, Isolate(synced)
    PROVE  OrderOK'
<1> DEFINE m == Mid(Len(rec.events))
           a == SubSeq(rec.events, 1, m)
           b == SubSeq(rec.events, m + 1, Len(rec.events))
<1>1. /\ rec' = NoRec /\ queue' = queue /\ rec.from = "put" /\ Len(rec.events) > 1
      /\ pieces' = <<a, b>> \o pieces
    BY DEF Isolate, Splits, Acknowledged
<1>2. IsBatch(rec.events) /\ rec.events \in Seq(Events)
    BY <1>1 DEF DeliveryTypeOK, IsBatch
<1>3. m \in 1 .. Len(rec.events) - 1 /\ IsBatch(a) /\ IsBatch(b)
    BY <1>1, <1>2, HalvesFacts
<1> HIDE DEF m
<1>4. m \in 0 .. Len(rec.events)
    BY <1>2, <1>3
<1>5. /\ Ascending(a) /\ Ascending(b) /\ Precedes(a, b)
      /\ \A t : Precedes(rec.events, t) => Precedes(a, t) /\ Precedes(b, t)
    BY <1>1, <1>2, <1>4, CutOrder DEF OrderOK
<1> HIDE DEF a, b
<1>6. a \in Seq(Events) /\ b \in Seq(Events) /\ pieces \in Seq(Seq(Events))
    BY <1>3 DEF IsBatch, DeliveryTypeOK
<1>7. /\ Len(pieces') = Len(pieces) + 2 /\ pieces'[1] = a /\ pieces'[2] = b
      /\ \A k \in 1 .. Len(pieces) + 2 :
            k = 1 \/ k = 2 \/ (k - 2 \in 1 .. Len(pieces) /\ pieces'[k] = pieces[k - 2])
    BY <1>1, <1>6, PairFacts
<1>8. ASSUME NEW i \in 1 .. Len(pieces')
      PROVE  Ascending(pieces'[i]) /\ Precedes(pieces'[i], queue')
    BY <1>1, <1>5, <1>7 DEF OrderOK
<1>9. ASSUME NEW i \in 1 .. Len(pieces'), NEW j \in 1 .. Len(pieces'), i < j
      PROVE  Precedes(pieces'[i], pieces'[j])
    <2>1. CASE j = 2
        BY <1>5, <1>7, <1>9, <2>1
    <2>2. CASE j # 2
        <3>1. j - 2 \in 1 .. Len(pieces) /\ pieces'[j] = pieces[j - 2] /\ j # 1
            BY <1>7, <1>9, <2>2
        <3>2. CASE i = 1 \/ i = 2
            BY <1>1, <1>5, <1>7, <3>1, <3>2 DEF OrderOK
        <3>3. CASE i # 1 /\ i # 2
            <4>1. i - 2 \in 1 .. Len(pieces) /\ pieces'[i] = pieces[i - 2] /\ i - 2 < j - 2
                BY <1>7, <1>9, <3>3
            <4> QED
                BY <3>1, <4>1 DEF OrderOK
        <3> QED
            BY <3>2, <3>3
    <2> QED
        BY <2>1, <2>2
<1> QED
    BY <1>1, <1>8, <1>9 DEF OrderOK, NoRec

\* The other steps keep the order.
LEMMA OrderStep ==
    ASSUME DeliveryTypeOK, PassOK, NumbersOK, OrderOK, DeliveryNext
    PROVE  OrderOK'
<1>1. NoRec.from = "none"
    BY DEF NoRec
<1>2. ASSUME UNCHANGED <<queue, pieces>>,
             \/ rec' = NoRec \/ rec'.from = "log"
             \/ rec'.from = rec.from /\ rec'.events = rec.events
      PROVE  OrderOK'
    BY <1>1, <1>2 DEF OrderOK
<1>3. ASSUME queue' = <<>>, pieces' = <<>>, rec' = NoRec
      PROVE  OrderOK'
    <2>1. Len(queue') = 0 /\ Len(pieces') = 0
        BY <1>3
    <2> QED
        BY <1>1, <1>3, <2>1 DEF OrderOK, Ascending
<1>4. CASE TakeChunk
    <2> DEFINE size == Smaller(FlushSize, pass.left)
    <2>1. /\ queue \in Seq(Events) /\ Len(queue) \in Nat /\ pass.left <= Len(queue)
          /\ pass.left \in Nat /\ pass.left > 0
        BY <1>4 DEF TakeChunk, DeliveryTypeOK
    <2>2. size \in 1 .. pass.left
        BY <2>1, SmallerFacts
    <2>3. /\ pieces' = <<SubSeq(queue, 1, size)>> /\ queue' = SubSeq(queue, size + 1, Len(queue))
          /\ rec' = NoRec
        BY <1>4 DEF TakeChunk, Chunk, Rest, Sending
    <2> HIDE DEF size
    <2>4. size \in 0 .. Len(queue)
        BY <2>1, <2>2
    <2>5. /\ Ascending(SubSeq(queue, 1, size)) /\ Ascending(queue')
          /\ Precedes(SubSeq(queue, 1, size), queue')
        BY <2>1, <2>3, <2>4, CutOrder DEF OrderOK
    <2> DEFINE a == SubSeq(queue, 1, size)
    <2> HIDE DEF a
    <2>6. pieces' = <<a>> /\ rec'.from = "none"
        BY <1>1, <2>3 DEF a
    <2>7. Len(pieces') = 1 /\ \A i \in 1 .. 1 : pieces'[i] = a
        BY <2>6
    <2>8. Ascending(a) /\ Ascending(queue') /\ Precedes(a, queue')
        BY <2>5 DEF a
    <2>9. \A i, j \in 1 .. Len(pieces') : ~(i < j)
        BY <2>7
    <2> QED
        BY <2>6, <2>7, <2>8, <2>9 DEF OrderOK
<1>5. ASSUME pieces # <<>>, pieces' = Tail(pieces), queue' = queue
      PROVE  /\ Ascending(queue')
             /\ \A i \in 1 .. Len(pieces') : Ascending(pieces'[i]) /\ Precedes(pieces'[i], queue')
             /\ \A i, j \in 1 .. Len(pieces') : i < j => Precedes(pieces'[i], pieces'[j])
    <2>1. /\ Len(pieces) \in Nat /\ Len(pieces') = Len(pieces) - 1
          /\ \A k \in 1 .. Len(pieces) - 1 : pieces'[k] = pieces[k + 1]
        BY <1>5, PiecesFacts
    <2>2. \A k \in 1 .. Len(pieces') : k + 1 \in 1 .. Len(pieces) /\ pieces'[k] = pieces[k + 1]
        BY <2>1
    <2>3. \A i, j \in 1 .. Len(pieces') : i < j => i + 1 < j + 1
        BY <2>1
    <2> QED
        BY <1>5, <2>2, <2>3 DEF OrderOK
<1>6. CASE SplitLimit
    <2>1. pieces # <<>> /\ pieces' = Tail(pieces) /\ queue' = queue /\ rec' = NoRec
        BY <1>6 DEF SplitLimit, Sending
    <2> QED
        BY <1>1, <1>5, <2>1 DEF OrderOK
<1>7. CASE PutPiece
    <2>1. pieces # <<>> /\ pieces' = Tail(pieces) /\ queue' = queue
        BY <1>7 DEF PutPiece
    <2>2. PICK events \in Seq(Events) : \E outcome \in {"nil", "warned", "failed"} :
              Puts(events, outcome)
        BY <1>7, PutPieceWaited
    <2>3. rec'.from = "put" =>
              /\ rec'.events = events /\ Ascending(events) /\ Precedes(events, queue')
              /\ \A i \in 1 .. Len(pieces') : Precedes(events, pieces'[i])
        BY <1>1, <2>2 DEF Puts
    <2> QED
        BY <1>5, <2>1, <2>3 DEF OrderOK
<1>8. CASE PersistChunk
    <2> DEFINE size == Smaller(FlushSize, Len(queue))
    <2>1. step = "persist" /\ queue # <<>> /\ UNCHANGED <<pieces, rec>>
          /\ queue' = SubSeq(queue, size + 1, Len(queue))
        BY <1>8 DEF PersistChunk, Rest
    <2>2. queue \in Seq(Events) /\ Len(queue) \in Nat /\ Len(queue) > 0
        BY <2>1 DEF DeliveryTypeOK
    <2>3. size \in 1 .. Len(queue)
        BY <2>2, SmallerFacts
    <2> HIDE DEF size
    <2>4. size \in 0 .. Len(queue)
        BY <2>2, <2>3
    <2>5. Ascending(queue')
        BY <2>1, <2>2, <2>4, CutOrder DEF OrderOK
    <2>6. pieces' = <<>> /\ rec'.from # "put"
        BY <2>1 DEF PassOK
    <2>7. Len(pieces') = 0
        BY <2>6
    <2> QED
        BY <2>5, <2>6, <2>7 DEF OrderOK
<1>9. CASE Enqueue
    BY <1>9, OrderEnqueue
<1>10. ASSUME NEW synced \in BOOLEAN, Isolate(synced)
       PROVE  OrderOK'
    BY <1>10, OrderIsolate
<1>11. ASSUME NEW synced \in BOOLEAN, Confirm(synced) \/ Discard(synced)
       PROVE  OrderOK'
    BY <1>2, <1>11 DEF Confirm, Discard, Acknowledged
<1>12. CASE GiveUp \/ AcknowledgeFails
    BY <1>2, <1>12 DEF GiveUp, AcknowledgeFails
<1>13. CASE Answer
    <2>1. UNCHANGED <<queue, pieces>> /\ \E answer : rec' = [rec EXCEPT !.answer = answer]
        BY <1>13 DEF Answer, Accept, Refuse
    <2>2. rec'.from = rec.from /\ rec'.events = rec.events
        BY <2>1 DEF DeliveryTypeOK
    <2> QED
        BY <1>2, <2>1, <2>2
<1>14. CASE Stop \/ Arrive \/ Age \/ Restart
    BY <1>2, <1>14 DEF Stop, Arrive, Age, Restart, memory
<1>15. CASE BeginPass \/ Recovered \/ Defer \/ EndPass \/ PersistDone
    BY <1>2, <1>15 DEF BeginPass, Recovered, Defer, EndPass, PersistDone
<1>16. CASE Replay
    <2>1. UNCHANGED <<queue, pieces>> /\ rec'.from = "log"
        BY <1>16 DEF Replay, FromLog
    <2> QED
        BY <1>2, <2>1
<1>17. CASE Exit \/ Crash \/ PowerLoss
    BY <1>3, <1>17 DEF Exit, Crash, PowerLoss, Down
<1> QED
    BY <1>4, <1>6, <1>7, <1>8, <1>9, <1>10, <1>11, <1>12, <1>13, <1>14, <1>15, <1>16, <1>17
       DEF DeliveryNext, Application, Loop, SendRecord, Resolve

---------------------------------------------------------------------------
(* Numbers *)

\* Initially nothing is numbered.
LEMMA NumbersInit == DeliveryInit => NumbersOK /\ Kept = {} /\ Waiting = {}
<1> SUFFICES ASSUME DeliveryInit PROVE NumbersOK /\ Kept = {} /\ Waiting = {}
    OBVIOUS
<1>1. /\ log = <<>> /\ versions = {<<>>} /\ todo = <<>> /\ rec = NoRec
      /\ queue = <<>> /\ pieces = <<>> /\ accepted = {}
    BY DEF DeliveryInit, Log!LogInit
<1>2. rec.from = "none" /\ ToSet(<<>>) = {} /\ Len(pieces) = 0
    BY <1>1 DEF NoRec, ToSet
<1>3. Kept = {}
    <2>1. \A v \in versions \union {log, todo} : ToSet(v) = {}
        BY <1>1, <1>2
    <2> QED
        BY <1>2, <2>1, KeptBy
<1>4. Waiting = {}
    BY <1>1, <1>2, WaitingBy
<1>5. Numbered(<<>>)
    BY DEF Numbered
<1> QED
    BY <1>1, <1>3, <1>4, <1>5 DEF NumbersOK

\* A put numbers the newest record.
LEMMA NumbersPut ==
    ASSUME DeliveryTypeOK, PassOK, NumbersOK, NEW events, NEW outcome \in {"nil", "warned", "failed"},
           Puts(events, outcome)
    PROVE  NumbersOK'
<1> DEFINE r == [id |-> ids + 1, events |-> events]
<1>1. /\ IsBatch(events) /\ Put(events, outcome) /\ ids \in Nat /\ ids' = ids + 1
      /\ UNCHANGED <<made, accepted>>
    BY DEF Puts, Put, DeliveryTypeOK
<1>2. Kept' \subseteq Kept \union {r}
    <2>1. rec'.from # "none" =>
              rec' = [id |-> ids', events |-> events, from |-> "put", answer |-> "none"]
        BY DEF Puts, NoRec
    <2>2. todo' = todo
        BY DEF Puts
    <2> QED
        BY <1>1, <2>1, <2>2, KeptPut
<1>3. Numbered(log')
    <2>1. CASE log' = log
        BY <2>1 DEF NumbersOK
    <2>2. CASE log' # log
        <3>1. /\ Len(log') = Len(log) + 1 /\ Len(log) \in Nat
              /\ log'[Len(log) + 1] = r
              /\ \A k \in 1 .. Len(log) : log'[k] = log[k]
            BY <1>1, <2>2, PutAppends
        <3>2. \A k \in 1 .. Len(log) : log[k] \in Kept
            <4>1. log \in Seq(Records)
                BY DEF DeliveryTypeOK, IsLog
            <4>2. \A k \in 1 .. Len(log) : log[k] \in ToSet(log)
                BY <4>1, ElementFacts
            <4> QED
                BY <4>2, KeptHas
        <3>3. \A k \in 1 .. Len(log) : log[k].id <= ids /\ log[k].id \in Nat
            BY <3>2, KeptRecords DEF NumbersOK, Records
        <3>4. r.id = ids + 1
            OBVIOUS
        <3> SUFFICES ASSUME NEW i \in 1 .. Len(log'), NEW j \in 1 .. Len(log'), i < j
                     PROVE  log'[i].id < log'[j].id
            BY DEF Numbered
        <3>5. i \in 1 .. Len(log) /\ (j \in 1 .. Len(log) \/ j = Len(log) + 1)
            BY <3>1
        <3>6. CASE j \in 1 .. Len(log)
            BY <3>1, <3>5, <3>6 DEF NumbersOK, Numbered
        <3>7. CASE j = Len(log) + 1
            BY <1>1, <3>1, <3>3, <3>4, <3>5, <3>7
        <3> QED
            BY <3>5, <3>6, <3>7
    <2> QED
        BY <2>1, <2>2
<1>4. \A v \in versions' : v \in versions \/ v = log'
    <2>1. CASE outcome = "nil"
        BY <1>1, <2>1 DEF Put, Log!Synced
    <2>2. CASE outcome = "warned"
        BY <1>1, <2>2 DEF Put, Log!Exposed
    <2>3. CASE outcome = "failed"
        BY <1>1, <2>3 DEF Put
    <2> QED
        BY <2>1, <2>2, <2>3
<1>5. \A v \in versions' : Numbered(v)
    BY <1>3, <1>4 DEF NumbersOK
<1>6. ASSUME NEW s \in Kept'
      PROVE  s.id <= ids' /\ \A e \in ToSet(s.events) : e <= made'
    <2>1. CASE s \in Kept
        <3>1. s.id \in Nat /\ s.id <= ids
            BY <2>1, KeptRecords DEF NumbersOK, Records
        <3> QED
            BY <1>1, <2>1, <3>1 DEF NumbersOK
    <2>2. CASE s = r
        <3>1. s.id = ids + 1 /\ s.events = events
            BY <2>2
        <3>2. \A e \in ToSet(events) : e <= made
            BY DEF Puts, NumbersOK
        <3> QED
            BY <1>1, <3>1, <3>2
    <2> QED
        BY <1>2, <2>1, <2>2
<1>7. Waiting' \subseteq Waiting
    BY DEF Puts
<1> QED
    BY <1>1, <1>3, <1>5, <1>6, <1>7 DEF NumbersOK

\* Without one of its records a log is still numbered.
LEMMA NumberedRemoved ==
    ASSUME NEW s \in Seq(Records), Numbered(s), NEW i \in 1 .. Len(s)
    PROVE  Numbered(RemoveAt(s, i))
<1> DEFINE t == RemoveAt(s, i)
<1>1. /\ t \in Seq(Records) /\ Len(t) = Len(s) - 1 /\ Len(s) \in Nat
      /\ \A k \in 1 .. Len(s) - 1 : t[k] = IF k < i THEN s[k] ELSE s[k + 1]
    <2>1. Len(s) \in Nat
        OBVIOUS
    <2> QED
        BY <2>1, RemoveFacts
<1> HIDE DEF t
<1> SUFFICES ASSUME NEW k \in 1 .. Len(t), NEW l \in 1 .. Len(t), k < l
             PROVE  t[k].id < t[l].id
    BY DEF Numbered, t
<1>2. /\ k \in 1 .. Len(s) /\ k + 1 \in 1 .. Len(s)
      /\ l \in 1 .. Len(s) /\ l + 1 \in 1 .. Len(s)
      /\ k \in 1 .. Len(s) - 1 /\ l \in 1 .. Len(s) - 1
    BY <1>1
<1>3. PICK a \in {k, k + 1}, b \in {l, l + 1} : t[k] = s[a] /\ t[l] = s[b] /\ a < b
    <2>1. CASE k < i /\ l < i
        BY <1>1, <1>2, <2>1
    <2>2. CASE k < i /\ ~(l < i)
        <3>1. k < l + 1 /\ t[k] = s[k] /\ t[l] = s[l + 1]
            BY <1>1, <1>2, <2>2
        <3> QED
            BY <3>1
    <2>3. CASE ~(k < i)
        <3>1. k + 1 < l + 1 /\ t[k] = s[k + 1] /\ t[l] = s[l + 1]
            BY <1>1, <1>2, <2>3
        <3> QED
            BY <3>1
    <2> QED
        BY <2>1, <2>2, <2>3
<1> QED
    BY <1>2, <1>3 DEF Numbered

\* What a step leaves of the log is numbered.
LEMMA NumberedStep ==
    ASSUME DeliveryTypeOK, NumbersOK, DeliveryNext, ~PutPiece, ~PersistChunk
    PROVE  Numbered(log') /\ \A v \in versions' : Numbered(v)
<1>1. CASE UNCHANGED file
    BY <1>1 DEF file, NumbersOK
<1>2. ASSUME NEW synced \in BOOLEAN, Resolve(synced)
      PROVE  Numbered(log') /\ \A v \in versions' : Numbered(v)
    <2>1. Acknowledged(synced)
        BY <1>2 DEF Resolve, Confirm, Isolate, Discard
    <2>2. log \in Seq(Records)
        BY DEF DeliveryTypeOK, IsLog
    <2>3. PICK i \in 1 .. Len(log) : log' = RemoveAt(log, i)
        BY <2>1, AcknowledgedFacts
    <2>4. Numbered(log')
        BY <2>2, <2>3, NumberedRemoved DEF NumbersOK
    <2>5. \A v \in versions' : v \in versions \/ v = log'
        BY <2>1, AcknowledgedFacts
    <2> QED
        BY <2>4, <2>5 DEF NumbersOK
<1>3. CASE GiveUp
    <2>1. log' = log /\ \A v \in versions' : v \in versions \/ v = log'
        BY <1>3 DEF GiveUp, Retained, Log!Synced
    <2> QED
        BY <2>1 DEF NumbersOK
<1>4. CASE PowerLoss
    <2>1. log' \in versions /\ versions' = {log'}
        BY <1>4 DEF PowerLoss, Log!PowerLoss, Log!Synced
    <2> QED
        BY <2>1 DEF NumbersOK
<1>5. CASE Application \/ Arrive \/ Age \/ Restart \/ Exit \/ Crash \/ Answer \/ AcknowledgeFails
    BY <1>1, <1>5 DEF Application, Enqueue, Stop, Arrive, Age, Restart, Exit, Crash, Answer,
                      Accept, Refuse, AcknowledgeFails
<1>6. CASE BeginPass \/ Recovered \/ Replay \/ Defer \/ TakeChunk \/ SplitLimit \/ EndPass
              \/ PersistDone
    BY <1>1, <1>6 DEF BeginPass, Recovered, Replay, Defer, TakeChunk, SplitLimit, EndPass,
                      PersistDone
<1> QED
    BY <1>2, <1>3, <1>4, <1>5, <1>6 DEF DeliveryNext, Loop, SendRecord

\* Only a put numbers a batch, only Enqueue an event; nothing gets too old while
\* a record is sent; and only what is being sent is accepted.
LEMMA CountersStep ==
    ASSUME DeliveryTypeOK, DeliveryNext, ~PutPiece, ~PersistChunk
    PROVE  /\ ids' = ids
           /\ made' = made \/ (Enqueue /\ made' = made + 1)
           /\ old' = old \/ (Age /\ old' = old + 1 /\ rec = NoRec /\ rec' = NoRec)
           /\ accepted' = accepted \/ (Posting /\ Clean /\ Arrived /\ (Arrive \/ Accept))
<1>1. CASE UNCHANGED bounds /\ UNCHANGED accepted
    BY <1>1 DEF bounds
<1>2. CASE Enqueue
    BY <1>2 DEF Enqueue, history
<1>3. CASE Age
    BY <1>3 DEF Age, memory, history
<1>4. CASE Arrive \/ Accept
    BY <1>4 DEF Arrive, Accept, bounds
<1>5. CASE Stop \/ Restart \/ Exit \/ Crash \/ PowerLoss \/ Refuse \/ GiveUp \/ AcknowledgeFails
    BY <1>5 DEF Stop, Restart, Exit, Crash, PowerLoss, Down, Refuse, GiveUp, AcknowledgeFails,
                bounds, history
<1>6. CASE BeginPass \/ Recovered \/ Replay \/ Defer \/ TakeChunk \/ SplitLimit \/ EndPass
              \/ PersistDone
    BY <1>1, <1>6 DEF BeginPass, Recovered, Replay, Defer, TakeChunk, SplitLimit, EndPass,
                      PersistDone, history
<1>7. ASSUME NEW synced \in BOOLEAN, Resolve(synced)
      PROVE  UNCHANGED bounds /\ UNCHANGED accepted
    BY <1>7 DEF Resolve, Confirm, Isolate, Discard, Acknowledged
<1> QED
    BY <1>1, <1>2, <1>3, <1>4, <1>5, <1>6, <1>7
       DEF DeliveryNext, Application, Loop, SendRecord, Answer

\* What may start to wait: an event that is enqueued, or one refused with others.
LEMMA WaitingStep ==
    ASSUME DeliveryTypeOK, PassOK, OrderOK, DeliveryNext
    PROVE  \A e \in Waiting' :
              \/ e \in Waiting
              \/ Enqueue /\ e = made + 1
              \/ /\ \E synced \in BOOLEAN : Isolate(synced)
                 /\ e \in ToSet(rec.events)
<1>1. CASE Enqueue
    <2>1. /\ queue' = Append(queue, made + 1) /\ pieces' = pieces
          /\ queue \in Seq(Events) /\ made + 1 \in Events
        BY <1>1, DeliveryAssumption DEF Enqueue, DeliveryTypeOK, Events
    <2>2. ToSet(queue') = ToSet(queue) \union {made + 1}
        BY <2>1, AppendFacts
    <2> QED
        BY <1>1, <2>1, <2>2, WaitingBy, WaitingNext
<1>2. ASSUME NEW synced \in BOOLEAN, Isolate(synced)
      PROVE  \A e \in Waiting' : e \in Waiting \/ e \in ToSet(rec.events)
    <2> DEFINE m == Mid(Len(rec.events))
               a == SubSeq(rec.events, 1, m)
               b == SubSeq(rec.events, m + 1, Len(rec.events))
    <2>1. /\ queue' = queue /\ rec.from = "put" /\ Len(rec.events) > 1
          /\ pieces' = <<a, b>> \o pieces
        BY <1>2 DEF Isolate, Splits, Acknowledged
    <2>2. IsBatch(rec.events) /\ rec.events \in Seq(Events)
        BY <2>1 DEF DeliveryTypeOK, IsBatch
    <2>3. m \in 1 .. Len(rec.events) - 1 /\ IsBatch(a) /\ IsBatch(b)
        BY <2>1, <2>2, HalvesFacts
    <2> HIDE DEF m
    <2>4. m \in 0 .. Len(rec.events)
        BY <2>2, <2>3
    <2>5. ToSet(a) \subseteq ToSet(rec.events) /\ ToSet(b) \subseteq ToSet(rec.events)
        BY <2>2, <2>4, PartsSubset
    <2> HIDE DEF a, b
    <2>6. a \in Seq(Events) /\ b \in Seq(Events) /\ pieces \in Seq(Seq(Events))
        BY <2>3 DEF IsBatch, DeliveryTypeOK
    <2>7. /\ Len(pieces') = Len(pieces) + 2 /\ pieces'[1] = a /\ pieces'[2] = b
          /\ \A k \in 1 .. Len(pieces) + 2 :
                k = 1 \/ k = 2 \/ (k - 2 \in 1 .. Len(pieces) /\ pieces'[k] = pieces[k - 2])
        BY <2>1, <2>6, PairFacts
    <2> SUFFICES ASSUME NEW e \in Waiting' PROVE e \in Waiting \/ e \in ToSet(rec.events)
        OBVIOUS
    <2>8. CASE e \in ToSet(queue')
        BY <2>1, <2>8, WaitingBy
    <2>9. ASSUME NEW k \in 1 .. Len(pieces'), e \in ToSet(pieces'[k])
          PROVE  e \in Waiting \/ e \in ToSet(rec.events)
        <3>1. k = 1 \/ k = 2 \/ (k - 2 \in 1 .. Len(pieces) /\ pieces'[k] = pieces[k - 2])
            BY <2>7
        <3>2. CASE k = 1 \/ k = 2
            BY <2>5, <2>7, <2>9, <3>2
        <3>3. CASE k - 2 \in 1 .. Len(pieces) /\ pieces'[k] = pieces[k - 2]
            BY <2>9, <3>3, WaitingBy
        <3> QED
            BY <3>1, <3>2, <3>3
    <2> QED
        BY <2>8, <2>9, WaitingNext
<1>3. CASE PutPiece \/ PersistChunk
    <2>1. \E events : \E outcome : Puts(events, outcome)
        BY <1>3, PutPieceWaited, PersistChunkWaited
    <2> QED
        BY <2>1 DEF Puts
<1> QED
    BY <1>1, <1>2, <1>3, WaitingStays

\* Every step keeps the numbers.
LEMMA NumbersStep ==
    ASSUME DeliveryTypeOK, PassOK, NumbersOK, OrderOK, DeliveryNext
    PROVE  NumbersOK'
<1>1. CASE PutPiece \/ PersistChunk
    BY <1>1, PutPieceWaited, PersistChunkWaited, NumbersPut
<1>2. CASE ~PutPiece /\ ~PersistChunk
    <2>1. Numbered(log') /\ \A v \in versions' : Numbered(v)
        BY <1>2, NumberedStep
    <2>2. Kept' \subseteq Kept
        BY <1>2, KeptStays
    <2>3. /\ made \in Nat /\ ids' = ids /\ (made' = made \/ (Enqueue /\ made' = made + 1))
          /\ \A e \in Events : e <= made => e <= made'
        BY <1>2, CountersStep, DeliveryAssumption DEF DeliveryTypeOK, Events
    <2>4. ASSUME NEW r \in Kept'
          PROVE  r.id <= ids' /\ \A e \in ToSet(r.events) : e <= made'
        <3>1. r \in Kept /\ ToSet(r.events) \subseteq Events
            BY <2>2, KeptRecords
        <3> QED
            BY <2>3, <3>1 DEF NumbersOK
    <2>5. ASSUME NEW a \in accepted'
          PROVE  a[1] <= made'
        <3>1. CASE a \in accepted
            <4>1. a[1] \in Events /\ a[1] <= made
                BY <3>1 DEF DeliveryTypeOK, NumbersOK
            <4> QED
                BY <2>3, <4>1
        <3>2. CASE a \notin accepted
            <4>1. Posting /\ Arrived
                BY <1>2, <3>2, CountersStep
            <4>2. a \in ToSet(rec.events) \X {rec.id}
                BY <3>2, <4>1 DEF Arrived
            <4>3. a[1] \in ToSet(rec.events)
                BY <4>2
            <4>4. Tried \in Kept /\ Tried.events = rec.events
                BY <4>1, KeptHas DEF Posting, Tried
            <4>5. a[1] \in Events /\ a[1] <= made
                BY <4>3, <4>4, KeptRecords DEF NumbersOK
            <4> QED
                BY <2>3, <4>5
        <3> QED
            BY <3>1, <3>2
    <2>6. ASSUME NEW e \in Waiting'
          PROVE  e <= made'
        <3>1. CASE e \in Waiting
            <4>1. e \in Events
                BY <3>1, WaitingTypes
            <4> QED
                BY <2>3, <3>1, <4>1 DEF NumbersOK
        <3>2. CASE Enqueue /\ e = made + 1
            BY <2>3, <3>2 DEF Enqueue
        <3>3. CASE (\E synced \in BOOLEAN : Isolate(synced)) /\ e \in ToSet(rec.events)
            <4>1. rec.from = "put"
                BY <3>3 DEF Isolate, Splits
            <4>2. Tried \in Kept /\ Tried.events = rec.events
                BY <4>1, KeptHas DEF Tried
            <4>3. e \in Events /\ e <= made
                BY <3>3, <4>2, KeptRecords DEF NumbersOK
            <4> QED
                BY <2>3, <4>3
        <3> QED
            BY <3>1, <3>2, <3>3, WaitingStep
    <2> QED
        BY <2>1, <2>4, <2>5, <2>6 DEF NumbersOK
<1> QED
    BY <1>1, <1>2

---------------------------------------------------------------------------
(* Once *)

\* What is invalid stays invalid.
LEMMA InvalidGrows ==
    ASSUME DeliveryTypeOK, old' = old \/ old' = old + 1
    PROVE  /\ Invalid \subseteq Invalid'
           /\ \A r : Spoiled(r) => Spoiled(r)'
<1>1. old \in Nat
    BY DeliveryAssumption DEF DeliveryTypeOK
<1>2. Invalid \subseteq Invalid'
    BY <1>1 DEF Invalid
<1> QED
    BY <1>2 DEF Spoiled, Holds

\* What is no longer kept and no longer waits does no harm.
LEMMA OnceShrinks ==
    ASSUME OnceOK, Kept' \subseteq Kept, Waiting' \subseteq Waiting, accepted' = accepted,
           \A r : Spoiled(r) => Spoiled(r)',
           rec'.from = "put" => rec.from = "put" /\ rec'.id = rec.id /\ Tried' = Tried
                                  /\ Invalid' = Invalid
    PROVE  OnceOK'
<1>1. \A r, s \in Kept' : r.id = s.id => r = s
    BY DEF OnceOK
<1>2. \A r, s \in Kept' : r.id < s.id => Spoiled(r)' \/ \A e \in ToSet(r.events) : ~Holds(s, e)
    BY DEF OnceOK
<1>3. \A r \in Kept', a \in accepted' : Holds(r, a[1]) => a[2] = r.id \/ Spoiled(r)'
    BY DEF OnceOK
<1>4. \A e \in Waiting' :
          /\ \A r \in Kept' : Holds(r, e) => Spoiled(r)'
          /\ \A a \in accepted' : a[1] # e
    BY DEF OnceOK
<1>5. rec'.from = "put" =>
          \A a \in accepted' : Holds(Tried', a[1]) => a[2] = rec'.id /\ ~Spoiled(Tried)'
    BY DEF OnceOK, Spoiled
<1>6. OneBatchPerEvent'
    BY DEF OnceOK, OneBatchPerEvent
<1> QED
    BY <1>1, <1>2, <1>3, <1>4, <1>5, <1>6 DEF OnceOK, Holds

\* A batch put anew shares an event only with batches that were split.
LEMMA OncePut ==
    ASSUME DeliveryTypeOK, PassOK, NumbersOK, OnceOK, NEW events,
           NEW outcome \in {"nil", "warned", "failed"}, Puts(events, outcome)
    PROVE  OnceOK'
<1> DEFINE n == [id |-> ids + 1, events |-> events]
<1>1. /\ IsBatch(events) /\ Put(events, outcome) /\ ids \in Nat /\ ids' = ids + 1
      /\ UNCHANGED <<old, accepted>>
    BY DEF Puts, Put, DeliveryTypeOK
<1>2. Kept' \subseteq Kept \union {n}
    <2>1. rec'.from # "none" =>
              rec' = [id |-> ids', events |-> events, from |-> "put", answer |-> "none"]
        BY DEF Puts, NoRec
    <2>2. todo' = todo
        BY DEF Puts
    <2> QED
        BY <1>1, <2>1, <2>2, KeptPut
<1>3. /\ n.id = ids + 1 /\ n.events = events /\ \A e : Holds(n, e) <=> e \in ToSet(events)
    BY DEF Holds
<1>4. \A r \in Kept : r.id \in Nat /\ r.id <= ids
    BY KeptRecords DEF NumbersOK, Records
<1>5. rec'.from = "put" => Tried' = n /\ rec'.id = ids + 1
    <2>1. rec'.from = "put" =>
              rec' = [id |-> ids', events |-> events, from |-> "put", answer |-> "none"]
        BY DEF Puts, NoRec
    <2> QED
        BY <1>1, <2>1 DEF Tried
<1> HIDE DEF n
<1>6. \A r : Spoiled(r)' <=> Spoiled(r)
    BY <1>1 DEF Spoiled, Invalid
<1>7. \A e \in ToSet(events) :
          /\ \A r \in Kept : Holds(r, e) => Spoiled(r)
          /\ \A a \in accepted : a[1] # e
          /\ e \notin Waiting'
    BY DEF Puts, OnceOK
<1>8. \A r, s \in Kept' : r.id = s.id => r = s
    BY <1>1, <1>2, <1>3, <1>4 DEF OnceOK
<1>9. ASSUME NEW r \in Kept', NEW s \in Kept', r.id < s.id
      PROVE  Spoiled(r)' \/ \A e \in ToSet(r.events) : ~Holds(s, e)
    <2>1. r \in Kept
        BY <1>1, <1>2, <1>3, <1>4, <1>9
    <2>2. CASE s \in Kept
        BY <1>6, <1>9, <2>1, <2>2 DEF OnceOK
    <2>3. CASE s = n
        BY <1>3, <1>6, <1>7, <2>1, <2>3 DEF Holds
    <2> QED
        BY <1>2, <2>2, <2>3
<1>10. ASSUME NEW r \in Kept', NEW a \in accepted', Holds(r, a[1])
       PROVE  a[2] = r.id \/ Spoiled(r)'
    <2>1. r # n
        BY <1>1, <1>3, <1>7, <1>10
    <2> QED
        BY <1>1, <1>2, <1>6, <1>10, <2>1 DEF OnceOK
<1>11. ASSUME NEW e \in Waiting'
       PROVE  /\ \A r \in Kept' : Holds(r, e) => Spoiled(r)'
              /\ \A a \in accepted' : a[1] # e
    <2>1. e \in Waiting /\ e \notin ToSet(events)
        BY <1>7 DEF Puts
    <2> QED
        BY <1>1, <1>2, <1>3, <1>6, <2>1 DEF OnceOK
<1>12. rec'.from = "put" =>
           \A a \in accepted' : Holds(Tried', a[1]) => a[2] = rec'.id /\ ~Spoiled(Tried)'
    BY <1>1, <1>3, <1>5, <1>7
<1>13. OneBatchPerEvent'
    BY <1>1 DEF OnceOK, OneBatchPerEvent
<1> QED
    BY <1>8, <1>9, <1>10, <1>11, <1>12, <1>13 DEF OnceOK, Holds

\* A record that was just put is still the one that is sent.
LEMMA RecStep ==
    ASSUME DeliveryTypeOK, DeliveryNext, ~PutPiece, ~PersistChunk
    PROVE  rec'.from = "put" => rec.from = "put" /\ rec'.id = rec.id /\ Tried' = Tried
<1>1. NoRec.from = "none"
    BY DEF NoRec
<1>2. CASE rec' = NoRec
    BY <1>1, <1>2
<1>3. CASE rec' = rec
    BY <1>3 DEF Tried
<1>4. CASE Answer
    <2>1. \E answer : rec' = [rec EXCEPT !.answer = answer]
        BY <1>4 DEF Answer, Accept, Refuse
    <2> QED
        BY <2>1 DEF Tried, DeliveryTypeOK
<1>5. CASE Replay
    BY <1>5 DEF Replay, FromLog
<1>6. CASE Application \/ Arrive \/ Age \/ Restart
    BY <1>3, <1>6 DEF Application, Enqueue, Stop, Arrive, Age, Restart, memory
<1>7. CASE BeginPass \/ Recovered \/ Defer \/ TakeChunk \/ SplitLimit \/ EndPass \/ PersistDone
    BY <1>3, <1>7 DEF BeginPass, Recovered, Defer, TakeChunk, SplitLimit, EndPass, PersistDone
<1>8. CASE GiveUp \/ AcknowledgeFails \/ Exit \/ Crash \/ PowerLoss
    BY <1>2, <1>8 DEF GiveUp, AcknowledgeFails, Exit, Crash, PowerLoss, Down
<1>9. ASSUME NEW synced \in BOOLEAN, Resolve(synced)
      PROVE  rec' = NoRec
    BY <1>9 DEF Resolve, Confirm, Isolate, Discard, Acknowledged
<1> QED
    BY <1>2, <1>4, <1>5, <1>6, <1>7, <1>8, <1>9 DEF DeliveryNext, Loop, SendRecord

\* A new event is in no batch yet.
LEMMA OnceEnqueue ==
    ASSUME DeliveryTypeOK, PassOK, NumbersOK, OrderOK, OnceOK, Enqueue
    PROVE  OnceOK'
<1>1. /\ made \in Nat /\ UNCHANGED <<old, accepted, rec>>
    BY DeliveryAssumption DEF Enqueue, history, DeliveryTypeOK
<1>2. DeliveryNext /\ ~PutPiece /\ ~PersistChunk
    BY <1>1 DEF DeliveryNext, Application, Enqueue, PutPiece, PersistChunk, Put, DeliveryTypeOK, bounds
<1>3. Kept' \subseteq Kept
    BY <1>2, KeptStays
<1>4. \A r : Spoiled(r)' <=> Spoiled(r)
    BY <1>1 DEF Spoiled, Invalid
<1>5. /\ \A r \in Kept : ~Holds(r, made + 1)
      /\ \A a \in accepted : a[1] # made + 1
    <2>1. made \in Nat /\ ~(made + 1 <= made)
        BY <1>1
    <2> QED
        BY <2>1 DEF NumbersOK, Holds
<1>6. \A e \in Waiting' : e \in Waiting \/ e = made + 1
    <2>1. \A synced \in BOOLEAN : ~Isolate(synced)
        BY <1>1 DEF Isolate, Splits, Acknowledged, NoRec
    <2> QED
        BY <1>2, <2>1, WaitingStep
<1>7. Tried' = Tried
    BY <1>1 DEF Tried
<1> QED
    BY <1>1, <1>3, <1>4, <1>5, <1>6, <1>7 DEF OnceOK, Holds, OneBatchPerEvent

\* What is accepted is in no other batch that could still be accepted.
LEMMA OnceArrives ==
    ASSUME DeliveryTypeOK, NumbersOK, OnceOK, Posting, Clean, Arrived,
           Kept' \subseteq Kept, Waiting' \subseteq Waiting, old' = old,
           rec'.from = rec.from, rec'.id = rec.id, Tried' = Tried
    PROVE  OnceOK'
<1>1. /\ Tried \in Kept /\ Tried.id = rec.id /\ Tried.events = rec.events
      /\ \A e : Holds(Tried, e) <=> e \in ToSet(rec.events)
    BY KeptHas DEF Posting, Tried, Holds
<1>2. ~Spoiled(Tried)
    BY <1>1 DEF Clean, Spoiled
<1>3. \A r : Spoiled(r)' <=> Spoiled(r)
    BY DEF Spoiled, Invalid
<1>4. \A a \in accepted' : a \in accepted \/ (Holds(Tried, a[1]) /\ a[2] = rec.id)
    <2>1. \A a \in ToSet(rec.events) \X {rec.id} : a[1] \in ToSet(rec.events) /\ a[2] = rec.id
        OBVIOUS
    <2> QED
        BY <1>1, <2>1 DEF Arrived
<1>5. \A r \in Kept : r.id \in Nat
    BY KeptRecords DEF Records
<1>6. ASSUME NEW r \in Kept, NEW e, Holds(r, e), Holds(Tried, e)
      PROVE  rec.id = r.id \/ Spoiled(r)
    <2>1. CASE r.id < rec.id
        BY <1>1, <1>6, <2>1 DEF OnceOK, Holds
    <2>2. CASE rec.id < r.id
        BY <1>1, <1>2, <1>6, <2>2 DEF OnceOK, Holds
    <2> QED
        BY <1>1, <1>5, <2>1, <2>2
<1>7. \A r \in Kept', a \in accepted' : Holds(r, a[1]) => a[2] = r.id \/ Spoiled(r)
    BY <1>4, <1>6 DEF OnceOK
<1>8. \A e \in Waiting' : \A a \in accepted' : a[1] # e
    BY <1>1, <1>2, <1>4 DEF OnceOK
<1>9. \A a \in accepted' : Holds(Tried, a[1]) => a[2] = rec.id
    BY <1>1, <1>2, <1>4 DEF OnceOK
<1>10. OneBatchPerEvent'
    <2> SUFFICES ASSUME NEW one \in accepted', NEW other \in accepted', one[1] = other[1]
                 PROVE  one = other
        BY DEF OneBatchPerEvent
    <2>1. one[2] = other[2]
        <3>1. CASE one \in accepted /\ other \in accepted
            BY <3>1 DEF OnceOK, OneBatchPerEvent
        <3>2. CASE one \notin accepted \/ other \notin accepted
            BY <1>4, <1>9, <3>2
        <3> QED
            BY <3>1, <3>2
    <2>2. accepted' \subseteq Events \X Nat
        <3>1. ToSet(rec.events) \subseteq Events /\ rec.id \in Nat
            BY <1>1, KeptRecords DEF DeliveryTypeOK
        <3> QED
            BY <3>1 DEF Arrived, DeliveryTypeOK
    <2> QED
        BY <2>1, <2>2
<1> QED
    BY <1>2, <1>3, <1>7, <1>8, <1>9, <1>10 DEF OnceOK, Holds

\* The events of a batch that is split are in spoiled batches only.
LEMMA OnceIsolate ==
    ASSUME DeliveryTypeOK, PassOK, RecOK, NumbersOK, OrderOK, OnceOK, DeliveryNext,
           NEW synced \in BOOLEAN, Isolate(synced), ~PutPiece, ~PersistChunk, ~Enqueue
    PROVE  OnceOK'
<1>1. /\ rec.from = "put" /\ rec.answer = "400" /\ rec' = NoRec
      /\ UNCHANGED <<old, accepted>>
    BY DEF Isolate, Splits, Acknowledged, bounds
<1>2. /\ Tried \in Kept /\ Tried.id = rec.id /\ Tried.events = rec.events
      /\ \A e : Holds(Tried, e) <=> e \in ToSet(rec.events)
    BY <1>1, KeptHas DEF Tried, Holds
<1>3. Spoiled(Tried)
    BY <1>1 DEF RecOK
<1>4. \A r : Spoiled(r)' <=> Spoiled(r)
    BY <1>1 DEF Spoiled, Invalid
<1>5. Kept' \subseteq Kept
    BY KeptStays
<1>6. \A r \in Kept : r.id \in Nat /\ r.id <= rec.id
    <2>1. rec.id = ids
        BY <1>1 DEF PassOK
    <2> QED
        BY <2>1, KeptRecords DEF NumbersOK, Records
<1>7. ASSUME NEW e \in ToSet(rec.events)
      PROVE  /\ \A r \in Kept : Holds(r, e) => Spoiled(r)
             /\ \A a \in accepted : a[1] # e
    <2>1. ASSUME NEW r \in Kept, Holds(r, e)
          PROVE  Spoiled(r)
        <3>1. CASE r.id < rec.id
            BY <1>2, <2>1, <3>1 DEF OnceOK, Holds
        <3>2. CASE r.id = rec.id
            BY <1>2, <1>3, <3>2 DEF OnceOK
        <3> QED
            BY <1>2, <1>6, <3>1, <3>2
    <2>2. \A a \in accepted : a[1] # e
        BY <1>1, <1>2, <1>3 DEF OnceOK
    <2> QED
        BY <2>1, <2>2
<1>8. \A e \in Waiting' : e \in Waiting \/ e \in ToSet(rec.events)
    BY WaitingStep
<1>9. rec'.from = "none"
    BY <1>1 DEF NoRec
<1> QED
    BY <1>1, <1>4, <1>5, <1>7, <1>8, <1>9 DEF OnceOK, Holds, OneBatchPerEvent

\* Every step keeps the events in one batch.
LEMMA OnceStep ==
    ASSUME DeliveryTypeOK, PassOK, RecOK, NumbersOK, OrderOK, OnceOK, DeliveryNext
    PROVE  OnceOK'
<1>1. CASE PutPiece \/ PersistChunk
    BY <1>1, PutPieceWaited, PersistChunkWaited, OncePut
<1>2. CASE Enqueue
    BY <1>2, OnceEnqueue
<1>3. CASE ~PutPiece /\ ~PersistChunk /\ ~Enqueue /\ \E synced \in BOOLEAN : Isolate(synced)
    BY <1>3, OnceIsolate
<1>4. CASE /\ ~PutPiece /\ ~PersistChunk /\ ~Enqueue
           /\ \A synced \in BOOLEAN : ~Isolate(synced)
    <2>1. Kept' \subseteq Kept /\ Waiting' \subseteq Waiting
        BY <1>4, KeptStays, WaitingStays
    <2>2. /\ old' = old \/ (old' = old + 1 /\ rec' = NoRec)
          /\ accepted' = accepted \/ (Posting /\ Clean /\ Arrived /\ (Arrive \/ Accept))
        BY <1>4, CountersStep
    <2>3. CASE accepted' = accepted
        <3>1. \A r : Spoiled(r) => Spoiled(r)'
            BY <2>2, InvalidGrows
        <3>2. rec'.from = "put" => rec.from = "put" /\ rec'.id = rec.id /\ Tried' = Tried
            BY <1>4, RecStep
        <3>3. rec'.from = "put" => Invalid' = Invalid
            BY <2>2 DEF NoRec, Invalid
        <3> QED
            BY <2>1, <2>3, <3>1, <3>2, <3>3, OnceShrinks
    <2>4. CASE Posting /\ Clean /\ Arrived /\ (Arrive \/ Accept)
        <3>1. rec' = rec \/ rec' = [rec EXCEPT !.answer = "accepted"]
            BY <2>4 DEF Arrive, Accept, memory
        <3>2. rec'.from = rec.from /\ rec'.id = rec.id /\ Tried' = Tried
            BY <3>1 DEF Tried, DeliveryTypeOK
        <3>3. old' = old
            BY <2>4 DEF Arrive, Accept, bounds
        <3> QED
            BY <2>1, <2>4, <3>2, <3>3, OnceArrives
    <2> QED
        BY <2>2, <2>3, <2>4
<1> QED
    BY <1>1, <1>2, <1>3, <1>4

---------------------------------------------------------------------------
(* Answers *)

\* The answer to a record stays true until the record is dealt with.
LEMMA AnswerStep ==
    ASSUME DeliveryTypeOK, PassOK, RecOK, OrderOK, DeliveryNext
    PROVE  RecOK'
<1>1. NoRec.from = "none"
    BY DEF NoRec
<1>2. CASE rec' = NoRec
    BY <1>1, <1>2 DEF RecOK
<1>3. CASE rec'.answer = "none"
    BY <1>3 DEF RecOK
<1>4. CASE rec' = rec /\ old' = old /\ accepted \subseteq accepted'
    <2>1. Tried' = Tried /\ Invalid' = Invalid
        BY <1>4 DEF Tried, Invalid
    <2> QED
        BY <1>4, <2>1 DEF RecOK, Spoiled
<1>5. CASE Accept
    <2>1. rec' = [rec EXCEPT !.answer = "accepted"] /\ Arrived
        BY <1>5 DEF Accept
    <2>2. rec'.id = rec.id /\ rec'.events = rec.events /\ rec'.answer = "accepted"
        BY <2>1 DEF DeliveryTypeOK
    <2> QED
        BY <2>1, <2>2 DEF RecOK, Arrived
<1>6. CASE Refuse
    <2>1. PICK status \in (IF Clean THEN {"4xx"} ELSE {"400", "4xx"}) :
              rec' = [rec EXCEPT !.answer = status]
        BY <1>6 DEF Refuse
    <2>2. /\ rec'.id = rec.id /\ rec'.events = rec.events /\ rec'.answer = status
          /\ old' = old
        BY <1>6, <2>1 DEF Refuse, bounds, DeliveryTypeOK
    <2>3. rec'.answer = "400" => ~Clean
        BY <2>1, <2>2
    <2>4. ~Clean => Spoiled(Tried)'
        BY <2>2 DEF Clean, Spoiled, Holds, Tried, Invalid
    <2>5. rec'.answer # "accepted"
        BY <2>1, <2>2
    <2> QED
        BY <2>3, <2>4, <2>5 DEF RecOK
<1>7. CASE PutPiece \/ PersistChunk
    <2>1. \E events : \E outcome : Puts(events, outcome)
        BY <1>7, PutPieceWaited, PersistChunkWaited
    <2>2. rec' = NoRec \/ rec'.answer = "none"
        BY <2>1 DEF Puts
    <2> QED
        BY <1>2, <1>3, <2>2
<1>8. CASE Replay
    BY <1>3, <1>8 DEF Replay, FromLog
<1>9. CASE Application \/ Arrive \/ Restart
    BY <1>4, <1>9 DEF Application, Enqueue, Stop, Arrive, Arrived, Restart, memory, history, bounds
<1>10. CASE Age
    BY <1>2, <1>10 DEF Age, memory
<1>11. CASE BeginPass \/ Recovered \/ Defer \/ TakeChunk \/ SplitLimit \/ EndPass \/ PersistDone
    BY <1>4, <1>11 DEF BeginPass, Recovered, Defer, TakeChunk, SplitLimit, EndPass, PersistDone,
                       history, bounds
<1>12. CASE GiveUp \/ AcknowledgeFails \/ Exit \/ Crash \/ PowerLoss
    BY <1>2, <1>12 DEF GiveUp, AcknowledgeFails, Exit, Crash, PowerLoss, Down
<1>13. ASSUME NEW synced \in BOOLEAN, Resolve(synced)
       PROVE  rec' = NoRec
    BY <1>13 DEF Resolve, Confirm, Isolate, Discard, Acknowledged
<1> QED
    BY <1>2, <1>5, <1>6, <1>7, <1>8, <1>9, <1>10, <1>11, <1>12, <1>13
       DEF DeliveryNext, Loop, SendRecord, Answer

\* Only what is invalid is lost to a 400.
LEMMA ValidStep ==
    ASSUME DeliveryTypeOK, PassOK, RecOK, OrderOK, ValidEventsLand, DeliveryNext
    PROVE  ValidEventsLand'
<1>1. ASSUME lost' = lost, old' = old \/ old' = old + 1
      PROVE  ValidEventsLand'
    <2>1. Invalid \subseteq Invalid'
        BY <1>1, InvalidGrows
    <2> QED
        BY <1>1, <2>1 DEF ValidEventsLand
<1>2. ASSUME NEW events, NEW cause \in {"unstored", "limit", "4xx", "recovered"},
             lost' = Lost(events, cause), old' = old
      PROVE  ValidEventsLand'
    <2>1. \A e : <<e, "400">> \in lost' => <<e, "400">> \in lost
        BY <1>2 DEF Lost
    <2>2. Invalid' = Invalid
        BY <1>2 DEF Invalid
    <2> QED
        BY <2>1, <2>2 DEF ValidEventsLand
<1>3. CASE PutPiece \/ PersistChunk
    <2>1. PICK events, outcome : Put(events, outcome)
        BY <1>3, PutPieceWaited, PersistChunkWaited DEF Puts
    <2>2. old' = old /\ (lost' = lost \/ lost' = Lost(events, "unstored"))
        BY <2>1 DEF Put
    <2> QED
        BY <1>1, <1>2, <2>2
<1>4. CASE SplitLimit
    <2>1. lost' = Lost(Head(pieces), "limit") /\ old' = old
        BY <1>4 DEF SplitLimit, bounds
    <2> QED
        BY <1>2, <2>1
<1>5. ASSUME NEW synced \in BOOLEAN, Discard(synced)
      PROVE  ValidEventsLand'
    <2>1. /\ rec.answer \in {"400", "4xx"} /\ ~Splits /\ old' = old
          /\ lost' = Lost(rec.events, IF rec.from = "log" THEN "recovered" ELSE rec.answer)
        BY <1>5 DEF Discard, Acknowledged, bounds
    <2>2. CASE rec.from = "log"
        BY <1>2, <2>1, <2>2
    <2>3. CASE rec.from # "log" /\ rec.answer = "4xx"
        BY <1>2, <2>1, <2>3
    <2>4. CASE rec.from # "log" /\ rec.answer = "400"
        <3>1. rec.from = "put"
            BY <2>4 DEF DeliveryTypeOK, NoRec
        <3>2. IsBatch(rec.events) /\ ~(Len(rec.events) > 1) /\ Spoiled(Tried)
            BY <2>1, <2>4, <3>1 DEF DeliveryTypeOK, Splits, RecOK
        <3>3. rec.events \in Seq(Events) /\ Len(rec.events) = 1
            <4>1. rec.events \in Seq(Events) /\ rec.events # <<>>
                BY <3>2 DEF IsBatch
            <4>2. Len(rec.events) \in Nat /\ Len(rec.events) > 0
                BY <4>1, TailFacts
            <4>3. \A n \in Nat : n > 0 /\ ~(n > 1) => n = 1
                OBVIOUS
            <4> QED
                BY <3>2, <4>1, <4>2, <4>3
        <3>4. \A e, f \in ToSet(rec.events) : e = f
            BY <3>3, ElementFacts
        <3>5. \A e \in ToSet(rec.events) : e \in Invalid
            BY <3>2, <3>4 DEF Spoiled, Holds, Tried
        <3>6. \A e : <<e, "400">> \in lost' => <<e, "400">> \in lost \/ e \in ToSet(rec.events)
            BY <2>1, <2>4 DEF Lost
        <3>7. Invalid' = Invalid
            BY <2>1 DEF Invalid
        <3> QED
            BY <3>5, <3>6, <3>7 DEF ValidEventsLand
    <2> QED
        BY <2>1, <2>2, <2>3, <2>4
<1>6. ASSUME NEW synced \in BOOLEAN, Confirm(synced) \/ Isolate(synced)
      PROVE  ValidEventsLand'
    BY <1>1, <1>6 DEF Confirm, Isolate, Acknowledged, bounds
<1>7. CASE Application \/ Arrive \/ Age \/ Restart \/ Exit \/ Crash \/ PowerLoss
    BY <1>1, <1>7 DEF Application, Enqueue, Stop, Arrive, Age, Restart, Exit, Crash, PowerLoss,
                      Down, history, bounds
<1>8. CASE BeginPass \/ Recovered \/ Replay \/ Defer \/ TakeChunk \/ EndPass \/ PersistDone
    BY <1>1, <1>8 DEF BeginPass, Recovered, Replay, Defer, TakeChunk, EndPass, PersistDone,
                      history, bounds
<1>9. CASE Answer \/ GiveUp \/ AcknowledgeFails
    BY <1>1, <1>9 DEF Answer, Accept, Refuse, GiveUp, AcknowledgeFails, history, bounds
<1> QED
    BY <1>3, <1>4, <1>5, <1>6, <1>7, <1>8, <1>9 DEF DeliveryNext, Loop, SendRecord, Resolve

---------------------------------------------------------------------------
(* The log *)

\* An event is in a record of a log.
InLog(e, v) == \E i \in 1 .. Len(v) : e \in ToSet(v[i].events)

\* An event that is promised, is in all versions, and is not yet decided, and
\* what became of it otherwise.
LEMMA LoggedBy ==
    LoggedSurvives <=>
        \A e \in promised : \/ InLog(e, log) /\ \A v \in versions : InLog(e, v)
                            \/ \E a \in accepted : a[1] = e
                            \/ \E l \in lost : l[1] = e
BY DEF LoggedSurvives, InLog

\* So in the next state.
LEMMA LoggedNext ==
    LoggedSurvives' <=>
        \A e \in promised' : \/ InLog(e, log') /\ \A v \in versions' : InLog(e, v)
                             \/ \E a \in accepted' : a[1] = e
                             \/ \E l \in lost' : l[1] = e
BY DEF LoggedSurvives, InLog

\* A step that keeps the log, or one of its versions, keeps what it holds.
LEMMA LoggedKept ==
    ASSUME LoggedSurvives, promised' \subseteq promised, accepted \subseteq accepted', lost \subseteq lost',
           log' \in versions \union {log},
           \A v \in versions' : v \in versions \/ v = log'
    PROVE  LoggedSurvives'
BY LoggedBy, LoggedNext

\* A put adds what it promises.
LEMMA LoggedPut ==
    ASSUME DeliveryTypeOK, LoggedSurvives, NEW events, NEW outcome \in {"nil", "warned", "failed"},
           IsBatch(events), Put(events, outcome)
    PROVE  LoggedSurvives'
<1> DEFINE r == [id |-> ids + 1, events |-> events]
<1>1. ids' = ids + 1 /\ accepted' = accepted /\ lost \subseteq lost'
    BY DEF Put, Lost
<1>2. CASE outcome = "failed"
    BY <1>1, <1>2, LoggedKept DEF Put
<1>3. CASE outcome # "failed"
    <2>1. log' = Append(log, r)
        BY <1>1, <1>3 DEF Put, Log!AppendRecord
    <2>2. log \in Seq(Records) /\ r \in Records /\ r.events = events
        BY DEF DeliveryTypeOK, IsLog, Records, IsBatch
    <2> HIDE DEF r
    <2>3. /\ Len(log') = Len(log) + 1 /\ Len(log) \in Nat /\ log'[Len(log) + 1] = r
          /\ \A k \in 1 .. Len(log) : log'[k] = log[k]
        BY <2>1, <2>2, AppendFacts
    <2>4. \A k \in 1 .. Len(log) : k \in 1 .. Len(log')
        BY <2>3
    <2>5. \A e : InLog(e, log) => InLog(e, log')
        BY <2>3, <2>4 DEF InLog
    <2>6. \A e \in ToSet(events) : InLog(e, log')
        <3>1. Len(log) + 1 \in 1 .. Len(log')
            BY <2>3
        <3> QED
            BY <2>2, <2>3, <3>1 DEF InLog
    <2>7. CASE outcome = "nil"
        <3>1. versions' = {log'} /\ promised' = promised \union ToSet(events)
            BY <2>7 DEF Put, Log!Synced
        <3> QED
            BY <1>1, <2>5, <2>6, <3>1, LoggedBy, LoggedNext
    <2>8. CASE outcome = "warned"
        <3>1. versions' = versions \union {log'} /\ promised' = promised
            BY <2>8 DEF Put, Log!Exposed
        <3> QED
            BY <1>1, <2>5, <3>1, LoggedBy, LoggedNext
    <2> QED
        BY <1>3, <2>7, <2>8
<1> QED
    BY <1>2, <1>3

\* An acknowledged record was accepted, is counted as failed, or is split.
LEMMA LoggedResolve ==
    ASSUME DeliveryTypeOK, RecOK, OnceOK, LoggedSurvives, NEW synced \in BOOLEAN, Resolve(synced)
    PROVE  LoggedSurvives'
<1>1. Acknowledged(synced) /\ rec.answer # "none"
    BY DEF Resolve, Confirm, Isolate, Discard, Splits
<1>2. rec.from # "none"
    BY <1>1 DEF DeliveryTypeOK, NoRec
<1>3. PICK i \in 1 .. Len(log) : log[i].id = rec.id /\ log' = RemoveAt(log, i)
    BY <1>1, AcknowledgedFacts
<1>4. log \in Seq(Records) /\ Len(log) \in Nat
    BY DEF DeliveryTypeOK, IsLog
<1>5. log[i].events = rec.events
    <2>1. log[i] \in Kept
        BY <1>4, ElementFacts, KeptHas
    <2>2. Tried \in Kept /\ Tried.id = rec.id /\ Tried.events = rec.events
        BY <1>2, KeptHas DEF Tried
    <2> QED
        BY <1>3, <2>1, <2>2 DEF OnceOK
<1>6. /\ Len(log') = Len(log) - 1
      /\ \A k \in 1 .. Len(log) - 1 : log'[k] = IF k < i THEN log[k] ELSE log[k + 1]
    BY <1>3, <1>4, RemoveFacts
<1>7. ASSUME NEW e, InLog(e, log), e \notin ToSet(rec.events)
      PROVE  InLog(e, log')
    <2>1. PICK k \in 1 .. Len(log) : e \in ToSet(log[k].events)
        BY <1>7 DEF InLog
    <2>2. k # i
        BY <1>5, <1>7, <2>1
    <2>3. CASE k < i
        <3>1. k \in 1 .. Len(log') /\ log'[k] = log[k]
            BY <1>4, <1>6, <2>3
        <3> QED
            BY <2>1, <3>1 DEF InLog
    <2>4. CASE i < k
        <3>1. k - 1 \in 1 .. Len(log') /\ ~(k - 1 < i) /\ (k - 1) + 1 = k
            BY <1>4, <1>6, <2>4
        <3>2. log'[k - 1] = log[k]
            BY <1>6, <3>1
        <3> QED
            BY <2>1, <3>1, <3>2 DEF InLog
    <2> QED
        BY <1>4, <2>2, <2>3, <2>4
<1>8. /\ accepted' = accepted /\ lost \subseteq lost' /\ promised' \subseteq promised
      /\ \A v \in versions' : v \in versions \/ v = log'
    <2>1. accepted' = accepted /\ \A v \in versions' : v \in versions \/ v = log'
        BY <1>1, AcknowledgedFacts
    <2>2. lost \subseteq lost' /\ promised' \subseteq promised
        BY DEF Resolve, Confirm, Isolate, Discard, Lost
    <2> QED
        BY <2>1, <2>2
<1>9. \A e \in ToSet(rec.events) : \/ e \notin promised'
                                   \/ \E a \in accepted' : a[1] = e
                                   \/ \E l \in lost' : l[1] = e
    <2>1. CASE Confirm(synced)
        <3>1. rec.answer = "accepted" /\ accepted' = accepted
            BY <1>8, <2>1 DEF Confirm
        <3>2. \A e \in ToSet(rec.events) : <<e, rec.id>> \in accepted'
            BY <1>2, <3>1 DEF RecOK
        <3>3. \A e : <<e, rec.id>>[1] = e
            OBVIOUS
        <3> QED
            BY <3>2, <3>3
    <2>2. CASE Isolate(synced)
        BY <2>2 DEF Isolate
    <2>3. CASE Discard(synced)
        <3>1. PICK cause : lost' = Lost(rec.events, cause)
            BY <2>3 DEF Discard
        <3>2. ASSUME NEW e \in ToSet(rec.events)
              PROVE  \E l \in lost' : l[1] = e
            <4>1. <<e, cause>> \in lost' /\ <<e, cause>>[1] = e
                BY <3>1 DEF Lost
            <4> QED
                BY <4>1
        <3> QED
            BY <3>2
    <2> QED
        BY <2>1, <2>2, <2>3 DEF Resolve
<1> QED
    BY <1>7, <1>8, <1>9, LoggedBy, LoggedNext

\* What is promised survives every step.
LEMMA LoggedStep ==
    ASSUME DeliveryTypeOK, PassOK, RecOK, OrderOK, OnceOK, LoggedSurvives, DeliveryNext
    PROVE  LoggedSurvives'
<1>1. CASE PutPiece \/ PersistChunk
    BY <1>1, PutPieceWaited, PersistChunkWaited, LoggedPut DEF Puts
<1>2. ASSUME NEW synced \in BOOLEAN, Resolve(synced)
      PROVE  LoggedSurvives'
    BY <1>2, LoggedResolve
<1>3. CASE /\ UNCHANGED file /\ promised' = promised
           /\ accepted \subseteq accepted' /\ lost \subseteq lost'
    BY <1>3, LoggedKept DEF file
<1>4. CASE GiveUp
    <2>1. /\ log' = log /\ UNCHANGED history
          /\ \A v \in versions' : v \in versions \/ v = log'
        BY <1>4 DEF GiveUp, Retained, Log!Synced
    <2> QED
        BY <2>1, LoggedKept DEF history
<1>5. CASE PowerLoss
    <2>1. log' \in versions /\ versions' = {log'} /\ UNCHANGED history
        BY <1>5 DEF PowerLoss, Down, Log!PowerLoss, Log!Synced
    <2> QED
        BY <2>1, LoggedKept DEF history
<1>6. CASE Application \/ Arrive \/ Age \/ Restart \/ Exit \/ Crash
    BY <1>3, <1>6 DEF Application, Enqueue, Stop, Arrive, Arrived, Age, Restart, Exit, Crash, Down,
                      history
<1>7. CASE Answer \/ AcknowledgeFails
    BY <1>3, <1>7 DEF Answer, Accept, Refuse, Arrived, AcknowledgeFails, history
<1>8. CASE BeginPass \/ Recovered \/ Replay \/ Defer \/ TakeChunk \/ EndPass \/ PersistDone
    BY <1>3, <1>8 DEF BeginPass, Recovered, Replay, Defer, TakeChunk, EndPass, PersistDone, history
<1>9. CASE SplitLimit
    BY <1>3, <1>9 DEF SplitLimit, Lost
<1> QED
    BY <1>1, <1>2, <1>4, <1>5, <1>6, <1>7, <1>8, <1>9 DEF DeliveryNext, Loop, SendRecord

---------------------------------------------------------------------------
(* The theorems *)

\* Every step keeps the types.
LEMMA TypeStep ==
    ASSUME DeliveryTypeOK, PassOK, DeliveryNext
    PROVE  DeliveryTypeOK'
<1>1. \A synced \in BOOLEAN : Resolve(synced) => DeliveryTypeOK'
    BY TypeResolve
<1>2. GiveUp \/ AcknowledgeFails => DeliveryTypeOK'
    BY TypeResolve
<1> QED
    BY <1>1, <1>2, TypeApplication, TypePass, TypeSend, TypeAnswer, TypeEnvironment
       DEF DeliveryNext, Loop, SendRecord, Answer

\* Every step keeps the pass in order.
LEMMA PassStep ==
    ASSUME DeliveryTypeOK, PassOK, NumbersOK, DeliveryNext
    PROVE  PassOK'
BY PassApplication, PassMoves, PassSends, PassRecords, PassEnds DEF DeliveryNext, Loop

\* The invariant holds initially.
LEMMA InvInit == DeliveryInit => DeliveryInv
<1> SUFFICES ASSUME DeliveryInit PROVE DeliveryInv
    OBVIOUS
<1>1. /\ rec = NoRec /\ accepted = {} /\ promised = {} /\ lost = {}
    BY DEF DeliveryInit
<1>2. rec.from = "none" /\ Kept = {} /\ Waiting = {}
    BY <1>1, NumbersInit DEF NoRec
<1>3. RecOK /\ OnceOK /\ LoggedSurvives /\ ValidEventsLand
    BY <1>1, <1>2 DEF RecOK, OnceOK, OneBatchPerEvent, LoggedSurvives, ValidEventsLand
<1> QED
    BY <1>3, TypeInit, PassInit, NumbersInit, OrderInit DEF DeliveryInv

\* A step that changes nothing keeps it.
LEMMA InvStutters == DeliveryInv /\ UNCHANGED deliveryVars => DeliveryInv'
<1> SUFFICES ASSUME DeliveryInv, UNCHANGED deliveryVars PROVE DeliveryInv'
    OBVIOUS
<1>1. /\ UNCHANGED <<up, stopping, queue, pass, step, todo, pieces, sends, rec>>
      /\ UNCHANGED <<log, versions, made, ids, runs, old, accepted, promised, lost>>
    BY DEF deliveryVars, memory, file, bounds, history
<1>2. Kept' = Kept /\ Waiting' = Waiting /\ Tried' = Tried /\ Invalid' = Invalid
    BY <1>1 DEF Kept, Waiting, Tried, Invalid
<1>3. DeliveryTypeOK'
    BY <1>1 DEF DeliveryInv, DeliveryTypeOK
<1>4. PassOK'
    BY <1>1, <1>2 DEF DeliveryInv, PassOK, WalFirst
<1>5. RecOK' /\ NumbersOK' /\ OrderOK'
    BY <1>1, <1>2 DEF DeliveryInv, RecOK, NumbersOK, OrderOK, Spoiled
<1>6. OnceOK'
    BY <1>1, <1>2 DEF DeliveryInv, OnceOK, OneBatchPerEvent, Spoiled
<1>7. LoggedSurvives' /\ ValidEventsLand'
    BY <1>1, <1>2 DEF DeliveryInv, LoggedSurvives, ValidEventsLand
<1> QED
    BY <1>3, <1>4, <1>5, <1>6, <1>7 DEF DeliveryInv

\* Every step keeps the invariant.
LEMMA InvStep == DeliveryInv /\ [DeliveryNext]_deliveryVars => DeliveryInv'
<1>1. ASSUME DeliveryInv, DeliveryNext
      PROVE  DeliveryInv'
    BY <1>1, TypeStep, PassStep, NumbersStep, OrderStep, OnceStep, AnswerStep, LoggedStep, ValidStep
       DEF DeliveryInv
<1> QED
    BY <1>1, InvStutters

\* DeliveryInv is an invariant of the loop, the transport and the log together:
\* a pass recovers before it sends, answers are true, batches are numbered as they
\* are put, and no two batches that could both be accepted share an event
\* (batcher.go:386-427, 478-525; transport.go:48-74, 152-201).
THEOREM DeliveryInvariance == DeliverySpec => []DeliveryInv
<1> QED
    BY InvInit, InvStep, PTL DEF DeliverySpec

\* Every variable keeps its type, and no batch is empty or longer than the flush
\* size, also after a split (batcher.go:392-398, 513-520).
THEOREM DeliveryTypeCorrect == DeliverySpec => []DeliveryTypeOK
<1>1. DeliveryInv => DeliveryTypeOK
    BY DEF DeliveryInv
<1> QED
    BY <1>1, DeliveryInvariance, PTL

\* Whatever is repeated, an event is accepted under one batch id only
\* (doc.go:52-56; transport.go:46-47).
THEOREM OnceCorrect == DeliverySpec => []OneBatchPerEvent
<1>1. DeliveryInv => OneBatchPerEvent
    BY DEF DeliveryInv, OnceOK
<1> QED
    BY <1>1, DeliveryInvariance, PTL

\* What put confirmed stays in the log and in all that a power loss may leave of
\* it until it is accepted or counted as failed (transport.go:48-74, 239-253).
THEOREM LoggedCorrect == DeliverySpec => []LoggedSurvives
<1>1. DeliveryInv => LoggedSurvives
    BY DEF DeliveryInv
<1> QED
    BY <1>1, DeliveryInvariance, PTL

\* A batch refused for one of its events costs no event that is valid, apart from
\* the split limit and from recovered batches (batcher.go:478-483, 513-525).
THEOREM ValidCorrect == DeliverySpec => []ValidEventsLand
<1>1. DeliveryInv => ValidEventsLand
    BY DEF DeliveryInv
<1> QED
    BY <1>1, DeliveryInvariance, PTL

\* Nothing new is sent while the log holds a record from before this pass
\* (batcher.go:386-427; transport.go:169-173).
THEOREM WalFirstCorrect == DeliverySpec => []WalFirst
<1>1. DeliveryInv => WalFirst
    BY DEF DeliveryInv, PassOK
<1> QED
    BY <1>1, DeliveryInvariance, PTL

=============================================================================
