-------------------------- MODULE TransportProofs --------------------------
(***************************************************************************)
(* Theorems about Transport, for every number of retries and records,      *)
(* every ceiling, schedule and clock, and whatever the endpoint suggests.  *)
(***************************************************************************)
EXTENDS TransportProperties, SequenceLemmas, TLAPS

---------------------------------------------------------------------------
(* The log *)

\* A record of the log has a place, and its pause stands there.
LEMMA PlaceFacts ==
    ASSUME TransportTypeOK, NEW r, InLog(r)
    PROVE  /\ Place(r) \in 1 .. Len(log) /\ log[Place(r)].id = r
           /\ log[Place(r)] \in Entries
           /\ PauseOf(r) = log[Place(r)].pause /\ PauseOf(r) \in 0 .. Far
<1>1. Place(r) \in 1 .. Len(log) /\ log[Place(r)].id = r
    BY DEF InLog, Held, Place
<1>2. log[Place(r)] \in Entries
    BY <1>1 DEF TransportTypeOK
<1> QED
    BY <1>1, <1>2 DEF PauseOf, Entries

\* It has only one.
LEMMA PlaceUnique ==
    ASSUME TransportTypeOK, LogOK, NEW i \in 1 .. Len(log)
    PROVE  InLog(log[i].id) /\ Place(log[i].id) = i /\ PauseOf(log[i].id) = log[i].pause
<1>1. InLog(log[i].id)
    BY DEF InLog, Held
<1> DEFINE p == Place(log[i].id)
<1>2. p \in 1 .. Len(log) /\ log[p].id = log[i].id
    BY <1>1, PlaceFacts
<1> HIDE DEF p
<1>3. log[p].id \in Int /\ log[i].id \in Int /\ Len(log) \in Nat
    <2>1. log[p] \in Entries /\ log[i] \in Entries /\ Len(log) \in Nat
        BY <1>2 DEF TransportTypeOK
    <2>2. \A e \in Entries : e.id \in Ids
        BY DEF Entries
    <2> QED
        BY <2>1, <2>2 DEF Ids
<1>4. ~(p < i) /\ ~(i < p)
    BY <1>2, <1>3 DEF LogOK
<1>5. p = i
    BY <1>2, <1>3, <1>4
<1> QED
    BY <1>1, <1>5 DEF p, PauseOf

\* The ids of the log.
LEMMA LogIdsFacts ==
    ASSUME TransportTypeOK
    PROVE  /\ LogIds \in Seq(Ids) /\ Len(LogIds) = Len(log) /\ Len(log) \in Nat
           /\ \A i \in 1 .. Len(log) : LogIds[i] = log[i].id /\ log[i].id \in Ids
<1>1. Len(log) \in Nat /\ \A i \in 1 .. Len(log) : log[i] \in Entries
    BY DEF TransportTypeOK
<1>2. \A i \in 1 .. Len(log) : log[i].id \in Ids
    BY <1>1 DEF Entries
<1> QED
    BY <1>1, <1>2 DEF LogIds

\* A new record is appended.
LEMMA LoggedFacts ==
    ASSUME TransportTypeOK, TransportAssumption, NEW r \in Ids, NEW a
    PROVE  /\ Logged(r, a) \in Seq(Entries)
           /\ ~enabled \/ a = "failed" => Logged(r, a) = log
           /\ enabled /\ a # "failed" =>
                 /\ Len(Logged(r, a)) = Len(log) + 1
                 /\ \A i \in 1 .. Len(log) : Logged(r, a)[i] = log[i]
                 /\ Logged(r, a)[Len(log) + 1] = [id |-> r, pause |-> 0]
<1>1. [id |-> r, pause |-> 0] \in Entries
    BY DEF Entries, TransportAssumption
<1> DEFINE e == [id |-> r, pause |-> 0]
<1>2. /\ Append(log, e) \in Seq(Entries) /\ Len(Append(log, e)) = Len(log) + 1
      /\ Append(log, e)[Len(log) + 1] = e
      /\ \A k \in 1 .. Len(log) : Append(log, e)[k] = log[k]
    BY <1>1, AppendFacts DEF TransportTypeOK
<1> QED
    BY <1>2 DEF Logged, TransportTypeOK

\* A record is removed.
LEMMA UnloggedFacts ==
    ASSUME TransportTypeOK, NEW r, NEW a
    PROVE  /\ Unlogged(r, a) \in Seq(Entries)
           /\ ~InLog(r) \/ a = "failed" => Unlogged(r, a) = log
           /\ InLog(r) /\ a # "failed" =>
                 /\ Unlogged(r, a) = RemoveAt(log, Place(r))
                 /\ Len(Unlogged(r, a)) = Len(log) - 1
                 /\ \A k \in 1 .. Len(log) - 1 :
                       Unlogged(r, a)[k] = IF k < Place(r) THEN log[k] ELSE log[k + 1]
<1>1. CASE InLog(r) /\ a # "failed"
    <2>1. Place(r) \in 1 .. Len(log)
        BY <1>1, PlaceFacts
    <2>2. Unlogged(r, a) = RemoveAt(log, Place(r))
        BY <1>1 DEF Unlogged
    <2> QED
        BY <1>1, <2>1, <2>2, RemoveFacts DEF TransportTypeOK
<1>2. CASE ~(InLog(r) /\ a # "failed")
    BY <1>2 DEF Unlogged, TransportTypeOK
<1> QED
    BY <1>1, <1>2

\* The pause of a record is set; nothing else changes.
LEMMA PausedFacts ==
    ASSUME TransportTypeOK, NEW r, NEW pause \in 0 .. Far, NEW a
    PROVE  /\ Paused(r, pause, a) \in Seq(Entries)
           /\ Len(Paused(r, pause, a)) = Len(log)
           /\ \A i \in 1 .. Len(log) :
                 /\ Paused(r, pause, a)[i].id = log[i].id
                 /\ Paused(r, pause, a)[i].pause =
                       IF a # "failed" /\ log[i].id = r THEN pause ELSE log[i].pause
<1>1. Len(log) \in Nat /\ log \in Seq(Entries) /\ \A i \in 1 .. Len(log) : log[i] \in Entries
    BY DEF TransportTypeOK
<1>2. CASE a = "failed"
    BY <1>1, <1>2 DEF Paused
<1>3. CASE a # "failed"
    <2> DEFINE new(i) == IF log[i].id = r THEN [log[i] EXCEPT !.pause = pause] ELSE log[i]
    <2>1. ASSUME NEW i \in 1 .. Len(log)
          PROVE  /\ new(i) \in Entries /\ new(i).id = log[i].id
                 /\ new(i).pause = IF log[i].id = r THEN pause ELSE log[i].pause
        <3>1. log[i] \in [id : Ids, pause : 0 .. Far]
            BY <1>1 DEF Entries
        <3> QED
            BY <3>1 DEF Entries
    <2>2. Paused(r, pause, a) = [i \in 1 .. Len(log) |-> new(i)]
        BY <1>3 DEF Paused
    <2> HIDE DEF new
    <2>3. /\ Paused(r, pause, a) \in Seq(Entries) /\ Len(Paused(r, pause, a)) = Len(log)
          /\ \A i \in 1 .. Len(log) : Paused(r, pause, a)[i] = new(i)
        BY <1>1, <2>1, <2>2
    <2> QED
        BY <1>3, <2>1, <2>3
<1> QED
    BY <1>2, <1>3

\* Time passes for the pauses.
LEMMA TickedFacts ==
    ASSUME TransportTypeOK, log' = [i \in 1 .. Len(log) |-> [log[i] EXCEPT !.pause = Less(@)]]
    PROVE  /\ log' \in Seq(Entries) /\ Len(log') = Len(log)
           /\ \A i \in 1 .. Len(log) :
                 log'[i].id = log[i].id /\ log'[i].pause = Less(log[i].pause)
<1>1. Len(log) \in Nat /\ \A i \in 1 .. Len(log) : log[i] \in Entries
    BY DEF TransportTypeOK
<1> DEFINE new(i) == [log[i] EXCEPT !.pause = Less(@)]
<1>2. ASSUME NEW i \in 1 .. Len(log)
      PROVE  new(i) \in Entries /\ new(i).id = log[i].id /\ new(i).pause = Less(log[i].pause)
    <2>1. log[i] \in [id : Ids, pause : 0 .. Far]
        BY <1>1 DEF Entries
    <2>2. Less(log[i].pause) \in 0 .. Far
        BY <2>1, TransportAssumption DEF Less, TransportAssumption
    <2> QED
        BY <2>1, <2>2 DEF Entries
<1>3. log' = [i \in 1 .. Len(log) |-> new(i)]
    OBVIOUS
<1> HIDE DEF new
<1>4. /\ log' \in Seq(Entries) /\ Len(log') = Len(log)
      /\ \A i \in 1 .. Len(log) : log'[i] = new(i)
    BY <1>1, <1>2, <1>3
<1> QED
    BY <1>2, <1>4

---------------------------------------------------------------------------
(* Types *)

\* The longest wait is a number, no less than the ceiling of Retry-After.
LEMMA LongestFacts ==
    /\ LongestDelay \in Nat /\ MaxWait <= LongestDelay
    /\ (12 * MaxBackoff + 9) \div 10 <= LongestDelay
<1>1. (12 * MaxBackoff + 9) \div 10 \in Nat /\ MaxWait \in Nat
    BY TransportAssumption DEF TransportAssumption
<1> QED
    BY <1>1 DEF LongestDelay

\* The schedule stays below its cap, and widened below the longest wait.
LEMMA BackoffFacts ==
    ASSUME NEW attempt
    PROVE  /\ BackoffDelay(attempt) \in 1 .. MaxBackoff
           /\ Jittered(BackoffDelay(attempt)) \subseteq 0 .. LongestDelay
<1> DEFINE d == BackoffDelay(attempt)
<1>1. d \in 1 .. MaxBackoff
    BY TransportAssumption DEF TransportAssumption, BackoffDelay
<1> HIDE DEF d
<1>2. MaxBackoff \in Nat
    BY TransportAssumption DEF TransportAssumption
<1>3. /\ (8 * d) \div 10 \in Nat /\ (12 * d + 9) \div 10 \in Nat
      /\ (12 * d + 9) \div 10 <= (12 * MaxBackoff + 9) \div 10
      /\ (12 * MaxBackoff + 9) \div 10 \in Nat
    BY <1>1, <1>2
<1>4. Jittered(d) \subseteq 0 .. LongestDelay
    BY <1>3, LongestFacts DEF Jittered
<1> QED
    BY <1>1, <1>4 DEF d

\* No wait is longer.
LEMMA DelaysType == call \in CallRecords => Delays \subseteq 0 .. LongestDelay
<1>1. call \in CallRecords /\ call.hint # NoHint => call.hint \in 0 .. MaxWait
    BY DEF CallRecords
<1>2. call \in CallRecords /\ call.hint # NoHint => call.hint \in 0 .. LongestDelay
    BY <1>1, LongestFacts, TransportAssumption DEF TransportAssumption
<1>3. Jittered(BackoffDelay(call.attempt + 1)) \subseteq 0 .. LongestDelay
    BY BackoffFacts
<1> QED
    BY <1>2, <1>3 DEF Delays

\* The calls that begin, wait and go on.
LEMMA CallTypes ==
    /\ NoCall \in CallRecords
    /\ \A r \in Ids : [NoCall EXCEPT !.mode = "send", !.rec = r] \in CallRecords
    /\ \A s \in Seq(Ids) :
          /\ [NoCall EXCEPT !.mode = "recover", !.todo = s] \in CallRecords
          /\ \A r \in Ids :
                [NoCall EXCEPT !.mode = "recover", !.rec = r, !.todo = s] \in CallRecords
<1>1. /\ MaxRecords \in Nat /\ MaxRetries \in Nat /\ MaxWait \in Nat /\ LongestDelay \in Nat
      /\ \A r \in Ids : r \in 0 .. MaxRecords
    BY LongestFacts, TransportAssumption DEF TransportAssumption, Ids
<1>2. NoCall = [mode |-> "none", rec |-> 0, todo |-> <<>>, attempt |-> 0,
                hint |-> NoHint, wait |-> 0]
    BY DEF NoCall
<1>3. NoCall \in CallRecords
    BY <1>1, <1>2 DEF CallRecords
<1>4. ASSUME NEW r \in Ids
      PROVE  [NoCall EXCEPT !.mode = "send", !.rec = r] \in CallRecords
    BY <1>1, <1>3 DEF CallRecords
<1>5. ASSUME NEW s \in Seq(Ids)
      PROVE  [NoCall EXCEPT !.mode = "recover", !.todo = s] \in CallRecords
    BY <1>3 DEF CallRecords
<1>6. ASSUME NEW s \in Seq(Ids), NEW r \in Ids
      PROVE  [NoCall EXCEPT !.mode = "recover", !.rec = r, !.todo = s] \in CallRecords
    BY <1>1, <1>3 DEF CallRecords
<1> QED
    BY <1>3, <1>4, <1>5, <1>6

\* So is what a call under way becomes.
LEMMA CallUpdates ==
    ASSUME call \in CallRecords
    PROVE  /\ [call EXCEPT !.rec = 0] \in CallRecords
           /\ \A h \in 0 .. MaxWait : [call EXCEPT !.hint = h] \in CallRecords
           /\ \A d \in 0 .. LongestDelay : call.attempt < MaxRetries =>
                 [call EXCEPT !.attempt = NextAttempt, !.hint = NoHint, !.wait = d] \in CallRecords
           /\ [call EXCEPT !.wait = Less(@)] \in CallRecords
<1>1. /\ MaxRecords \in Nat /\ MaxRetries \in Nat /\ MaxWait \in Nat /\ LongestDelay \in Nat
    BY LongestFacts, TransportAssumption DEF TransportAssumption
<1>2. /\ call.attempt < MaxRetries => NextAttempt \in 0 .. MaxRetries
      /\ Less(call.wait) \in 0 .. LongestDelay
    BY <1>1 DEF CallRecords, NextAttempt, Less
<1>3. [call EXCEPT !.rec = 0] \in CallRecords
    BY <1>1 DEF CallRecords
<1>4. ASSUME NEW h \in 0 .. MaxWait PROVE [call EXCEPT !.hint = h] \in CallRecords
    BY <1>1 DEF CallRecords
<1>5. ASSUME NEW d \in 0 .. LongestDelay, call.attempt < MaxRetries
      PROVE  [call EXCEPT !.attempt = NextAttempt, !.hint = NoHint, !.wait = d] \in CallRecords
    BY <1>2, <1>5 DEF CallRecords
<1>6. [call EXCEPT !.wait = Less(@)] \in CallRecords
    BY <1>2 DEF CallRecords
<1> QED
    BY <1>3, <1>4, <1>5, <1>6

\* The initial states have the types of TransportTypeOK.
LEMMA TypeInit == TransportInit => TransportTypeOK
<1> SUFFICES ASSUME TransportInit PROVE TransportTypeOK
    OBVIOUS
<1>1. MaxRecords \in Nat /\ MaxWait \in Nat
    BY TransportAssumption DEF TransportAssumption
<1>2. log \in Seq(Entries) /\ call \in CallRecords
    <2>1. NoCall \in CallRecords /\ call = NoCall /\ log = <<>>
        BY CallTypes DEF TransportInit
    <2> QED
        BY <2>1
<1>3. result \in [kind : Kinds, rec : 0 .. MaxRecords] /\ next \in 1 .. MaxRecords + 1
    BY <1>1 DEF TransportInit, NoResult, Kinds
<1>4. /\ told \in [Ids -> {"nothing", "delivered", "lost"}]
      /\ owed \in [Ids -> 0 .. MaxWait]
      /\ excuse \in [Ids -> {"none", "cancelled", "unstored", "clock", "crash"}]
    BY <1>1 DEF TransportInit
<1> QED
    BY <1>2, <1>3, <1>4 DEF TransportInit, TransportTypeOK, Busy

\* A call that returns leaves a result.
LEMMA ReturnsTypes ==
    ASSUME NEW kind \in Kinds, NEW r \in 0 .. MaxRecords, Returns(kind, r)
    PROVE  /\ pc' = "idle" /\ call' \in CallRecords
           /\ result' \in [kind : Kinds, rec : 0 .. MaxRecords]
BY CallTypes DEF Returns

\* What the batcher is told is one of two things.
LEMMA TellTypes ==
    ASSUME TransportTypeOK, NEW r, NEW what \in {"delivered", "lost"}, Tell(r, what)
    PROVE  told' \in [Ids -> {"nothing", "delivered", "lost"}]
BY DEF TransportTypeOK, Tell

\* Records have numbers.
LEMMA NextTypes ==
    ASSUME TransportTypeOK, next <= MaxRecords
    PROVE  /\ next \in Ids /\ next \in 0 .. MaxRecords /\ next + 1 \in 1 .. MaxRecords + 1
           /\ \A r \in Ids : r \in 0 .. MaxRecords
BY TransportAssumption DEF TransportTypeOK, TransportAssumption, Ids

\* The calls keep the types.
LEMMA TypeCalls == TransportTypeOK /\ (Send \/ Persist \/ Recover) => TransportTypeOK'
<1>1. ASSUME TransportTypeOK, Send PROVE TransportTypeOK'
    <2>1. next <= MaxRecords /\ next' = next + 1
        BY <1>1 DEF Send
    <2>2. /\ next \in Ids /\ next \in 0 .. MaxRecords /\ next + 1 \in 1 .. MaxRecords + 1
        BY <1>1, <2>1, NextTypes
    <2>3. PICK a \in {"ok", "warned", "failed"} :
             /\ log' = Logged(next, a)
             /\ CASE a = "ok" -> pc' = "post" /\ AnyPost(next) /\ UNCHANGED <<result, told>>
                  [] a = "warned" -> Returns("retained", next) /\ UNCHANGED told
                  [] a = "failed" -> Returns("lost", next) /\ Tell(next, "lost")
        BY <1>1 DEF Send, StoreAnswers
    <2>4. log' \in Seq(Entries)
        BY <1>1, <2>2, <2>3, LoggedFacts, TransportAssumption
    <2>5. /\ pc' \in {"idle"} \union Busy /\ call' \in CallRecords
          /\ result' \in [kind : Kinds, rec : 0 .. MaxRecords]
          /\ told' \in [Ids -> {"nothing", "delivered", "lost"}]
        <3>1. CASE a = "ok"
            BY <1>1, <2>2, <2>3, <3>1, CallTypes DEF AnyPost, TransportTypeOK, Busy
        <3>2. CASE a = "warned"
            <4>1. Returns("retained", next) /\ UNCHANGED told
                BY <2>3, <3>2
            <4> QED
                BY <1>1, <2>2, <4>1, ReturnsTypes DEF TransportTypeOK, Kinds
        <3>3. CASE a = "failed"
            <4>1. Returns("lost", next) /\ Tell(next, "lost")
                BY <2>3, <3>3
            <4> QED
                BY <1>1, <2>2, <4>1, ReturnsTypes, TellTypes DEF Kinds
        <3> QED
            BY <2>3, <3>1, <3>2, <3>3
    <2> QED
        BY <1>1, <2>1, <2>2, <2>4, <2>5 DEF Send, Idle, TransportTypeOK, endpoint, books
<1>2. ASSUME TransportTypeOK, Persist PROVE TransportTypeOK'
    <2>1. next <= MaxRecords /\ next' = next + 1
        BY <1>2 DEF Persist
    <2>2. /\ next \in Ids /\ next \in 0 .. MaxRecords /\ next + 1 \in 1 .. MaxRecords + 1
        BY <1>2, <2>1, NextTypes
    <2>3. PICK a \in {"ok", "warned", "failed"} :
             /\ log' = Logged(next, a)
             /\ IF a = "failed" THEN Returns("lost", next) /\ Tell(next, "lost")
                ELSE Returns("retained", next) /\ UNCHANGED told
        BY <1>2 DEF Persist, StoreAnswers
    <2>4. log' \in Seq(Entries)
        BY <1>2, <2>2, <2>3, LoggedFacts, TransportAssumption
    <2>5. /\ pc' = "idle" /\ call' \in CallRecords
          /\ result' \in [kind : Kinds, rec : 0 .. MaxRecords]
          /\ told' \in [Ids -> {"nothing", "delivered", "lost"}]
        <3>1. CASE a = "failed"
            BY <1>2, <2>2, <2>3, <3>1, ReturnsTypes, TellTypes DEF Kinds
        <3>2. CASE a # "failed"
            BY <1>2, <2>2, <2>3, <3>2, ReturnsTypes DEF TransportTypeOK, Kinds
        <3> QED
            BY <3>1, <3>2
    <2> QED
        BY <1>2, <2>1, <2>2, <2>4, <2>5 DEF Persist, Idle, TransportTypeOK, endpoint, books
<1>3. ASSUME TransportTypeOK, Recover PROVE TransportTypeOK'
    <2>1. call' \in CallRecords
        BY <1>3, CallTypes, LogIdsFacts DEF Recover
    <2> QED
        BY <1>3, <2>1 DEF Recover, Idle, TransportTypeOK, endpoint, books, Busy
<1> QED
    BY <1>1, <1>2, <1>3

\* A recovery looks at the oldest record of its snapshot.
LEMMA OldestTypes ==
    ASSUME TransportTypeOK, call.todo # <<>>
    PROVE  Oldest \in Ids /\ Tail(call.todo) \in Seq(Ids)
<1>1. call.todo \in Seq(Ids)
    BY DEF TransportTypeOK, CallRecords
<1> QED
    BY <1>1, TailFacts DEF Oldest

\* A record is sent under its number.
LEMMA RecTypes == TransportTypeOK => Rec \in 0 .. MaxRecords
BY DEF TransportTypeOK, CallRecords, Rec

\* The steps of a recovery keep the types.
LEMMA TypeRecover ==
    TransportTypeOK /\ (RecoverEnds \/ RecoverCancelled \/ ClampPause \/ Defer \/ Replay)
        => TransportTypeOK'
<1>1. ASSUME TransportTypeOK, RecoverEnds \/ RecoverCancelled PROVE TransportTypeOK'
    <2>1. 0 \in 0 .. MaxRecords
        BY TransportAssumption DEF TransportAssumption
    <2>2. Returns("recovered", 0) \/ Returns("blocked", 0)
        BY <1>1 DEF RecoverEnds, RecoverCancelled
    <2>3. /\ pc' = "idle" /\ call' \in CallRecords
          /\ result' \in [kind : Kinds, rec : 0 .. MaxRecords]
        BY <2>1, <2>2, ReturnsTypes DEF Kinds
    <2> QED
        BY <1>1, <2>3
           DEF RecoverEnds, RecoverCancelled, Check, TransportTypeOK, endpoint, books
<1>2. ASSUME TransportTypeOK, ClampPause \/ Defer PROVE TransportTypeOK'
    <2>1. Oldest \in Ids /\ Oldest \in 0 .. MaxRecords /\ MaxWait \in 0 .. Far
        BY <1>2, OldestTypes, TransportAssumption
           DEF ClampPause, Defer, Left, TransportAssumption, Ids
    <2>2. Returns("deferred", Oldest) \/ Returns("blocked", Oldest)
        BY <1>2 DEF ClampPause, Defer
    <2>3. /\ pc' = "idle" /\ call' \in CallRecords
          /\ result' \in [kind : Kinds, rec : 0 .. MaxRecords]
        BY <2>1, <2>2, ReturnsTypes DEF Kinds
    <2>4. log' = log \/ \E a : log' = Paused(Oldest, MaxWait, a)
        BY <1>2 DEF ClampPause, Defer
    <2>5. log' \in Seq(Entries)
        BY <1>2, <2>1, <2>4, PausedFacts DEF TransportTypeOK
    <2> QED
        BY <1>2, <2>3, <2>5 DEF ClampPause, Defer, Check, TransportTypeOK, endpoint, books
<1>3. ASSUME TransportTypeOK, Replay PROVE TransportTypeOK'
    <2>1. call' \in CallRecords
        BY <1>3, OldestTypes, CallTypes DEF Replay, Left
    <2> QED
        BY <1>3, <2>1 DEF Replay, Check, TransportTypeOK, endpoint, books, Busy
<1> QED
    BY <1>1, <1>2, <1>3

\* What the endpoint asked for is bounded.
LEMMA AnsweredTypes ==
    ASSUME TransportTypeOK, NEW suggestion \in Nat, Answered(suggestion)
    PROVE  /\ owed' \in [Ids -> 0 .. MaxWait]
           /\ excuse' \in [Ids -> {"none", "cancelled", "unstored", "clock", "crash"}]
<1>1. Lesser(suggestion, MaxWait) \in 0 .. MaxWait
    BY TransportAssumption DEF Lesser, TransportAssumption
<1> QED
    BY <1>1 DEF TransportTypeOK, Answered

\* A post and its answer keep the types.
LEMMA TypePost ==
    ASSUME TransportTypeOK, pc \in InRecord => Rec \in Ids,
           PostAccepted \/ PostRefused \/ PostFailed \/ PostThrottled
    PROVE  TransportTypeOK'
<1>1. Rec \in Ids
    BY DEF PostAccepted, PostRefused, PostFailed, PostThrottled, Posting, InRecord, Busy
<1>2. CASE PostAccepted \/ PostRefused \/ PostFailed
    <2>1. Answered(0)
        BY <1>2 DEF PostAccepted, PostRefused, PostFailed
    <2>2. /\ owed' \in [Ids -> 0 .. MaxWait]
          /\ excuse' \in [Ids -> {"none", "cancelled", "unstored", "clock", "crash"}]
        BY <2>1, AnsweredTypes
    <2>3. accepted' \subseteq Ids /\ refused' \subseteq Ids /\ doubt' \subseteq Ids
        BY <1>1, <1>2 DEF PostAccepted, PostRefused, PostFailed, TransportTypeOK
    <2>4. pc' \in {"idle"} \union Busy
        BY <1>2 DEF PostAccepted, PostRefused, PostFailed, Any2xx, Busy
    <2> QED
        BY <1>2, <2>2, <2>3, <2>4
           DEF PostAccepted, PostRefused, PostFailed, Posting, TransportTypeOK
<1>3. CASE PostThrottled
    <2>1. PICK s \in Suggestions :
             call' = [call EXCEPT !.hint = BoundedRetryAfter(s)] /\ Answered(s)
        BY <1>3 DEF PostThrottled
    <2>2. s \in Nat /\ BoundedRetryAfter(s) \in 0 .. MaxWait
        BY TransportAssumption DEF TransportAssumption, BoundedRetryAfter, Lesser
    <2>3. call' \in CallRecords
        BY <2>1, <2>2, CallUpdates DEF TransportTypeOK
    <2>4. /\ owed' \in [Ids -> 0 .. MaxWait]
          /\ excuse' \in [Ids -> {"none", "cancelled", "unstored", "clock", "crash"}]
        BY <2>1, <2>2, AnsweredTypes
    <2> QED
        BY <1>3, <2>3, <2>4 DEF PostThrottled, Posting, TransportTypeOK, endpoint, Busy
<1> QED
    BY <1>2, <1>3

\* A call that fails keeps the types.
LEMMA FailsTypes ==
    ASSUME TransportTypeOK, Fails
    PROVE  /\ pc' = "idle" /\ call' \in CallRecords
           /\ result' \in [kind : Kinds, rec : 0 .. MaxRecords]
           /\ told' \in [Ids -> {"nothing", "delivered", "lost"}]
<1>1. Rec \in 0 .. MaxRecords /\ Failure \in Kinds
    BY RecTypes DEF Failure, Kinds
<1>2. Returns(Failure, Rec)
    BY DEF Fails
<1>3. told' \in [Ids -> {"nothing", "delivered", "lost"}]
    BY TellTypes DEF Fails, TransportTypeOK
<1> QED
    BY <1>1, <1>2, <1>3, ReturnsTypes

\* A pause that is stored is one that the clock may show.
LEMMA PauseLeftTypes == TransportTypeOK => PauseLeft \in 0 .. MaxWait /\ PauseLeft \in 0 .. Far
<1>1. TransportTypeOK => PauseLeft \in 0 .. MaxWait
    BY TransportAssumption DEF TransportTypeOK, CallRecords, PauseLeft, TransportAssumption
<1> QED
    BY <1>1, TransportAssumption DEF TransportAssumption

\* Retries, waits and their ends keep the types.
LEMMA TypeRetry ==
    TransportTypeOK /\ (Retry \/ WaitOver \/ WaitCancelled \/ Exhausted) => TransportTypeOK'
<1>1. ASSUME TransportTypeOK, Retry PROVE TransportTypeOK'
    <2>1. PICK d \in Delays : /\ call.attempt < MaxRetries
                              /\ call' = [call EXCEPT !.attempt = NextAttempt,
                                                      !.hint = NoHint, !.wait = d]
        BY <1>1 DEF Retry
    <2>2. call \in CallRecords /\ d \in 0 .. LongestDelay
        BY <1>1, DelaysType DEF TransportTypeOK
    <2>3. call' \in CallRecords
        BY <2>1, <2>2, CallUpdates
    <2> QED
        BY <1>1, <2>3 DEF Retry, TransportTypeOK, endpoint, books, Busy
<1>2. ASSUME TransportTypeOK, WaitOver PROVE TransportTypeOK'
    BY <1>2 DEF WaitOver, TransportTypeOK, endpoint, books, Busy
<1>3. ASSUME TransportTypeOK, WaitCancelled PROVE TransportTypeOK'
    <2>1. Fails
        BY <1>3 DEF WaitCancelled
    <2>2. /\ pc' = "idle" /\ call' \in CallRecords
          /\ result' \in [kind : Kinds, rec : 0 .. MaxRecords]
          /\ told' \in [Ids -> {"nothing", "delivered", "lost"}]
        BY <1>3, <2>1, FailsTypes
    <2>3. excuse' \in [Ids -> {"none", "cancelled", "unstored", "clock", "crash"}]
        BY <1>3 DEF WaitCancelled, TransportTypeOK
    <2> QED
        BY <1>3, <2>1, <2>2, <2>3 DEF WaitCancelled, Fails, TransportTypeOK, endpoint
<1>4. ASSUME TransportTypeOK, Exhausted PROVE TransportTypeOK'
    <2>1. Fails
        BY <1>4 DEF Exhausted
    <2>2. /\ pc' = "idle" /\ call' \in CallRecords
          /\ result' \in [kind : Kinds, rec : 0 .. MaxRecords]
          /\ told' \in [Ids -> {"nothing", "delivered", "lost"}]
        BY <1>4, <2>1, FailsTypes
    <2>3. PICK a : /\ log' = Paused(Rec, PauseLeft, a)
                   /\ excuse' = IF a = "failed" THEN [excuse EXCEPT ![Rec] = "unstored"]
                                ELSE excuse
        BY <1>4 DEF Exhausted
    <2>4. log' \in Seq(Entries)
        BY <1>4, <2>3, PausedFacts, PauseLeftTypes
    <2>5. excuse' \in [Ids -> {"none", "cancelled", "unstored", "clock", "crash"}]
        BY <1>4, <2>3 DEF TransportTypeOK
    <2> QED
        BY <1>4, <2>1, <2>2, <2>4, <2>5 DEF Fails, TransportTypeOK, endpoint
<1> QED
    BY <1>1, <1>2, <1>3, <1>4

\* What follows a record that left the log keeps the types.
LEMMA ProceedsTypes ==
    ASSUME TransportTypeOK, NEW outcome \in Kinds, Proceeds(outcome)
    PROVE  /\ pc' \in {"idle"} \union Busy /\ call' \in CallRecords
           /\ result' \in [kind : Kinds, rec : 0 .. MaxRecords]
<1>1. CASE call.mode = "send"
    BY <1>1, ReturnsTypes, RecTypes DEF Proceeds
<1>2. CASE call.mode # "send"
    BY <1>2, CallUpdates DEF Proceeds, TransportTypeOK, Busy
<1> QED
    BY <1>1, <1>2

\* What follows an acknowledgement, whatever the store answered.
Acknowledged(a, outcome) ==
    /\ log' = Unlogged(Rec, a)
    /\ IF Removed(a)
       THEN /\ Tell(Rec, outcome)
            /\ \/ Returns("blocked", Rec) /\ call.mode = "recover" /\ doubt' = doubt
               \/ Proceeds(outcome) /\ doubt' = doubt
       ELSE /\ Returns(Failure, Rec)
            /\ UNCHANGED told
            /\ doubt' = IF outcome = "delivered" THEN doubt \union {Rec} ELSE doubt

\* An accepted record and a refused one are acknowledged.
LEMMA AckFacts ==
    /\ AckAccepted => \E a \in {"ok", "warned", "failed"} : Acknowledged(a, "delivered")
    /\ AckRefused => \E a \in {"ok", "warned", "failed"} : Acknowledged(a, "lost")
<1>1. ASSUME AckAccepted
      PROVE  \E a \in {"ok", "warned", "failed"} : Acknowledged(a, "delivered")
    <2>1. PICK a \in {"ok", "warned", "failed"} :
             /\ log' = Unlogged(Rec, a)
             /\ IF Removed(a)
                THEN /\ Tell(Rec, "delivered")
                     /\ IF a = "warned" /\ call.mode = "recover"
                        THEN Returns("blocked", Rec)
                        ELSE Proceeds("delivered")
                     /\ UNCHANGED doubt
                ELSE /\ Returns(Failure, Rec)
                     /\ doubt' = doubt \union {Rec}
                     /\ UNCHANGED told
        BY <1>1 DEF AckAccepted, StoreAnswers
    <2>2. Acknowledged(a, "delivered")
        BY <2>1 DEF Acknowledged
    <2> QED
        BY <2>2
<1>2. ASSUME AckRefused
      PROVE  \E a \in {"ok", "warned", "failed"} : Acknowledged(a, "lost")
    <2>1. PICK a \in {"ok", "warned", "failed"} :
             /\ log' = Unlogged(Rec, a)
             /\ IF Removed(a)
                THEN Tell(Rec, "lost") /\ Proceeds("lost")
                ELSE Returns(Failure, Rec) /\ UNCHANGED told
        BY <1>2 DEF AckRefused, StoreAnswers
    <2>2. Acknowledged(a, "lost")
        BY <1>2, <2>1 DEF Acknowledged, AckRefused
    <2> QED
        BY <2>2
<1> QED
    BY <1>1, <1>2

\* The acknowledgements keep the types.
LEMMA TypeAck ==
    ASSUME TransportTypeOK, pc \in InRecord => Rec \in Ids, AckAccepted \/ AckRefused
    PROVE  TransportTypeOK'
<1>1. Rec \in Ids /\ Rec \in 0 .. MaxRecords
    BY RecTypes DEF AckAccepted, AckRefused, InRecord, Busy
<1>2. PICK a \in {"ok", "warned", "failed"}, outcome \in {"delivered", "lost"} :
         Acknowledged(a, outcome)
    BY AckFacts
<1>3. log' \in Seq(Entries)
    BY <1>2, UnloggedFacts DEF Acknowledged
<1>4. Failure \in Kinds /\ outcome \in Kinds /\ "blocked" \in Kinds
    BY DEF Failure, Kinds
<1>5. /\ pc' \in {"idle"} \union Busy /\ call' \in CallRecords
      /\ result' \in [kind : Kinds, rec : 0 .. MaxRecords]
    BY <1>1, <1>2, <1>4, ReturnsTypes, ProceedsTypes DEF Acknowledged
<1>6. told' \in [Ids -> {"nothing", "delivered", "lost"}]
    BY <1>2, TellTypes DEF Acknowledged, TransportTypeOK
<1>7. doubt' \subseteq Ids
    BY <1>1, <1>2 DEF Acknowledged, TransportTypeOK
<1> QED
    BY <1>3, <1>5, <1>6, <1>7
       DEF AckAccepted, AckRefused, Resolving, TransportTypeOK, endpoint

\* Time, clocks and crashes keep the types.
LEMMA TypeEnvironment ==
    ASSUME TransportTypeOK, pc \in InRecord => Rec \in Ids, Cancel \/ Tick \/ ClockSet \/ Crash
    PROVE  TransportTypeOK'
<1> DEFINE Excuses == {"none", "cancelled", "unstored", "clock", "crash"}
<1>1. CASE Cancel
    BY <1>1 DEF Cancel, TransportTypeOK, endpoint, books
<1>2. CASE Tick
    <2>1. log' \in Seq(Entries) /\ call' \in CallRecords
        BY <1>2, TickedFacts, CallUpdates DEF Tick, TransportTypeOK
    <2>2. \A r \in Ids : Less(owed[r]) \in 0 .. MaxWait
        BY TransportAssumption DEF TransportTypeOK, Less, TransportAssumption
    <2>3. owed' \in [Ids -> 0 .. MaxWait]
        BY <1>2, <2>2 DEF Tick
    <2> QED
        BY <1>2, <2>1, <2>3 DEF Tick, TransportTypeOK, endpoint
<1>3. CASE ClockSet
    <2>1. PICK r \in Ids, pause \in 0 .. Far : log' = Paused(r, pause, "ok")
        BY <1>3 DEF ClockSet
    <2>2. log' \in Seq(Entries)
        BY <2>1, PausedFacts
    <2>3. excuse' \in [Ids -> Excuses]
        BY <1>3 DEF ClockSet, Excused, TransportTypeOK
    <2> QED
        BY <1>3, <2>2, <2>3 DEF ClockSet, TransportTypeOK, endpoint
<1>4. CASE Crash
    <2>1. call' \in CallRecords /\ result' \in [kind : Kinds, rec : 0 .. MaxRecords]
        <3>1. NoResult \in [kind : Kinds, rec : 0 .. MaxRecords]
            BY TransportAssumption DEF NoResult, Kinds, TransportAssumption
        <3>2. call' = NoCall /\ result' = NoResult /\ NoCall \in CallRecords
            BY <1>4, CallTypes DEF Crash
        <3> QED
            BY <3>1, <3>2
    <2>2. excuse' \in [Ids -> Excuses]
        BY <1>4 DEF Crash, Excused, TransportTypeOK
    <2>3. doubt' \subseteq Ids
        BY <1>4 DEF Crash, TransportTypeOK, InRecord, Busy
    <2> QED
        BY <1>4, <2>1, <2>2, <2>3 DEF Crash, TransportTypeOK, endpoint
<1> QED
    BY <1>1, <1>2, <1>3, <1>4

\* Every step keeps the types.
LEMMA TypeStep ==
    ASSUME TransportTypeOK, CallOK, TransportNext
    PROVE  TransportTypeOK'
<1>1. pc \in InRecord => Rec \in Ids
    <2>1. pc \in InRecord => Rec \in 1 .. next - 1
        BY DEF CallOK
    <2> QED
        BY <2>1, TransportAssumption DEF TransportTypeOK, Ids, TransportAssumption
<1> QED
    BY <1>1, TypeCalls, TypeRecover, TypePost, TypeRetry, TypeAck, TypeEnvironment
       DEF TransportNext, Work

---------------------------------------------------------------------------
(* What a step does to the log *)

\* pauses may change, records do not
SameRecords ==
    /\ Len(log') = Len(log)
    /\ \A i \in 1 .. Len(log) : log'[i].id = log[i].id

\* Then the ids are the same, in the same order.
LEMMA SameFacts ==
    ASSUME TransportTypeOK, log' \in Seq(Entries), SameRecords, LogOK,
           enabled' = enabled, next' \in Int, next <= next'
    PROVE  /\ LogIds' = LogIds
           /\ Held' = Held
           /\ LogOK'
<1>1. Len(log) \in Nat /\ Len(log') = Len(log)
    BY DEF TransportTypeOK, SameRecords
<1>2. LogIds' = LogIds
    BY <1>1 DEF LogIds, SameRecords
<1>3. Held' = Held
    BY <1>1 DEF Held, SameRecords
<1>4. LogOK'
    <2>1. ~enabled' => log' = <<>>
        <3>1. ~enabled => Len(log) = 0
            BY DEF LogOK
        <3>2. Len(log') = 0 => log' = <<>>
            OBVIOUS
        <3> QED
            BY <1>1, <3>1, <3>2
    <2>2. \A i, j \in 1 .. Len(log') : i < j => log'[i].id < log'[j].id
        BY <1>1 DEF LogOK, SameRecords
    <2>3. \A i \in 1 .. Len(log') : log'[i].id < next'
        <3>1. \A i \in 1 .. Len(log) : log[i].id < next /\ log[i].id \in Int
            BY LogIdsFacts DEF LogOK, Ids
        <3>2. next \in Int
            BY TransportAssumption DEF TransportTypeOK, TransportAssumption
        <3> QED
            BY <1>1, <3>1, <3>2 DEF SameRecords
    <2> QED
        BY <2>1, <2>2, <2>3 DEF LogOK
<1> QED
    BY <1>2, <1>3, <1>4

\* A log that stays as it is has the same records.
LEMMA SameLog ==
    ASSUME TransportTypeOK, log' = log
    PROVE  log' \in Seq(Entries) /\ SameRecords
BY DEF TransportTypeOK, SameRecords

\* So has one in which a pause was set.
LEMMA SamePaused ==
    ASSUME TransportTypeOK, NEW r, NEW pause \in 0 .. Far, NEW a, log' = Paused(r, pause, a)
    PROVE  log' \in Seq(Entries) /\ SameRecords
BY PausedFacts DEF SameRecords

\* A put adds its record.
LEMMA PutFacts ==
    ASSUME TransportTypeOK, LogOK, next <= MaxRecords, NEW a \in StoreAnswers,
           log' = Logged(next, a), enabled' = enabled, next' = next + 1
    PROVE  /\ Held' = IF enabled /\ a # "failed" THEN Held \union {next} ELSE Held
           /\ next \notin Held
           /\ LogOK'
<1>1. /\ next \in Ids /\ next \in Int
      /\ Len(log) \in Nat /\ \A i \in 1 .. Len(log) : log[i].id \in Int
      /\ \A i \in 1 .. Len(log) : log[i].id < next
    <2>1. next \in Ids
        BY NextTypes
    <2>2. next \in Int
        BY <2>1 DEF Ids
    <2>3. Len(log) \in Nat /\ \A i \in 1 .. Len(log) : log[i].id \in Int
        BY LogIdsFacts DEF Ids
    <2> QED
        BY <2>1, <2>2, <2>3 DEF LogOK
<1>2. next \notin Held
    BY <1>1 DEF Held
<1>3. CASE ~(enabled /\ a # "failed")
    <2>1. log' = log
        BY <1>1, <1>3, LoggedFacts, TransportAssumption
    <2>2. log' \in Seq(Entries) /\ SameRecords
        BY <2>1, SameLog
    <2> QED
        BY <1>1, <1>2, <1>3, <2>2, SameFacts
<1>4. CASE enabled /\ a # "failed"
    <2>1. /\ Len(log') = Len(log) + 1
          /\ \A i \in 1 .. Len(log) : log'[i] = log[i]
          /\ log'[Len(log) + 1].id = next
        <3>1. /\ Len(log') = Len(log) + 1
              /\ \A i \in 1 .. Len(log) : log'[i] = log[i]
              /\ log'[Len(log) + 1] = [id |-> next, pause |-> 0]
            BY <1>1, <1>4, LoggedFacts, TransportAssumption
        <3> QED
            BY <3>1
    <2>2. \A i \in 1 .. Len(log') : i \in 1 .. Len(log) \/ i = Len(log) + 1
        BY <1>1, <2>1
    <2>3. ASSUME NEW r PROVE r \in Held' <=> r \in Held \/ r = next
        <3>1. r \in Held' <=> \E i \in 1 .. Len(log') : log'[i].id = r
            BY DEF Held
        <3>2. r \in Held <=> \E i \in 1 .. Len(log) : log[i].id = r
            BY DEF Held
        <3>3. \A i \in 1 .. Len(log) : i \in 1 .. Len(log')
            BY <1>1, <2>1
        <3>4. Len(log) + 1 \in 1 .. Len(log')
            BY <1>1, <2>1
        <3> QED
            BY <2>1, <2>2, <3>1, <3>2, <3>3, <3>4
    <2>4. \A i, j \in 1 .. Len(log') : i < j => log'[i].id < log'[j].id
        BY <1>1, <2>1, <2>2 DEF LogOK
    <2>5. \A i \in 1 .. Len(log') : log'[i].id < next'
        BY <1>1, <2>1, <2>2
    <2>6. LogOK'
        BY <1>4, <2>4, <2>5 DEF LogOK
    <2> QED
        BY <1>2, <1>4, <2>3, <2>6
<1> QED
    BY <1>3, <1>4

\* An acknowledgement removes its record, and none other.
LEMMA RemovalFacts ==
    ASSUME TransportTypeOK, LogOK, NEW a, NEW q, log' = Unlogged(q, a),
           enabled' = enabled, next' = next
    PROVE  /\ Held' = IF a = "failed" THEN Held ELSE Held \ {q}
           /\ LogOK'
           /\ \A k \in 1 .. Len(log') : \E i \in 1 .. Len(log) : log'[k] = log[i]
<1>1. next \in Int
    BY TransportAssumption DEF TransportTypeOK, TransportAssumption
<1>2. CASE ~InLog(q) \/ a = "failed"
    <2>1. log' = log
        BY <1>2, UnloggedFacts
    <2>2. log' \in Seq(Entries) /\ SameRecords
        BY <2>1, SameLog
    <2>3. LogOK' /\ Held' = Held
        BY <1>1, <2>2, SameFacts
    <2> QED
        BY <1>2, <2>1, <2>3 DEF InLog
<1>3. CASE InLog(q) /\ a # "failed"
    <2> DEFINE p == Place(q)
    <2>1. p \in 1 .. Len(log) /\ log[p].id = q
        BY <1>3, PlaceFacts
    <2>2. /\ Len(log') = Len(log) - 1
          /\ \A k \in 1 .. Len(log) - 1 : log'[k] = IF k < p THEN log[k] ELSE log[k + 1]
        BY <1>3, UnloggedFacts
    <2>3. ASSUME NEW i \in 1 .. Len(log), log[i].id = q PROVE i = p
        BY <2>3, PlaceUnique
    <2> HIDE DEF p
    <2>4. Len(log) \in Nat /\ \A i \in 1 .. Len(log) : log[i].id \in Int
        BY LogIdsFacts DEF Ids
    <2>5. \A k \in 1 .. Len(log') :
             \/ k < p /\ k \in 1 .. Len(log) /\ log'[k] = log[k]
             \/ k >= p /\ k + 1 \in 1 .. Len(log) /\ log'[k] = log[k + 1]
        BY <2>1, <2>2, <2>4
    <2>6. \A k \in 1 .. Len(log') : \E i \in 1 .. Len(log) : log'[k] = log[i] /\ i # p
        <3>1. SUFFICES ASSUME NEW k \in 1 .. Len(log')
                       PROVE  \E i \in 1 .. Len(log) : log'[k] = log[i] /\ i # p
            OBVIOUS
        <3>2. k \in Int /\ p \in Int
            BY <2>1, <2>2, <2>4
        <3>3. CASE k < p
            <4>1. k \in 1 .. Len(log) /\ log'[k] = log[k] /\ k # p
                BY <2>5, <3>2, <3>3
            <4> QED
                BY <4>1
        <3>4. CASE k >= p
            <4>1. k + 1 \in 1 .. Len(log) /\ log'[k] = log[k + 1] /\ k + 1 # p
                BY <2>5, <3>2, <3>4
            <4> QED
                BY <4>1
        <3> QED
            BY <3>2, <3>3, <3>4
    <2>7. ASSUME NEW i \in 1 .. Len(log), i # p
          PROVE  \E k \in 1 .. Len(log') : log'[k] = log[i]
        <3>1. CASE i < p
            <4>1. i \in 1 .. Len(log')
                BY <2>1, <2>2, <2>4, <3>1
            <4> QED
                BY <2>1, <2>2, <2>4, <3>1, <4>1
        <3>2. CASE i > p
            <4>1. i - 1 \in 1 .. Len(log') /\ ~(i - 1 < p) /\ (i - 1) + 1 = i
                BY <2>1, <2>2, <2>4, <3>2
            <4>2. log'[i - 1] = log[i]
                BY <2>1, <2>2, <2>4, <4>1
            <4> QED
                BY <4>1, <4>2
        <3> QED
            BY <2>1, <2>4, <2>7, <3>1, <3>2
    <2>8. ASSUME NEW r PROVE r \in Held' <=> r \in Held /\ r # q
        <3>1. r \in Held' <=> \E k \in 1 .. Len(log') : log'[k].id = r
            BY DEF Held
        <3>2. r \in Held <=> \E i \in 1 .. Len(log) : log[i].id = r
            BY DEF Held
        <3>3. ASSUME r \in Held' PROVE r \in Held /\ r # q
            <4>1. PICK k \in 1 .. Len(log') : log'[k].id = r
                BY <3>1, <3>3
            <4>2. PICK i \in 1 .. Len(log) : log'[k] = log[i] /\ i # p
                BY <2>6
            <4> QED
                BY <2>3, <3>2, <4>1, <4>2
        <3>4. ASSUME r \in Held, r # q PROVE r \in Held'
            <4>1. PICK i \in 1 .. Len(log) : log[i].id = r
                BY <3>2, <3>4
            <4>2. i # p
                BY <2>1, <3>4, <4>1
            <4>3. PICK k \in 1 .. Len(log') : log'[k] = log[i]
                BY <2>7, <4>2
            <4> QED
                BY <3>1, <4>1, <4>3
        <3> QED
            BY <3>3, <3>4
    <2>9. \A k, l \in 1 .. Len(log') : k < l => log'[k].id < log'[l].id
        <3>1. SUFFICES ASSUME NEW k \in 1 .. Len(log'), NEW l \in 1 .. Len(log'), k < l
                       PROVE  log'[k].id < log'[l].id
            OBVIOUS
        <3>2. PICK i \in 1 .. Len(log), j \in 1 .. Len(log) :
                 i < j /\ log'[k] = log[i] /\ log'[l] = log[j]
            <4>1. k \in Int /\ l \in Int /\ p \in Int
                BY <2>1, <2>2, <2>4
            <4>2. CASE l < p
                BY <2>5, <3>1, <4>1, <4>2
            <4>3. CASE k < p /\ l >= p
                BY <2>5, <3>1, <4>1, <4>3
            <4>4. CASE k >= p
                BY <2>5, <3>1, <4>1, <4>4
            <4> QED
                BY <4>1, <4>2, <4>3, <4>4
        <3> QED
            BY <3>2 DEF LogOK
    <2>10. \A k \in 1 .. Len(log') : log'[k].id < next'
        BY <2>6 DEF LogOK
    <2>11. enabled
        BY <2>1, <2>4 DEF LogOK
    <2>12. LogOK'
        BY <2>9, <2>10, <2>11 DEF LogOK
    <2> QED
        BY <1>3, <2>6, <2>8, <2>12
<1> QED
    BY <1>2, <1>3

\* A recovered record is the oldest; without it, the log is what is left to do.
LEMMA RemovalInStep ==
    ASSUME TransportTypeOK, LogOK, RecoveryInStep, call.mode = "recover", pc \in InRecord,
           Rec \in Ids, NEW a, a # "failed", log' = Unlogged(Rec, a)
    PROVE  LogIds' = call.todo
<1> DEFINE s == call.todo
<1>1. s \in Seq(Ids)
    BY DEF TransportTypeOK, CallRecords
<1>2. LogIds = <<Rec>> \o s
    BY DEF RecoveryInStep, InRecord
<1> HIDE DEF s
<1>3. /\ Len(LogIds) = Len(s) + 1 /\ LogIds[1] = Rec /\ Tail(LogIds) = s
      /\ Len(s) \in Nat
    BY <1>1, <1>2, PrependFacts
<1>4. /\ LogIds \in Seq(Ids) /\ Len(LogIds) = Len(log) /\ Len(log) \in Nat
      /\ \A i \in 1 .. Len(log) : LogIds[i] = log[i].id
    BY LogIdsFacts
<1>5. \A k \in 1 .. Len(s) : s[k] = LogIds[k + 1] /\ k + 1 \in 1 .. Len(log)
    <2>1. LogIds # <<>>
        BY <1>3, <1>4
    <2>2. \A k \in 1 .. Len(LogIds) - 1 : Tail(LogIds)[k] = LogIds[k + 1]
        BY <1>4, <2>1, TailFacts
    <2> QED
        BY <1>3, <1>4, <2>2
<1>6. 1 \in 1 .. Len(log) /\ log[1].id = Rec
    BY <1>3, <1>4
<1>7. InLog(Rec) /\ Place(Rec) = 1
    BY <1>6, PlaceUnique
<1>8. /\ Len(log') = Len(log) - 1
      /\ \A k \in 1 .. Len(log) - 1 : log'[k] = IF k < 1 THEN log[k] ELSE log[k + 1]
    BY <1>7, UnloggedFacts
<1>9. Len(log') = Len(s) /\ \A k \in 1 .. Len(s) : log'[k].id = s[k]
    <2>1. ASSUME NEW k \in 1 .. Len(s) PROVE log'[k].id = s[k]
        <3>1. k \in 1 .. Len(log) - 1 /\ ~(k < 1)
            BY <1>3, <1>4
        <3>2. log'[k] = log[k + 1]
            BY <1>8, <3>1
        <3> QED
            BY <1>4, <1>5, <3>2
    <2> QED
        BY <1>3, <1>4, <1>8, <2>1
<1>10. LogIds' = [k \in 1 .. Len(s) |-> s[k]]
    BY <1>9 DEF LogIds
<1>11. s = [k \in 1 .. Len(s) |-> s[k]]
    BY <1>1
<1> QED
    BY <1>10, <1>11 DEF s

---------------------------------------------------------------------------
(* What is known of the records *)

\* the invariant without its types and pauses
Known ==
    /\ LogOK /\ CallOK /\ FreshOK /\ DoubtOK
    /\ RecoveryInStep /\ ResultTrue /\ ToldTruth

\* The numbers of records.
LEMMA NumberFacts ==
    ASSUME TransportTypeOK, LogOK
    PROVE  /\ next \in Int /\ next >= 1 /\ MaxRecords \in Int
           /\ \A r \in Ids : r \in Int /\ r \in 1 .. MaxRecords
           /\ \A r \in 1 .. next - 1 : r \in Ids
           /\ Held \subseteq 1 .. next - 1
<1>1. next \in 1 .. MaxRecords + 1 /\ MaxRecords \in Nat
    BY TransportAssumption DEF TransportTypeOK, TransportAssumption
<1>2. Held \subseteq 1 .. next - 1
    BY <1>1, LogIdsFacts DEF Held, LogOK, Ids
<1> QED
    BY <1>1, <1>2 DEF Ids

\* send keeps what is known.
LEMMA KnownSend == ASSUME TransportTypeOK, Known, Send PROVE Known'
<1>1. PICK a \in StoreAnswers :
         /\ log' = Logged(next, a)
         /\ CASE a = "ok" -> pc' = "post" /\ AnyPost(next) /\ UNCHANGED <<result, told>>
              [] a = "warned" -> Returns("retained", next) /\ UNCHANGED told
              [] a = "failed" -> Returns("lost", next) /\ Tell(next, "lost")
    BY DEF Send
<1>2. /\ pc = "idle" /\ next <= MaxRecords /\ next' = next + 1
      /\ UNCHANGED <<enabled, accepted, refused, owed, excuse, doubt>>
    BY DEF Send, Idle, endpoint, books
<1>3. /\ Held' = IF enabled /\ a # "failed" THEN Held \union {next} ELSE Held
      /\ next \notin Held
      /\ LogOK'
    BY <1>1, <1>2, PutFacts DEF Known
<1>4. /\ next \in Int /\ next >= 1 /\ MaxRecords \in Int
      /\ \A r \in Ids : r \in Int /\ r \in 1 .. MaxRecords
      /\ \A r \in 1 .. next - 1 : r \in Ids
      /\ Held \subseteq 1 .. next - 1 /\ next \in Ids
    BY <1>2, NumberFacts, NextTypes DEF Known
<1>5. told \in [Ids -> {"nothing", "delivered", "lost"}] /\ accepted \subseteq Ids
    BY DEF TransportTypeOK
<1>6. a \in {"ok", "warned", "failed"} /\ (~enabled => a = "ok")
    BY DEF StoreAnswers
<1>7. told[next] = "nothing" /\ next \notin accepted
    BY <1>4 DEF Known, FreshOK
<1>8. /\ \A r \in Ids : r # next => told'[r] = told[r]
      /\ told'[next] = IF a = "failed" THEN "lost" ELSE "nothing"
    BY <1>1, <1>4, <1>5, <1>6, <1>7 DEF Tell
<1>9. \/ a = "ok" /\ pc' = "post" /\ call'.mode = "send" /\ call'.rec = next
      \/ a # "ok" /\ pc' = "idle" /\ call'.mode = "none"
            /\ result' = [kind |-> IF a = "failed" THEN "lost" ELSE "retained", rec |-> next]
    <2>1. CASE a = "ok"
        BY <1>1, <2>1 DEF NoCall, AnyPost
    <2>2. CASE a = "warned"
        <3>1. Returns("retained", next)
            BY <1>1, <2>2
        <3> QED
            BY <2>2, <3>1 DEF Returns, NoCall
    <2>3. CASE a = "failed"
        <3>1. Returns("lost", next)
            BY <1>1, <2>3
        <3> QED
            BY <2>3, <3>1 DEF Returns, NoCall
    <2> QED
        BY <1>6, <2>1, <2>2, <2>3
<1>10. CallOK'
    BY <1>2, <1>3, <1>4, <1>6, <1>8, <1>9 DEF CallOK, InLog, Rec, InRecord, Busy
<1>11. FreshOK'
    BY <1>2, <1>4, <1>8 DEF Known, FreshOK
<1>12. DoubtOK'
    BY <1>2, <1>5, <1>7, <1>8 DEF Known, DoubtOK
<1>13. RecoveryInStep'
    BY <1>9 DEF RecoveryInStep
<1>14. ResultTrue'
    BY <1>3, <1>6, <1>9 DEF ResultTrue, InLog
<1>15. ToldTruth'
    <2>1. \A r \in 1 .. next' - 1 : r \in 1 .. next - 1 \/ r = next
        BY <1>2, <1>4
    <2> QED
        BY <1>2, <1>3, <1>4, <1>6, <1>7, <1>8, <2>1 DEF Known, ToldTruth, InLog
<1> QED
    BY <1>3, <1>10, <1>11, <1>12, <1>13, <1>14, <1>15 DEF Known

\* So does persist.
LEMMA KnownPersist == ASSUME TransportTypeOK, Known, Persist PROVE Known'
<1>1. PICK a \in StoreAnswers :
         /\ log' = Logged(next, a)
         /\ IF a = "failed" THEN Returns("lost", next) /\ Tell(next, "lost")
            ELSE Returns("retained", next) /\ UNCHANGED told
    BY DEF Persist
<1>2. /\ pc = "idle" /\ enabled /\ next <= MaxRecords /\ next' = next + 1
      /\ UNCHANGED <<enabled, accepted, refused, owed, excuse, doubt>>
    BY DEF Persist, Idle, endpoint, books
<1>3. /\ Held' = IF enabled /\ a # "failed" THEN Held \union {next} ELSE Held
      /\ next \notin Held
      /\ LogOK'
    BY <1>1, <1>2, PutFacts DEF Known
<1>4. /\ next \in Int /\ next >= 1 /\ MaxRecords \in Int
      /\ \A r \in Ids : r \in Int /\ r \in 1 .. MaxRecords
      /\ \A r \in 1 .. next - 1 : r \in Ids
      /\ Held \subseteq 1 .. next - 1 /\ next \in Ids
    BY <1>2, NumberFacts, NextTypes DEF Known
<1>5. told \in [Ids -> {"nothing", "delivered", "lost"}] /\ accepted \subseteq Ids
    BY DEF TransportTypeOK
<1>6. told[next] = "nothing" /\ next \notin accepted
    BY <1>4 DEF Known, FreshOK
<1>7. /\ \A r \in Ids : r # next => told'[r] = told[r]
      /\ told'[next] = IF a = "failed" THEN "lost" ELSE "nothing"
    BY <1>1, <1>4, <1>5, <1>6 DEF Tell
<1>8. /\ pc' = "idle" /\ call'.mode = "none"
      /\ result' = [kind |-> IF a = "failed" THEN "lost" ELSE "retained", rec |-> next]
    BY <1>1 DEF Returns, NoCall
<1>9. CallOK'
    BY <1>8 DEF CallOK, InRecord, Busy
<1>10. FreshOK'
    BY <1>2, <1>4, <1>7 DEF Known, FreshOK
<1>11. DoubtOK'
    BY <1>2, <1>5, <1>6, <1>7 DEF Known, DoubtOK
<1>12. RecoveryInStep'
    BY <1>8 DEF RecoveryInStep
<1>13. ResultTrue'
    BY <1>2, <1>3, <1>8 DEF ResultTrue, InLog
<1>14. ToldTruth'
    <2>1. \A r \in 1 .. next' - 1 : r \in 1 .. next - 1 \/ r = next
        BY <1>2, <1>4
    <2> QED
        BY <1>2, <1>3, <1>4, <1>6, <1>7, <2>1 DEF Known, ToldTruth, InLog
<1> QED
    BY <1>3, <1>9, <1>10, <1>11, <1>12, <1>13, <1>14 DEF Known

\* Steps that change no record, and tell nothing, keep most of it.
LEMMA KnownSame ==
    ASSUME TransportTypeOK, Known, log' \in Seq(Entries), SameRecords,
           UNCHANGED <<enabled, next, told>>
    PROVE  /\ LogIds' = LogIds /\ Held' = Held
           /\ LogOK'
           /\ accepted' = accepted /\ refused' = refused => ToldTruth'
           /\ accepted' = accepted /\ (\A r \in Ids : owed[r] = 0 => owed'[r] = 0) => FreshOK'
           /\ next \in Int
<1>1. next \in Int
    BY NumberFacts DEF Known
<1>2. LogIds' = LogIds /\ Held' = Held /\ LogOK'
    BY <1>1, SameFacts DEF Known
<1>3. ASSUME accepted' = accepted, refused' = refused PROVE ToldTruth'
    BY <1>2, <1>3 DEF Known, ToldTruth, InLog
<1>4. ASSUME accepted' = accepted, \A r \in Ids : owed[r] = 0 => owed'[r] = 0
      PROVE  FreshOK'
    BY <1>4 DEF Known, FreshOK
<1> QED
    BY <1>1, <1>2, <1>3, <1>4

\* The steps of a recovery keep what is known.
LEMMA KnownRecover ==
    ASSUME TransportTypeOK, Known,
           Recover \/ RecoverEnds \/ RecoverCancelled \/ ClampPause \/ Defer \/ Replay
    PROVE  Known'
<1>1. log' \in Seq(Entries) /\ SameRecords
    <2>1. CASE ClampPause
        <3>1. PICK a : log' = Paused(Oldest, MaxWait, a)
            BY <2>1 DEF ClampPause
        <3>2. MaxWait \in 0 .. Far
            BY TransportAssumption DEF TransportAssumption
        <3> QED
            BY <3>1, <3>2, SamePaused
    <2>2. CASE ~ClampPause
        BY <2>2, SameLog DEF Recover, RecoverEnds, RecoverCancelled, Defer, Replay
    <2> QED
        BY <2>1, <2>2
<1>2. UNCHANGED <<enabled, next, told, accepted, refused, owed, excuse, doubt>>
    BY DEF Recover, RecoverEnds, RecoverCancelled, ClampPause, Defer, Replay, Idle, Check,
           endpoint, books
<1>3. LogIds' = LogIds /\ Held' = Held /\ LogOK' /\ ToldTruth' /\ FreshOK' /\ next \in Int
    BY <1>1, <1>2, KnownSame
<1>4. pc \in {"idle", "check"}
    BY DEF Recover, RecoverEnds, RecoverCancelled, ClampPause, Defer, Replay, Idle, Check
<1>5. DoubtOK'
    BY <1>2, <1>4 DEF Known, DoubtOK
<1>6. CASE Recover
    <2>1. pc' = "check" /\ call' = [NoCall EXCEPT !.mode = "recover", !.todo = LogIds]
        BY <1>6 DEF Recover
    <2>2. call'.mode = "recover" /\ call'.rec = 0 /\ call'.todo = LogIds
        BY <2>1 DEF NoCall
    <2> QED
        BY <1>3, <1>5, <2>1, <2>2
           DEF Known, CallOK, RecoveryInStep, ResultTrue, Rec, InRecord, Busy
<1>7. CASE RecoverEnds \/ RecoverCancelled \/ ClampPause \/ Defer
    <2>1. PICK kind, r : kind \in {"recovered", "blocked", "deferred"} /\ Returns(kind, r)
        BY <1>7 DEF RecoverEnds, RecoverCancelled, ClampPause, Defer
    <2>2. RecoverEnds \/ result'.kind # "recovered"
        BY <1>7 DEF RecoverEnds, RecoverCancelled, ClampPause, Defer, Returns, NoCall
    <2>3. pc' = "idle" /\ call'.mode = "none" /\ result' = [kind |-> kind, rec |-> r]
        BY <2>1 DEF Returns, NoCall
    <2>4. RecoverEnds => log' = <<>>
        <3>1. RecoverEnds => log' = log /\ LogIds = <<>>
            BY DEF RecoverEnds, Check, Known, CallOK, RecoveryInStep
        <3> QED
            BY <3>1, LogIdsFacts DEF TransportTypeOK
    <2>5. ResultTrue'
        BY <2>1, <2>2, <2>3, <2>4 DEF ResultTrue
    <2>6. CallOK' /\ RecoveryInStep'
        BY <2>3 DEF CallOK, RecoveryInStep, InRecord, Busy
    <2> QED
        BY <1>3, <1>5, <2>5, <2>6 DEF Known
<1>8. CASE Replay
    <2>1. /\ pc' = "post" /\ call.todo # <<>> /\ call.mode = "recover" /\ pc = "check"
          /\ call' = [NoCall EXCEPT !.mode = "recover", !.rec = Oldest, !.todo = Tail(call.todo)]
        BY <1>8 DEF Replay, Left, Check, Known, CallOK
    <2>2. call'.mode = "recover" /\ call'.rec = Oldest /\ call'.todo = Tail(call.todo)
        BY <2>1 DEF NoCall
    <2>3. LogIds = call.todo /\ call.todo \in Seq(Ids)
        BY <2>1 DEF Known, RecoveryInStep, TransportTypeOK, CallRecords
    <2>4. call.todo = <<Oldest>> \o Tail(call.todo) /\ Oldest = call.todo[1] /\ Len(call.todo) > 0
        BY <2>1, <2>3, TailFacts DEF Oldest
    <2>5. Oldest \in Held
        <3>1. 1 \in 1 .. Len(log) /\ log[1].id = Oldest
            BY <2>3, <2>4, LogIdsFacts
        <3> QED
            BY <3>1 DEF Held
    <2>6. enabled
        <3>1. log # <<>>
            BY <2>5 DEF Held
        <3> QED
            BY <3>1 DEF Known, LogOK
    <2>7. Oldest \in 1 .. next - 1 /\ told[Oldest] = "nothing"
        BY <2>5, <2>6, NumberFacts DEF Known, ToldTruth, InLog
    <2>8. CallOK'
        BY <1>2, <1>3, <2>1, <2>2, <2>5, <2>6, <2>7 DEF CallOK, Rec, InLog, InRecord, Busy
    <2>9. RecoveryInStep'
        BY <1>3, <2>1, <2>2, <2>3, <2>4 DEF RecoveryInStep, Rec
    <2>10. ResultTrue'
        BY <2>1 DEF ResultTrue
    <2> QED
        BY <1>3, <1>5, <2>8, <2>9, <2>10 DEF Known
<1> QED
    BY <1>6, <1>7, <1>8

\* While a record is being sent its number is known and it is not dealt with.
LEMMA SendingFacts ==
    ASSUME TransportTypeOK, Known, pc \in InRecord
    PROVE  /\ Rec \in 1 .. next - 1 /\ Rec \in Ids /\ Rec < next /\ next \in Int
           /\ told[Rec] = "nothing"
           /\ enabled => Rec \in Held
           /\ call.mode = "recover" => enabled
           /\ call.mode \in {"send", "recover"}
<1>1. Rec \in 1 .. next - 1
    BY DEF Known, CallOK
<1>2. /\ Rec \in Ids /\ next \in Int
    BY <1>1, NumberFacts DEF Known
<1>3. call.mode # "none"
    BY DEF Known, CallOK, InRecord, Busy
<1>4. call.mode \in {"none", "send", "recover"}
    BY DEF TransportTypeOK, CallRecords
<1> QED
    BY <1>1, <1>2, <1>3, <1>4 DEF Known, CallOK, InLog

\* A post and its answer keep what is known.
LEMMA KnownPost ==
    ASSUME TransportTypeOK, Known, PostAccepted \/ PostRefused \/ PostFailed \/ PostThrottled
    PROVE  Known'
<1>1. /\ pc = "post" /\ pc \in InRecord
      /\ log' = log /\ UNCHANGED <<enabled, next, told, result>>
    BY DEF PostAccepted, PostRefused, PostFailed, PostThrottled, Posting, InRecord, Busy
<1>2. /\ Rec \in 1 .. next - 1 /\ Rec \in Ids /\ Rec < next /\ next \in Int
      /\ told[Rec] = "nothing"
      /\ enabled => Rec \in Held
      /\ call.mode = "recover" => enabled
    BY <1>1, SendingFacts
<1>3. call'.mode = call.mode /\ call'.rec = call.rec /\ call'.todo = call.todo
    BY DEF PostAccepted, PostRefused, PostFailed, PostThrottled, TransportTypeOK, CallRecords
<1>4. LogIds' = LogIds /\ Held' = Held /\ LogOK'
    BY <1>1, SameLog, KnownSame
<1>5. owed[Rec] \in 0 .. MaxWait /\ \A r \in Ids : r # Rec => owed'[r] = owed[r]
    BY <1>2 DEF PostAccepted, PostRefused, PostFailed, PostThrottled, Answered, TransportTypeOK
<1>6. /\ accepted \subseteq accepted' /\ accepted' \subseteq accepted \union {Rec}
      /\ refused \subseteq refused'
      /\ doubt \subseteq doubt'
      /\ pc' \in {"accepted", "refused", "retry"}
      /\ pc' = "refused" => Rec \in refused'
      /\ pc' = "accepted" => Rec \in accepted'
      /\ \A r \in accepted' : r \in accepted \/ (r = Rec /\ (r \in doubt' \/ pc' = "accepted"))
    <2>1. CASE PostAccepted
        BY <2>1 DEF PostAccepted, Any2xx
    <2>2. CASE PostRefused
        BY <2>2 DEF PostRefused
    <2>3. CASE PostFailed
        BY <2>3 DEF PostFailed
    <2>4. CASE PostThrottled
        BY <2>4 DEF PostThrottled, endpoint
    <2> QED
        BY <2>1, <2>2, <2>3, <2>4
<1>7. CallOK'
    <2>1. call.mode # "none"
        BY <1>1 DEF Known, CallOK
    <2> QED
        BY <1>1, <1>2, <1>3, <1>4, <1>6, <2>1 DEF CallOK, Rec, InLog, InRecord, Busy
<1>8. FreshOK'
    BY <1>1, <1>2, <1>5, <1>6, NumberFacts DEF Known, FreshOK
<1>9. DoubtOK'
    BY <1>1, <1>3, <1>6 DEF Known, DoubtOK, Rec
<1>10. RecoveryInStep'
    BY <1>1, <1>3, <1>4, <1>6 DEF Known, RecoveryInStep, Rec
<1>11. ResultTrue'
    BY <1>6 DEF ResultTrue
<1>12. ToldTruth'
    BY <1>1, <1>2, <1>4, <1>6 DEF Known, ToldTruth, InLog
<1> QED
    BY <1>4, <1>7, <1>8, <1>9, <1>10, <1>11, <1>12 DEF Known

\* Retrying and waiting keep what is known.
LEMMA KnownWait == ASSUME TransportTypeOK, Known, Retry \/ WaitOver PROVE Known'
<1>1. /\ pc \in {"retry", "wait"} /\ pc \in InRecord /\ pc' \in {"wait", "post"}
      /\ log' = log
      /\ UNCHANGED <<enabled, next, told, result, accepted, refused, owed, excuse, doubt>>
    BY DEF Retry, WaitOver, InRecord, Busy, endpoint, books
<1>2. call'.mode = call.mode /\ call'.rec = call.rec /\ call'.todo = call.todo
    BY DEF Retry, WaitOver, TransportTypeOK, CallRecords
<1>3. LogIds' = LogIds /\ Held' = Held /\ LogOK' /\ FreshOK' /\ ToldTruth'
    BY <1>1, SameLog, KnownSame
<1>4. CallOK'
    BY <1>1, <1>2, <1>3 DEF Known, CallOK, Rec, InLog, InRecord, Busy
<1>5. DoubtOK' /\ RecoveryInStep' /\ ResultTrue'
    BY <1>1, <1>2, <1>3 DEF Known, DoubtOK, RecoveryInStep, ResultTrue, Rec
<1> QED
    BY <1>3, <1>4, <1>5 DEF Known

\* So does a call that fails: the record stays in the log, if there is one.
LEMMA KnownFails ==
    ASSUME TransportTypeOK, Known, WaitCancelled \/ Exhausted
    PROVE  Known'
<1>1. pc \in InRecord /\ pc # "accepted" /\ Fails
    BY DEF WaitCancelled, Exhausted, InRecord, Busy
<1>2. log' \in Seq(Entries) /\ SameRecords
    <2>1. CASE WaitCancelled
        BY <2>1, SameLog DEF WaitCancelled
    <2>2. CASE Exhausted
        <3>1. PICK a : log' = Paused(Rec, PauseLeft, a)
            BY <2>2 DEF Exhausted
        <3> QED
            BY <3>1, PauseLeftTypes, SamePaused
    <2> QED
        BY <2>1, <2>2
<1>3. /\ UNCHANGED <<enabled, next, accepted, refused, owed, doubt>>
      /\ told' = IF Failure = "lost" THEN [told EXCEPT ![Rec] = "lost"] ELSE told
      /\ pc' = "idle" /\ call'.mode = "none" /\ result' = [kind |-> Failure, rec |-> Rec]
    BY <1>1 DEF Fails, Tell, Returns, NoCall, endpoint
<1>4. /\ Rec \in 1 .. next - 1 /\ Rec \in Ids /\ Rec < next /\ next \in Int
      /\ told[Rec] = "nothing"
      /\ enabled => Rec \in Held
      /\ call.mode = "recover" => enabled
    BY <1>1, SendingFacts
<1>5. Held' = Held /\ LogOK'
    BY <1>2, <1>3, <1>4, SameFacts DEF Known
<1>6. /\ Failure = "lost" => ~enabled /\ ~enabled'
      /\ Failure = "retained" => enabled
      /\ Failure \in {"blocked", "retained", "lost"}
    BY <1>3, <1>4 DEF Failure
<1>7. \A r \in Ids : told'[r] = told[r] \/ (r = Rec /\ told'[r] = "lost" /\ ~enabled)
    BY <1>3, <1>6 DEF TransportTypeOK
<1>8. CallOK' /\ RecoveryInStep'
    BY <1>3 DEF CallOK, RecoveryInStep, InRecord, Busy
<1>9. FreshOK'
    BY <1>3, <1>4, <1>7, NumberFacts DEF Known, FreshOK
<1>10. DoubtOK'
    <2>1. accepted \subseteq Ids
        BY DEF TransportTypeOK
    <2> QED
        BY <1>1, <1>3, <1>7, <2>1 DEF Known, DoubtOK
<1>11. ResultTrue'
    <2>1. ~enabled => Held = {}
        BY DEF Known, LogOK, Held
    <2> QED
        BY <1>3, <1>4, <1>5, <1>6, <2>1 DEF ResultTrue, InLog
<1>12. ToldTruth'
    <2>1. \A r \in 1 .. next - 1 : r \in Ids
        BY NumberFacts DEF Known
    <2> QED
        BY <1>3, <1>5, <1>7, <2>1 DEF Known, ToldTruth, InLog
<1> QED
    BY <1>5, <1>8, <1>9, <1>10, <1>11, <1>12 DEF Known

\* An acknowledgement keeps what is known: the batcher is told what is true, as the
\* record leaves the log.
LEMMA KnownAck ==
    ASSUME TransportTypeOK, Known, AckAccepted \/ AckRefused
    PROVE  Known'
<1>1. /\ pc \in {"accepted", "refused"} /\ pc \in InRecord
      /\ UNCHANGED <<enabled, next, accepted, refused, owed, excuse>>
    BY DEF AckAccepted, AckRefused, Resolving, InRecord, Busy, endpoint
<1>2. /\ Rec \in 1 .. next - 1 /\ Rec \in Ids /\ Rec < next /\ next \in Int
      /\ told[Rec] = "nothing"
      /\ enabled => Rec \in Held
      /\ call.mode = "recover" => enabled
      /\ call.mode \in {"send", "recover"}
    BY <1>1, SendingFacts
<1>3. PICK a \in {"ok", "warned", "failed"}, outcome \in {"delivered", "lost"} :
         /\ Acknowledged(a, outcome)
         /\ outcome = "delivered" => pc = "accepted"
         /\ outcome = "lost" => pc = "refused"
         /\ ~enabled => a = "ok"
    <2>1. CASE AckAccepted
        <3>1. PICK a \in StoreAnswers : Acknowledged(a, "delivered")
            BY <2>1 DEF AckAccepted, Acknowledged
        <3>2. a \in {"ok", "warned", "failed"} /\ (~enabled => a = "ok")
            BY DEF StoreAnswers
        <3>3. pc = "accepted"
            BY <2>1 DEF AckAccepted
        <3> QED
            BY <3>1, <3>2, <3>3
    <2>2. CASE AckRefused
        <3>1. PICK a \in StoreAnswers : Acknowledged(a, "lost")
            BY <2>2 DEF AckRefused, Acknowledged
        <3>2. a \in {"ok", "warned", "failed"} /\ (~enabled => a = "ok")
            BY DEF StoreAnswers
        <3>3. pc = "refused"
            BY <2>2 DEF AckRefused
        <3> QED
            BY <3>1, <3>2, <3>3
    <2> QED
        BY <2>1, <2>2
<1>4. Held' = (IF a = "failed" THEN Held ELSE Held \ {Rec}) /\ LogOK'
    BY <1>1, <1>3, RemovalFacts DEF Known, Acknowledged
<1>5. CASE a = "failed"
    <2>1. /\ Returns(Failure, Rec) /\ told' = told
          /\ doubt' = IF outcome = "delivered" THEN doubt \union {Rec} ELSE doubt
        BY <1>3, <1>5 DEF Acknowledged, Removed
    <2>2. /\ pc' = "idle" /\ call'.mode = "none" /\ result' = [kind |-> Failure, rec |-> Rec]
        BY <2>1 DEF Returns, NoCall
    <2>3. Failure \in {"retained", "blocked"} /\ Rec \in Held'
        BY <1>2, <1>3, <1>4, <1>5 DEF Failure
    <2>4. CallOK' /\ RecoveryInStep'
        BY <2>2 DEF CallOK, RecoveryInStep, InRecord, Busy
    <2>5. FreshOK' /\ ToldTruth'
        BY <1>1, <1>4, <1>5, <2>1 DEF Known, FreshOK, ToldTruth, InLog
    <2>6. DoubtOK'
        BY <1>1, <1>3, <2>1 DEF Known, DoubtOK
    <2>7. ResultTrue'
        BY <2>2, <2>3 DEF ResultTrue, InLog
    <2> QED
        BY <1>4, <2>4, <2>5, <2>6, <2>7 DEF Known
<1>6. CASE a # "failed"
    <2>1. /\ Tell(Rec, outcome) /\ doubt' = doubt
          /\ \/ Returns("blocked", Rec)
             \/ Proceeds(outcome)
        BY <1>3, <1>6 DEF Acknowledged, Removed
    <2>2. /\ told'[Rec] = outcome /\ \A r \in Ids : r # Rec => told'[r] = told[r]
        BY <1>2, <2>1 DEF Tell, TransportTypeOK
    <2>3. \/ /\ pc' = "idle" /\ call'.mode = "none"
             /\ \/ result' = [kind |-> "blocked", rec |-> Rec]
                \/ result' = [kind |-> outcome, rec |-> Rec]
          \/ /\ pc' = "check" /\ call'.mode = "recover" /\ call.mode = "recover"
             /\ call'.rec = 0 /\ call'.todo = call.todo
        <3>1. CASE Returns("blocked", Rec)
            BY <3>1 DEF Returns, NoCall
        <3>2. CASE Proceeds(outcome) /\ call.mode = "send"
            BY <3>2 DEF Proceeds, Returns, NoCall
        <3>3. CASE Proceeds(outcome) /\ call.mode # "send"
            BY <1>2, <3>3 DEF Proceeds, TransportTypeOK, CallRecords
        <3> QED
            BY <2>1, <3>1, <3>2, <3>3
    <2>4. Rec \notin Held' /\ Held' = Held \ {Rec}
        BY <1>4, <1>6
    <2>5. CallOK'
        BY <2>3 DEF CallOK, Rec, InRecord, Busy
    <2>6. FreshOK'
        BY <1>1, <1>2, <2>2, NumberFacts DEF Known, FreshOK
    <2>7. DoubtOK'
        <3>1. accepted \subseteq Ids
            BY DEF TransportTypeOK
        <3> QED
            BY <1>1, <2>1, <2>2, <3>1 DEF Known, DoubtOK
    <2>8. RecoveryInStep'
        <3>1. CASE call'.mode # "recover"
            BY <3>1 DEF RecoveryInStep
        <3>2. CASE call'.mode = "recover"
            <4>1. /\ pc' = "check" /\ call.mode = "recover" /\ call'.todo = call.todo
                BY <2>3, <3>2
            <4>2. log' = Unlogged(Rec, a)
                BY <1>3 DEF Acknowledged
            <4>3. LogIds' = call.todo
                BY <1>1, <1>2, <1>6, <4>1, <4>2, RemovalInStep DEF Known
            <4> QED
                BY <4>1, <4>3 DEF RecoveryInStep
        <3> QED
            BY <3>1, <3>2
    <2>9. ResultTrue'
        <3>1. outcome = "delivered" => Rec \in accepted'
            BY <1>1, <1>3 DEF Known, CallOK
        <3> QED
            BY <2>3, <2>4, <3>1 DEF ResultTrue, InLog
    <2>10. ToldTruth'
        <3>1. outcome = "delivered" => Rec \in accepted'
            BY <1>1, <1>3 DEF Known, CallOK
        <3>2. outcome = "lost" => Rec \in refused'
            BY <1>1, <1>3 DEF Known, CallOK
        <3>3. \A r \in 1 .. next - 1 : r \in Ids
            BY NumberFacts DEF Known
        <3>4. ASSUME NEW r \in 1 .. next - 1
              PROVE  /\ told'[r] = "delivered" => r \in accepted'
                     /\ enabled' /\ told'[r] = "lost" => r \in refused' \/ r \notin accepted'
                     /\ enabled' => (r \in Held' <=> told'[r] = "nothing")
            <4>1. CASE r = Rec
                BY <1>2, <2>2, <2>4, <3>1, <3>2, <4>1
            <4>2. CASE r # Rec
                BY <1>1, <2>2, <2>4, <3>3, <4>2 DEF Known, ToldTruth, InLog
            <4> QED
                BY <4>1, <4>2
        <3> QED
            BY <1>1, <3>4 DEF ToldTruth, InLog
    <2> QED
        BY <1>4, <2>5, <2>6, <2>7, <2>8, <2>9, <2>10 DEF Known
<1> QED
    BY <1>5, <1>6

\* Time, clocks and crashes keep what is known.
LEMMA KnownEnvironment ==
    ASSUME TransportTypeOK, Known, Cancel \/ Tick \/ ClockSet \/ Crash
    PROVE  Known'
<1>1. UNCHANGED <<enabled, next, told, accepted, refused>>
    BY DEF Cancel, Tick, ClockSet, Crash, endpoint
<1>2. log' \in Seq(Entries) /\ SameRecords
    <2>1. CASE Tick
        BY <2>1, TickedFacts DEF Tick, SameRecords
    <2>2. CASE ClockSet
        <3>1. PICK r \in Ids, pause \in 0 .. Far : log' = Paused(r, pause, "ok")
            BY <2>2 DEF ClockSet
        <3> QED
            BY <3>1, SamePaused
    <2>3. CASE Cancel \/ Crash
        BY <2>3, SameLog DEF Cancel, Crash
    <2> QED
        BY <2>1, <2>2, <2>3
<1>3. \A r \in Ids : owed[r] = 0 => owed'[r] = 0
    <2>1. CASE Tick
        BY <2>1 DEF Tick, Less
    <2>2. CASE ~Tick
        BY <2>2 DEF Cancel, ClockSet, Crash, books
    <2> QED
        BY <2>1, <2>2
<1>4. LogIds' = LogIds /\ Held' = Held /\ LogOK' /\ FreshOK' /\ ToldTruth'
    BY <1>1, <1>2, <1>3, KnownSame
<1>5. CASE Crash
    <2>1. pc' = "idle" /\ call'.mode = "none" /\ result'.kind = "none"
        BY <1>5 DEF Crash, NoCall, NoResult
    <2>2. CallOK' /\ RecoveryInStep' /\ ResultTrue'
        BY <2>1 DEF CallOK, RecoveryInStep, ResultTrue, InRecord, Busy
    <2>3. DoubtOK'
        BY <1>1, <1>5 DEF Known, DoubtOK, Crash
    <2> QED
        BY <1>4, <2>2, <2>3 DEF Known
<1>6. CASE Cancel \/ Tick \/ ClockSet
    <2>1. UNCHANGED <<pc, result, doubt>>
        BY <1>6 DEF Cancel, Tick, ClockSet, books
    <2>2. call'.mode = call.mode /\ call'.rec = call.rec /\ call'.todo = call.todo
        BY <1>6 DEF Cancel, Tick, ClockSet, TransportTypeOK, CallRecords
    <2>3. CallOK'
        BY <1>1, <1>4, <2>1, <2>2 DEF Known, CallOK, Rec, InLog
    <2>4. RecoveryInStep'
        BY <1>4, <2>1, <2>2 DEF Known, RecoveryInStep, Rec
    <2>5. DoubtOK'
        BY <1>1, <2>1, <2>2 DEF Known, DoubtOK, Rec
    <2>6. log = <<>> <=> log' = <<>>
        <3>1. log \in Seq(Entries) /\ Len(log') = Len(log)
            BY <1>2 DEF SameRecords, TransportTypeOK
        <3> QED
            BY <1>2, <3>1
    <2>7. ResultTrue'
        BY <1>1, <1>4, <2>1, <2>6 DEF Known, ResultTrue, InLog
    <2> QED
        BY <1>4, <2>3, <2>4, <2>5, <2>7 DEF Known
<1> QED
    BY <1>5, <1>6

\* Nothing is known at first.
LEMMA KnownInit == TransportInit => Known
<1> SUFFICES ASSUME TransportInit PROVE Known
    OBVIOUS
<1>1. log = <<>> /\ pc = "idle" /\ next = 1 /\ call.mode = "none" /\ result.kind = "none"
    BY DEF TransportInit, NoCall, NoResult
<1>2. LogOK /\ CallOK /\ RecoveryInStep /\ ResultTrue
    BY <1>1 DEF LogOK, CallOK, RecoveryInStep, ResultTrue, InRecord, Busy
<1>3. FreshOK /\ DoubtOK /\ ToldTruth
    BY <1>1 DEF TransportInit, FreshOK, DoubtOK, ToldTruth
<1> QED
    BY <1>2, <1>3 DEF Known

\* Every step keeps what is known.
LEMMA KnownStep ==
    ASSUME TransportTypeOK, Known, TransportNext
    PROVE  Known'
BY KnownSend, KnownPersist, KnownRecover, KnownPost, KnownWait, KnownFails, KnownAck,
   KnownEnvironment DEF TransportNext, Work

---------------------------------------------------------------------------
(* Pauses *)

\* Pauses and what the endpoint asked for are numbers.
LEMMA PauseNumbers ==
    ASSUME TransportTypeOK
    PROVE  /\ Len(log) \in Nat
           /\ \A i \in 1 .. Len(log) : log[i].id \in Ids /\ log[i].pause \in 0 .. Far
           /\ \A r \in Ids : owed[r] \in Int /\ owed[r] >= 0
<1>1. Len(log) \in Nat /\ \A i \in 1 .. Len(log) : log[i] \in Entries
    BY DEF TransportTypeOK
<1>2. \A e \in Entries : e.id \in Ids /\ e.pause \in 0 .. Far
    BY DEF Entries
<1>3. \A r \in Ids : owed[r] \in 0 .. MaxWait
    BY DEF TransportTypeOK
<1> QED
    BY <1>1, <1>2, <1>3, TransportAssumption DEF TransportAssumption

\* A record put into the log owes nothing.
LEMMA PausesPut ==
    ASSUME TransportTypeOK, Known, PausesOK, Send \/ Persist
    PROVE  PausesOK'
<1>1. /\ pc = "idle" /\ next <= MaxRecords /\ UNCHANGED <<enabled, owed, excuse>>
      /\ pc' \in {"idle", "post"} /\ (pc' = "post" => call'.rec = next)
    <2>1. CASE Send
        <3>1. PICK a \in StoreAnswers :
                 CASE a = "ok" -> pc' = "post" /\ AnyPost(next) /\ UNCHANGED <<result, told>>
                   [] a = "warned" -> Returns("retained", next) /\ UNCHANGED told
                   [] a = "failed" -> Returns("lost", next) /\ Tell(next, "lost")
            BY <2>1 DEF Send
        <3>2. a \in {"ok", "warned", "failed"}
            BY DEF StoreAnswers
        <3>3. AnyPost(next) => call'.rec = next
            BY DEF AnyPost, NoCall
        <3>4. (pc' = "post" /\ AnyPost(next)) \/ pc' = "idle"
            BY <3>1, <3>2 DEF Returns
        <3> QED
            BY <2>1, <3>3, <3>4 DEF Send, Idle, books
    <2>2. CASE Persist
        <3>1. pc' = "idle"
            BY <2>2 DEF Persist, Returns
        <3> QED
            BY <2>2, <3>1 DEF Persist, Idle, books
    <2> QED
        BY <2>1, <2>2
<1>2. PICK a : log' = Logged(next, a)
    BY DEF Send, Persist
<1>3. next \in Ids /\ owed[next] = 0
    BY <1>1, NextTypes DEF Known, FreshOK
<1>4. \A i \in 1 .. Len(log') :
         \/ i \in 1 .. Len(log) /\ log'[i] = log[i]
         \/ log'[i] = [id |-> next, pause |-> 0]
    <2>1. CASE ~enabled \/ a = "failed"
        BY <1>2, <1>3, <2>1, LoggedFacts, TransportAssumption
    <2>2. CASE enabled /\ a # "failed"
        <3>1. /\ Len(log') = Len(log) + 1
              /\ \A i \in 1 .. Len(log) : log'[i] = log[i]
              /\ log'[Len(log) + 1] = [id |-> next, pause |-> 0]
            BY <1>2, <1>3, <2>2, LoggedFacts, TransportAssumption
        <3>2. \A i \in 1 .. Len(log) + 1 : i \in 1 .. Len(log) \/ i = Len(log) + 1
            BY PauseNumbers
        <3> QED
            BY <3>1, <3>2
    <2> QED
        BY <2>1, <2>2
<1>5. \A i \in 1 .. Len(log) : Covered(log[i].id, log[i].pause)
    BY <1>1 DEF PausesOK, Current, InRecord, Busy
<1>6. \A i \in 1 .. Len(log') : Covered(log[i].id, log[i].pause)'
    BY <1>1, <1>3, <1>4, <1>5 DEF Covered
<1>7. pc' = "post" => Covered(Rec, 0)'
    BY <1>1, <1>3 DEF Covered, Rec
<1> QED
    BY <1>1, <1>6, <1>7 DEF PausesOK

\* A recovery does not begin to send before the pause is over, and a pause that it
\* corrects still covers what was asked for.
LEMMA PausesRecover ==
    ASSUME TransportTypeOK, Known, PausesOK,
           Recover \/ RecoverEnds \/ RecoverCancelled \/ ClampPause \/ Defer \/ Replay
    PROVE  PausesOK'
<1>1. pc \in {"idle", "check"} /\ UNCHANGED <<owed, excuse>>
    BY DEF Recover, RecoverEnds, RecoverCancelled, ClampPause, Defer, Replay, Idle, Check, books
<1>2. \A i \in 1 .. Len(log) : Covered(log[i].id, log[i].pause)
    BY <1>1 DEF PausesOK, Current, InRecord, Busy
<1>3. \A i \in 1 .. Len(log') : Covered(log[i].id, log[i].pause)'
    <2>1. CASE ClampPause
        <3>1. PICK a : log' = Paused(Oldest, MaxWait, a)
            BY <2>1 DEF ClampPause
        <3>2. MaxWait \in 0 .. Far /\ \A r \in Ids : owed[r] <= MaxWait
            BY TransportAssumption DEF TransportAssumption, TransportTypeOK
        <3>3. /\ Len(log') = Len(log)
              /\ \A i \in 1 .. Len(log) :
                    /\ log'[i].id = log[i].id
                    /\ log'[i].pause = MaxWait \/ log'[i].pause = log[i].pause
            BY <3>1, <3>2, PausedFacts
        <3> QED
            BY <1>1, <1>2, <3>2, <3>3, PauseNumbers DEF Covered
    <2>2. CASE ~ClampPause
        <3>1. log' = log
            BY <2>2 DEF Recover, RecoverEnds, RecoverCancelled, Defer, Replay
        <3> QED
            BY <1>1, <1>2, <3>1 DEF Covered
    <2> QED
        BY <2>1, <2>2
<1>4. CASE ~Replay
    <2>1. pc' \in {"idle", "check"}
        BY <1>4 DEF Recover, RecoverEnds, RecoverCancelled, ClampPause, Defer, Returns
    <2> QED
        BY <1>3, <2>1 DEF PausesOK
<1>5. CASE Replay
    <2>1. /\ pc = "check" /\ pc' = "post" /\ call.todo # <<>> /\ PauseOf(Oldest) = 0
          /\ call' = [NoCall EXCEPT !.mode = "recover", !.rec = Oldest, !.todo = Tail(call.todo)]
        BY <1>5 DEF Replay, Left, Check
    <2>2. call'.rec = Oldest
        BY <2>1 DEF NoCall
    <2>3. LogIds = call.todo /\ call.todo \in Seq(Ids)
        BY <2>1 DEF Known, CallOK, RecoveryInStep, TransportTypeOK, CallRecords
    <2>4. 1 \in 1 .. Len(log) /\ log[1].id = Oldest
        BY <2>1, <2>3, TailFacts, LogIdsFacts DEF Oldest
    <2>5. log[1].pause = 0
        BY <2>1, <2>4, PlaceUnique DEF Known
    <2>6. Covered(Oldest, 0)
        BY <1>2, <2>4, <2>5
    <2>7. Covered(Rec, 0)'
        BY <1>1, <2>2, <2>6 DEF Covered, Rec
    <2> QED
        BY <1>3, <2>1, <2>7 DEF PausesOK
<1> QED
    BY <1>4, <1>5

\* The answer says what is asked for now, and the next wait covers it.
LEMMA PausesPost ==
    ASSUME TransportTypeOK, Known, PausesOK,
           PostAccepted \/ PostRefused \/ PostFailed \/ PostThrottled
    PROVE  PausesOK'
<1>1. pc = "post" /\ pc \in InRecord /\ log' = log /\ pc' \in InRecord
    BY DEF PostAccepted, PostRefused, PostFailed, PostThrottled, Posting, InRecord, Busy, Any2xx
<1>2. Rec \in Ids
    BY <1>1, SendingFacts
<1>3. call'.rec = call.rec
    BY DEF PostAccepted, PostRefused, PostFailed, PostThrottled, TransportTypeOK, CallRecords
<1>4. \A r \in Ids : r # Rec => owed'[r] = owed[r] /\ excuse'[r] = excuse[r]
    BY DEF PostAccepted, PostRefused, PostFailed, PostThrottled, Answered, TransportTypeOK
<1>5. \A i \in 1 .. Len(log') : Current(log[i].id)' \/ Covered(log[i].id, log[i].pause)'
    <2>1. SUFFICES ASSUME NEW i \in 1 .. Len(log), log[i].id # Rec
                   PROVE  Covered(log[i].id, log[i].pause)'
        BY <1>1, <1>3 DEF Current, Rec
    <2>2. Covered(log[i].id, log[i].pause) /\ log[i].id \in Ids
        BY <2>1, PauseNumbers DEF PausesOK, Current
    <2> QED
        BY <1>1, <1>4, <2>1, <2>2 DEF Covered
<1>6. MaxWait \in Nat
    BY TransportAssumption DEF TransportAssumption
<1>7. CASE PostAccepted \/ PostRefused \/ PostFailed
    <2>1. owed'[Rec] = 0
        BY <1>2, <1>6, <1>7
           DEF PostAccepted, PostRefused, PostFailed, Answered, Lesser, TransportTypeOK
    <2>2. PauseLeft' = PauseLeft /\ pc' # "post" /\ pc' # "wait"
        BY <1>7 DEF PostAccepted, PostRefused, PostFailed, PauseLeft, Any2xx
    <2>3. PauseLeft \in Int /\ PauseLeft >= 0
        BY <1>6, PauseLeftTypes
    <2>4. Covered(Rec, 0)' /\ Covered(Rec, PauseLeft)'
        BY <1>3, <2>1, <2>2, <2>3 DEF Covered, Rec
    <2> QED
        BY <1>5, <2>2, <2>4 DEF PausesOK
<1>8. CASE PostThrottled
    <2>1. PICK s \in Suggestions :
             call' = [call EXCEPT !.hint = BoundedRetryAfter(s)] /\ Answered(s)
        BY <1>8 DEF PostThrottled
    <2>2. s \in Nat /\ BoundedRetryAfter(s) = Lesser(s, MaxWait) /\ Lesser(s, MaxWait) \in Nat
        BY <1>6, TransportAssumption DEF TransportAssumption, BoundedRetryAfter, Lesser
    <2>3. call'.hint = Lesser(s, MaxWait)
        BY <2>1, <2>2 DEF TransportTypeOK, CallRecords
    <2>4. owed'[Rec] = Lesser(s, MaxWait)
        BY <1>2, <2>1 DEF Answered, TransportTypeOK
    <2>5. PauseLeft' = Lesser(s, MaxWait)
        BY <2>2, <2>3 DEF PauseLeft, NoHint
    <2>6. Covered(Rec, PauseLeft)'
        BY <1>3, <2>2, <2>4, <2>5 DEF Covered, Rec
    <2>7. pc' = "retry"
        BY <1>8 DEF PostThrottled
    <2> QED
        BY <1>5, <2>6, <2>7 DEF PausesOK
<1> QED
    BY <1>7, <1>8

\* The wait lasts as long as was asked for, and no post comes before its end.
LEMMA PausesWait ==
    ASSUME TransportTypeOK, Known, PausesOK, Retry \/ WaitOver
    PROVE  PausesOK'
<1>1. /\ pc \in InRecord /\ pc' \in InRecord /\ log' = log /\ UNCHANGED <<owed, excuse>>
    BY DEF Retry, WaitOver, InRecord, Busy, books
<1>2. Rec \in Ids
    BY <1>1, SendingFacts
<1>3. call'.rec = call.rec
    BY DEF Retry, WaitOver, TransportTypeOK, CallRecords
<1>4. \A i \in 1 .. Len(log') : Current(log[i].id)' \/ Covered(log[i].id, log[i].pause)'
    BY <1>1, <1>3 DEF PausesOK, Current, Covered, Rec
<1>5. CASE Retry
    <2>1. PICK d \in Delays :
             call' = [call EXCEPT !.attempt = NextAttempt, !.hint = NoHint, !.wait = d]
        BY <1>5 DEF Retry
    <2>2. call'.wait = d /\ d \in 0 .. LongestDelay
        BY <2>1, DelaysType DEF TransportTypeOK, CallRecords
    <2>3. PauseLeft <= d
        <3>1. CASE call.hint = NoHint
            BY <2>2, <3>1, LongestFacts DEF PauseLeft
        <3>2. CASE call.hint # NoHint
            <4>1. d = call.hint /\ PauseLeft = call.hint
                BY <2>1, <3>2 DEF Delays, PauseLeft
            <4> QED
                BY <2>2, <4>1, LongestFacts
        <3> QED
            BY <3>1, <3>2
    <2>4. Covered(Rec, PauseLeft) /\ owed[Rec] \in Int /\ PauseLeft \in Int /\ d \in Int
        <3>1. Covered(Rec, PauseLeft)
            BY <1>5 DEF PausesOK, Retry
        <3>2. owed[Rec] \in Int
            BY <1>2, PauseNumbers
        <3>3. PauseLeft \in Int
            BY PauseLeftTypes, TransportAssumption DEF TransportAssumption
        <3>4. d \in Int
            BY <2>2, LongestFacts
        <3> QED
            BY <3>1, <3>2, <3>3, <3>4
    <2>5. Covered(Rec, call.wait)'
        BY <1>1, <1>3, <2>2, <2>3, <2>4 DEF Covered, Rec
    <2>6. pc' = "wait"
        BY <1>5 DEF Retry
    <2> QED
        BY <1>4, <2>5, <2>6 DEF PausesOK
<1>6. CASE WaitOver
    <2>1. pc' = "post" /\ Covered(Rec, 0)
        BY <1>6 DEF WaitOver, PausesOK
    <2>2. Covered(Rec, 0)'
        BY <1>1, <1>3, <2>1 DEF Covered, Rec
    <2> QED
        BY <1>4, <2>1, <2>2 DEF PausesOK
<1> QED
    BY <1>5, <1>6

\* A call that gives up leaves a pause that covers what was asked for, unless it
\* was cancelled or the pause could not be stored.
LEMMA PausesFails ==
    ASSUME TransportTypeOK, Known, PausesOK, WaitCancelled \/ Exhausted
    PROVE  PausesOK'
<1>1. pc \in InRecord /\ pc' = "idle" /\ owed' = owed
    BY DEF WaitCancelled, Exhausted, Fails, Returns, InRecord, Busy
<1>2. Rec \in Ids
    BY <1>1, SendingFacts
<1>3. ASSUME NEW i \in 1 .. Len(log)
      PROVE  i \in 1 .. Len(log') /\ log'[i].id = log[i].id
                => Covered(log[i].id, log[i].pause)'
    <2>1. SUFFICES ASSUME log'[i].id = log[i].id
                   PROVE  Covered(log[i].id, log[i].pause)'
        OBVIOUS
    <2>2. CASE WaitCancelled
        <3>1. log' = log /\ excuse' = [excuse EXCEPT ![Rec] = "cancelled"]
            BY <2>2 DEF WaitCancelled
        <3>2. excuse'[Rec] = "cancelled" /\ \A r \in Ids : r # Rec => excuse'[r] = excuse[r]
            BY <1>2, <3>1 DEF TransportTypeOK
        <3>3. CASE log[i].id = Rec
            BY <3>1, <3>2, <3>3 DEF Covered
        <3>4. CASE log[i].id # Rec
            <4>1. Covered(log[i].id, log[i].pause) /\ log[i].id \in Ids
                BY <3>4, PauseNumbers DEF PausesOK, Current
            <4> QED
                BY <1>1, <3>1, <3>2, <3>4, <4>1 DEF Covered
        <3> QED
            BY <3>3, <3>4
    <2>3. CASE Exhausted
        <3>1. PICK a : /\ log' = Paused(Rec, PauseLeft, a)
                       /\ excuse' = IF a = "failed" THEN [excuse EXCEPT ![Rec] = "unstored"]
                                    ELSE excuse
            BY <2>3 DEF Exhausted
        <3>2. log'[i].pause = IF a # "failed" /\ log[i].id = Rec THEN PauseLeft ELSE log[i].pause
            BY <3>1, PausedFacts, PauseLeftTypes
        <3>3. Covered(Rec, PauseLeft)
            BY <2>3 DEF Exhausted, PausesOK
        <3>4. \A r \in Ids : r # Rec => excuse'[r] = excuse[r]
            BY <1>2, <3>1 DEF TransportTypeOK
        <3>5. CASE log[i].id # Rec
            <4>1. Covered(log[i].id, log[i].pause) /\ log[i].id \in Ids
                BY <3>5, PauseNumbers DEF PausesOK, Current
            <4> QED
                BY <1>1, <2>1, <3>2, <3>4, <3>5, <4>1 DEF Covered
        <3>6. CASE log[i].id = Rec /\ a = "failed"
            <4>1. excuse'[Rec] = "unstored"
                BY <1>2, <3>1, <3>6 DEF TransportTypeOK
            <4> QED
                BY <2>1, <3>6, <4>1 DEF Covered
        <3>7. CASE log[i].id = Rec /\ a # "failed"
            BY <1>1, <2>1, <3>1, <3>2, <3>3, <3>7 DEF Covered
        <3> QED
            BY <3>5, <3>6, <3>7
    <2> QED
        BY <2>2, <2>3
<1>4. Len(log') = Len(log) /\ \A i \in 1 .. Len(log) : log'[i].id = log[i].id
    <2>1. CASE WaitCancelled
        BY <2>1 DEF WaitCancelled
    <2>2. CASE Exhausted
        <3>1. PICK a : log' = Paused(Rec, PauseLeft, a)
            BY <2>2 DEF Exhausted
        <3> QED
            BY <3>1, PausedFacts, PauseLeftTypes
    <2> QED
        BY <2>1, <2>2
<1>5. \A i \in 1 .. Len(log') : Covered(log[i].id, log[i].pause)'
    BY <1>3, <1>4
<1> QED
    BY <1>1, <1>5 DEF PausesOK

\* After a final answer the endpoint asks for nothing.
LEMMA PausesAck ==
    ASSUME TransportTypeOK, Known, PausesOK, AckAccepted \/ AckRefused
    PROVE  PausesOK'
<1>1. /\ pc \in InRecord /\ Covered(Rec, 0) /\ pc' \in {"idle", "check"}
      /\ UNCHANGED <<owed, excuse, enabled, next>>
    <2>1. PICK a \in {"ok", "warned", "failed"}, outcome \in {"delivered", "lost"} :
             Acknowledged(a, outcome)
        BY AckFacts
    <2>2. pc' \in {"idle", "check"}
        BY <2>1 DEF Acknowledged, Returns, Proceeds
    <2> QED
        BY <2>2 DEF AckAccepted, AckRefused, Resolving, PausesOK, InRecord, Busy
<1>2. PICK a : log' = Unlogged(Rec, a)
    BY DEF AckAccepted, AckRefused
<1>3. \A k \in 1 .. Len(log') : \E i \in 1 .. Len(log) : log'[k] = log[i]
    BY <1>1, <1>2, RemovalFacts DEF Known
<1>4. \A i \in 1 .. Len(log) : Covered(log[i].id, log[i].pause)
    <2>1. SUFFICES ASSUME NEW i \in 1 .. Len(log), log[i].id = Rec
                   PROVE  Covered(log[i].id, log[i].pause)
        BY DEF PausesOK, Current
    <2>2. /\ owed[Rec] \in Int /\ log[i].pause \in Int /\ log[i].pause >= 0
        BY <2>1, PauseNumbers, TransportAssumption DEF TransportAssumption
    <2> QED
        BY <1>1, <2>1, <2>2 DEF Covered
<1>5. ASSUME NEW k \in 1 .. Len(log') PROVE Covered(log[k].id, log[k].pause)'
    <2>1. PICK i \in 1 .. Len(log) : log'[k] = log[i]
        BY <1>3
    <2> QED
        BY <1>1, <1>4, <2>1 DEF Covered
<1> QED
    BY <1>1, <1>5 DEF PausesOK

\* Time passes for what is asked for and for what covers it alike; a clock that is
\* set and a crash are excuses.
LEMMA PausesEnvironment ==
    ASSUME TransportTypeOK, Known, PausesOK, Cancel \/ Tick \/ ClockSet \/ Crash
    PROVE  PausesOK'
<1>1. CASE Cancel
    <2>1. UNCHANGED <<log, pc, call, owed, excuse>>
        BY <1>1 DEF Cancel, books
    <2> QED
        BY <2>1 DEF PausesOK, Current, Covered, Rec, PauseLeft
<1>2. CASE Tick
    <2>1. /\ pc' = pc /\ excuse' = excuse
          /\ call'.rec = call.rec /\ call'.hint = call.hint /\ call'.wait = Less(call.wait)
        BY <1>2 DEF Tick, TransportTypeOK, CallRecords
    <2>2. \A r \in Ids : owed'[r] = Less(owed[r])
        BY <1>2 DEF Tick
    <2>3. /\ Len(log') = Len(log)
          /\ \A i \in 1 .. Len(log) :
                log'[i].id = log[i].id /\ log'[i].pause = Less(log[i].pause)
        BY <1>2, TickedFacts DEF Tick
    <2>4. \A x, y \in Int : x >= 0 /\ x <= y => Less(x) <= Less(y) /\ Less(x) <= y
        BY DEF Less
    <2>5. \A r \in Ids : owed[r] \in Int /\ owed[r] >= 0
        BY PauseNumbers
    <2>6. \A i \in 1 .. Len(log') : Current(log[i].id)' \/ Covered(log[i].id, log[i].pause)'
        <3>1. SUFFICES ASSUME NEW i \in 1 .. Len(log), ~Current(log[i].id)
                       PROVE  Covered(log[i].id, log[i].pause)'
            BY <2>1, <2>3 DEF Current, Rec
        <3>2. Covered(log[i].id, log[i].pause) /\ log[i].id \in Ids /\ log[i].pause \in Int
            BY <3>1, PauseNumbers, TransportAssumption DEF PausesOK, TransportAssumption
        <3> QED
            BY <2>1, <2>2, <2>3, <2>4, <2>5, <3>2 DEF Covered
    <2>7. pc \in InRecord => Rec \in Ids
        BY SendingFacts
    <2>8. /\ pc' \in {"post", "accepted", "refused"} => Covered(Rec, 0)'
          /\ pc' = "retry" => Covered(Rec, PauseLeft)'
          /\ pc' = "wait" => Covered(Rec, call.wait)'
        <3>1. PauseLeft \in Int /\ call.wait \in Int /\ PauseLeft' = PauseLeft
            BY <2>1, PauseLeftTypes, LongestFacts, TransportAssumption
               DEF TransportTypeOK, CallRecords, PauseLeft, TransportAssumption
        <3>2. ASSUME NEW time \in Int, Rec \in Ids, Covered(Rec, time)
              PROVE  /\ owed'[Rec] <= time \/ excuse'[Rec] # "none"
                     /\ owed'[Rec] <= Less(time) \/ excuse'[Rec] # "none"
            BY <2>1, <2>2, <2>4, <2>5, <3>2 DEF Covered
        <3>3. Rec' = Rec
            BY <2>1 DEF Rec
        <3>4. CASE pc \in {"post", "accepted", "refused"}
            <4>1. Covered(Rec, 0) /\ Rec \in Ids
                BY <2>7, <3>4 DEF PausesOK, InRecord, Busy
            <4>2. Covered(Rec, 0)'
                BY <3>2, <3>3, <4>1 DEF Covered
            <4> QED
                BY <2>1, <3>4, <4>2
        <3>5. CASE pc = "retry"
            <4>1. Covered(Rec, PauseLeft) /\ Rec \in Ids
                BY <2>7, <3>5 DEF PausesOK, InRecord, Busy
            <4>2. Covered(Rec, PauseLeft)'
                BY <3>1, <3>2, <3>3, <4>1 DEF Covered
            <4> QED
                BY <2>1, <3>5, <4>2
        <3>6. CASE pc = "wait"
            <4>1. Covered(Rec, call.wait) /\ Rec \in Ids
                BY <2>7, <3>6 DEF PausesOK, InRecord, Busy
            <4>2. Covered(Rec, call.wait)'
                BY <2>1, <3>1, <3>2, <3>3, <4>1 DEF Covered
            <4> QED
                BY <2>1, <3>6, <4>2
        <3> QED
            BY <2>1, <3>4, <3>5, <3>6
    <2> QED
        BY <2>6, <2>8 DEF PausesOK
<1>3. CASE ClockSet
    <2>1. PICK r \in {s \in Ids : InLog(s) /\ PauseOf(s) > 0}, pause \in 0 .. Far :
             log' = Paused(r, pause, "ok")
        BY <1>3 DEF ClockSet
    <2>2. UNCHANGED <<pc, call, owed>>
        BY <1>3 DEF ClockSet
    <2>3. \A s \in Ids : excuse[s] # "none" => excuse'[s] # "none"
        BY <1>3 DEF ClockSet, Excused
    <2>4. owed[r] > 0 => excuse'[r] = "clock"
        BY <1>3, <2>1 DEF ClockSet, Excused
    <2>5. /\ Len(log') = Len(log)
          /\ \A i \in 1 .. Len(log) :
                /\ log'[i].id = log[i].id
                /\ log'[i].pause = IF log[i].id = r THEN pause ELSE log[i].pause
        BY <2>1, PausedFacts
    <2>6. \A i \in 1 .. Len(log') : Current(log[i].id)' \/ Covered(log[i].id, log[i].pause)'
        <3>1. SUFFICES ASSUME NEW i \in 1 .. Len(log), ~Current(log[i].id)
                       PROVE  Covered(log[i].id, log[i].pause)'
            BY <2>2, <2>5 DEF Current, Rec
        <3>2. Covered(log[i].id, log[i].pause) /\ log[i].id \in Ids
            BY <3>1, PauseNumbers DEF PausesOK
        <3>3. CASE log[i].id = r
            <4>1. owed[r] \in Int /\ pause \in Int /\ pause >= 0
                BY <2>1, PauseNumbers, TransportAssumption DEF TransportAssumption
            <4>2. owed'[r] <= pause \/ excuse'[r] # "none"
                BY <2>2, <2>4, <4>1
            <4> QED
                BY <2>5, <3>3, <4>2 DEF Covered
        <3>4. CASE log[i].id # r
            BY <2>2, <2>3, <2>5, <3>2, <3>4 DEF Covered
        <3> QED
            BY <3>3, <3>4
    <2>7. pc \in InRecord => Rec \in Ids
        BY SendingFacts
    <2>8. /\ pc' \in {"post", "accepted", "refused"} => Covered(Rec, 0)'
          /\ pc' = "retry" => Covered(Rec, PauseLeft)'
          /\ pc' = "wait" => Covered(Rec, call.wait)'
        BY <2>2, <2>3, <2>7 DEF PausesOK, Covered, Rec, PauseLeft, InRecord, Busy
    <2> QED
        BY <2>6, <2>8 DEF PausesOK
<1>4. CASE Crash
    <2>1. pc' = "idle" /\ log' = log /\ owed' = owed /\ excuse' = Excused({Rec}, "crash")
        BY <1>4 DEF Crash
    <2>2. \A s \in Ids : /\ excuse[s] # "none" => excuse'[s] # "none"
                         /\ s = Rec /\ owed[s] > 0 => excuse'[s] # "none"
        BY <2>1 DEF Excused
    <2>3. ASSUME NEW i \in 1 .. Len(log) PROVE Covered(log[i].id, log[i].pause)'
        <3>1. /\ log[i].id \in Ids /\ log[i].pause \in Int /\ log[i].pause >= 0
              /\ owed[log[i].id] \in Int
            BY PauseNumbers, TransportAssumption DEF TransportAssumption
        <3>2. CASE log[i].id = Rec
            <4>1. owed[log[i].id] <= log[i].pause \/ excuse'[log[i].id] # "none"
                BY <2>2, <3>1, <3>2
            <4> QED
                BY <2>1, <4>1 DEF Covered
        <3>3. CASE log[i].id # Rec
            BY <2>1, <2>2, <3>1, <3>3 DEF PausesOK, Current, Covered
        <3> QED
            BY <3>2, <3>3
    <2> QED
        BY <2>1, <2>3 DEF PausesOK
<1> QED
    BY <1>1, <1>2, <1>3, <1>4

\* Every step keeps the pauses.
LEMMA PausesStep ==
    ASSUME TransportTypeOK, Known, PausesOK, TransportNext
    PROVE  PausesOK'
BY PausesPut, PausesRecover, PausesPost, PausesWait, PausesFails, PausesAck,
   PausesEnvironment DEF TransportNext, Work

---------------------------------------------------------------------------
(* The theorems *)

\* The invariant holds initially.
LEMMA InvInit == TransportInit => TransportInv
<1>1. TransportInit => PausesOK
    BY DEF TransportInit, PausesOK
<1> QED
    BY <1>1, TypeInit, KnownInit DEF TransportInv, Known

\* Every step keeps it.
LEMMA InvStep == TransportInv /\ [TransportNext]_transportVars => TransportInv'
<1>1. ASSUME TransportInv, TransportNext PROVE TransportInv'
    BY <1>1, TypeStep, KnownStep, PausesStep DEF TransportInv, Known
<1>2. ASSUME TransportInv, UNCHANGED transportVars PROVE TransportInv'
    <2>1. UNCHANGED <<enabled, log, pc, call, ctxDone, result, next, accepted, refused,
                      told, owed, excuse, doubt>>
        BY <1>2 DEF transportVars, endpoint, books
    <2>2. TransportTypeOK'
        BY <1>2, <2>1 DEF TransportInv, TransportTypeOK
    <2>3. Held' = Held /\ LogIds' = LogIds /\ Rec' = Rec /\ PauseLeft' = PauseLeft
        BY <2>1 DEF Held, LogIds, Rec, PauseLeft
    <2>4. LogOK' /\ CallOK' /\ FreshOK' /\ DoubtOK'
        BY <1>2, <2>1, <2>3 DEF TransportInv, LogOK, CallOK, FreshOK, DoubtOK, InLog
    <2>5. RecoveryInStep' /\ ResultTrue' /\ ToldTruth'
        BY <1>2, <2>1, <2>3 DEF TransportInv, RecoveryInStep, ResultTrue, ToldTruth, InLog
    <2>6. PausesOK'
        BY <1>2, <2>1, <2>3 DEF TransportInv, PausesOK, Current, Covered
    <2> QED
        BY <2>2, <2>4, <2>5, <2>6 DEF TransportInv
<1> QED
    BY <1>1, <1>2

\* The call, the log, the pauses and what the batcher was told keep together in
\* every behaviour (transport.go:48-265).
THEOREM TransportInvariance == TransportSpec => []TransportInv
<1> QED
    BY InvInit, InvStep, PTL DEF TransportSpec

\* Every variable keeps its type: waits, attempts and pauses are bounded, whatever
\* the endpoint suggests (transport.go:203-215, 252-260).
THEOREM TransportTypeCorrect == TransportSpec => []TransportTypeOK
<1>1. TransportInv => TransportTypeOK
    BY DEF TransportInv
<1> QED
    BY <1>1, TransportInvariance, PTL

\* Recovery and the log keep step: the oldest record is posted, none is skipped
\* (transport.go:152-201).
THEOREM StepCorrect == TransportSpec => []RecoveryInStep
<1>1. TransportInv => RecoveryInStep
    BY DEF TransportInv
<1> QED
    BY <1>1, TransportInvariance, PTL

\* What send and recover return is true of the log (transport.go:48-85, 97-108).
THEOREM ResultCorrect == TransportSpec => []ResultTrue
<1>1. TransportInv => ResultTrue
    BY DEF TransportInv
<1> QED
    BY <1>1, TransportInvariance, PTL

\* Every record is in the log or the batcher was told the truth about it
\* (transport.go:226-254).
THEOREM TruthCorrect == TransportSpec => []ToldTruth
<1>1. TransportInv => ToldTruth
    BY DEF TransportInv
<1> QED
    BY <1>1, TransportInvariance, PTL

\* An accepted record is posted again only if the SDK may not know that it was
\* accepted (transport.go:226-237).
THEOREM RepeatCorrect == TransportSpec => []RepeatOnlyInDoubt
<1>1. TransportInv => RepeatOnlyInDoubt
    <2>1. TransportInv /\ pc = "post" => told[Rec] = "nothing"
        BY DEF TransportInv, CallOK, InRecord, Busy
    <2> QED
        BY <2>1 DEF TransportInv, DoubtOK, RepeatOnlyInDoubt
<1> QED
    BY <1>1, TransportInvariance, PTL

\* No record is posted before its Retry-After is over, but for the excuses that
\* PauseHonoured lists (transport.go:159-174, 209-224, 244-249).
THEOREM PauseCorrect == TransportSpec => []PauseHonoured
<1>1. TransportInv => PauseHonoured
    <2>1. TransportInv /\ pc = "post" => Rec \in Ids
        BY SendingFacts DEF TransportInv, Known, InRecord, Busy
    <2>2. TransportInv => \A r \in Ids : owed[r] \in Int /\ owed[r] >= 0
        BY PauseNumbers DEF TransportInv
    <2>3. TransportInv /\ pc = "post" => Covered(Rec, 0)
        BY DEF TransportInv, PausesOK
    <2> QED
        BY <2>1, <2>2, <2>3 DEF PauseHonoured, Covered
<1> QED
    BY <1>1, TransportInvariance, PTL

\* A deferred record has a pause of at most MaxWait, whatever clock wrote it
\* (transport.go:158-174).
THEOREM DeferralCorrect == TransportSpec => DeferralBounded
<1> DEFINE Bounded == pc = "check" /\ result' # result /\ result'.kind = "deferred"
                         => log'[1].pause \in 1 .. MaxWait
<1>1. TransportInv /\ [TransportNext]_transportVars => [Bounded]_transportVars
    <2>1. SUFFICES ASSUME TransportInv, TransportNext, pc = "check", result' # result,
                          result'.kind = "deferred"
                   PROVE  log'[1].pause \in 1 .. MaxWait
        OBVIOUS
    <2>2. ClampPause \/ Defer
        <3>1. RecoverEnds \/ RecoverCancelled \/ ClampPause \/ Defer
            BY <2>1 DEF TransportNext, Work, Send, Persist, Recover, Idle, RecoverEnds,
                        RecoverCancelled, Replay, PostAccepted, PostRefused, PostFailed,
                        PostThrottled, Posting, Retry, WaitOver, WaitCancelled, Exhausted,
                        AckAccepted, AckRefused, Cancel, Tick, ClockSet, Crash, NoResult
        <3>2. ~RecoverEnds /\ ~RecoverCancelled
            BY <2>1 DEF RecoverEnds, RecoverCancelled, Returns
        <3> QED
            BY <3>1, <3>2
    <2>3. call.todo # <<>> /\ call.todo \in Seq(Ids) /\ LogIds = call.todo
        BY <2>1, <2>2
           DEF ClampPause, Defer, Left, TransportInv, CallOK, RecoveryInStep, TransportTypeOK,
               CallRecords
    <2>4. 1 \in 1 .. Len(log) /\ log[1].id = Oldest
        BY <2>1, <2>3, TailFacts, LogIdsFacts DEF Oldest, TransportInv
    <2>5. PauseOf(Oldest) = log[1].pause /\ log[1].pause \in 0 .. Far
        BY <2>1, <2>4, PlaceUnique, PauseNumbers DEF TransportInv
    <2>6. MaxWait \in Nat /\ MaxWait >= 1 /\ MaxWait \in 0 .. Far /\ Far \in Nat
        BY TransportAssumption DEF TransportAssumption
    <2>7. CASE Defer
        <3>1. log' = log /\ PauseOf(Oldest) > 0 /\ PauseOf(Oldest) <= MaxWait
            BY <2>7 DEF Defer, Plausible
        <3> QED
            BY <2>5, <2>6, <3>1
    <2>8. CASE ClampPause
        <3>1. PICK a : /\ log' = Paused(Oldest, MaxWait, a)
                       /\ Returns(IF a = "ok" THEN "deferred" ELSE "blocked", Oldest)
            BY <2>8 DEF ClampPause
        <3>2. a = "ok"
            BY <2>1, <3>1 DEF Returns
        <3>3. log'[1].pause = MaxWait
            BY <2>1, <2>4, <2>6, <3>1, <3>2, PausedFacts DEF TransportInv
        <3> QED
            BY <2>6, <3>3
    <2> QED
        BY <2>2, <2>7, <2>8
<1> QED
    BY <1>1, TransportInvariance, PTL DEF TransportSpec, DeferralBounded

=============================================================================
