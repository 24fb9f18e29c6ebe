---------------------------- MODULE ClientProofs ----------------------------
(***************************************************************************)
(* Theorems about Client, for every set of goroutines, users and keys, and *)
(* for every number of calls.                                              *)
(***************************************************************************)
EXTENDS ClientProperties, TLAPS

---------------------------------------------------------------------------
(* Types *)

\* The history record keeps its type field by field.
LEMMA PastBuilt ==
    ASSUME NEW epoch \in Nat, NEW identified \in SUBSET (Nat \X Users),
           NEW published \in Seq(Values), NEW lapsed \in BOOLEAN, NEW revived \in BOOLEAN
    PROVE  [epoch |-> epoch, identified |-> identified, published |-> published,
            lapsed |-> lapsed, revived |-> revived] \in Past
BY DEF Past, Values

\* A history of its type is the record of its fields.
LEMMA PastFields ==
    ASSUME past \in Past
    PROVE  /\ past.epoch \in Nat /\ past.identified \in SUBSET (Nat \X Users)
           /\ past.published \in Seq(Values)
           /\ past.lapsed \in BOOLEAN /\ past.revived \in BOOLEAN
           /\ past = [epoch |-> past.epoch, identified |-> past.identified,
                      published |-> past.published, lapsed |-> past.lapsed,
                      revived |-> past.revived]
BY DEF Past, Values

\* The initial states have the types of ClientTypeOK.
LEMMA TypeInit == ClientInit => ClientTypeOK
<1> SUFFICES ASSUME ClientInit PROVE ClientTypeOK
    OBVIOUS
<1>1. globals \in Values
    BY DEF ClientInit, Values
<1>2. NoCall \in CallRecords
    BY DEF NoCall, NoSession, CallRecords, Pcs, Someone
<1>3. past \in Past
    <2>1. /\ <<globals>> \in Seq(Values) /\ {} \in SUBSET (Nat \X Users)
          /\ 0 \in Nat
        BY <1>1
    <2> QED
        BY <2>1, PastBuilt, Zenon DEF ClientInit
<1>4. session \in Session /\ made \in [session : Nat, anon : Nat]
    BY DEF ClientInit, Session, Someone
<1>5. call \in [Callers -> CallRecords] /\ sent \in Seq(Sent) /\ calls \in 0 .. MaxCalls
    BY <1>2, ClientAssumption DEF ClientInit
<1> QED
    BY <1>1, <1>3, <1>4, <1>5 DEF ClientInit, ClientTypeOK

\* A call that begins has the type of a call.
LEMMA BeginTypes ==
    ASSUME ClientTypeOK, NEW c \in Callers, NEW kind \in {"none", "track", "identify"},
           NEW who \in Someone, NEW pc \in Pcs,
           Begins(c, kind, who, pc) \/ Intrudes(c, kind, who, pc)
    PROVE  call' \in [Callers -> CallRecords] /\ calls' \in 0 .. MaxCalls
<1>1. past.epoch \in Nat
    BY DEF ClientTypeOK, Past
<1>2. calls \in Nat /\ calls < MaxCalls /\ calls' = calls + 1
    BY DEF Begins, Intrudes, ClientTypeOK
<1>3. [NoCall EXCEPT !.pc = pc, !.kind = kind, !.who = who, !.begun = past.epoch] \in CallRecords
    BY <1>1 DEF NoCall, NoSession, CallRecords, Someone
<1>4. \A d \in Callers : [call[d] EXCEPT !.intact = FALSE] \in CallRecords
    BY DEF ClientTypeOK, CallRecords
<1>5. call' \in [Callers -> CallRecords]
    <2>1. CASE Begins(c, kind, who, pc)
        BY <1>3, <2>1 DEF Begins, ClientTypeOK
    <2>2. CASE Intrudes(c, kind, who, pc)
        BY <1>3, <1>4, <2>2 DEF Intrudes, ClientTypeOK
    <2> QED
        BY <2>1, <2>2
<1> QED
    BY <1>2, <1>5, ClientAssumption

\* Publishing a value keeps the history's type.
LEMMA PublishType ==
    ASSUME past \in Past, NEW value \in Values, Publishes(value)
    PROVE  past' \in Past
<1>1. past' = [epoch |-> past.epoch, identified |-> past.identified,
               published |-> Append(past.published, value), lapsed |-> past.lapsed,
               revived |-> past.revived]
    BY PastFields DEF Publishes
<1>2. Append(past.published, value) \in Seq(Values)
    BY PastFields
<1> QED
    BY <1>1, <1>2, PastFields, PastBuilt

\* The call of a method keeps the types.
LEMMA CallTypes ==
    ASSUME ClientTypeOK, NEW c \in Callers, Call(c)
    PROVE  ClientTypeOK'
<1> USE DEF ClientTypeOK
<1>1. CASE Track(c)
    <2>1. PICK user \in Someone : Begins(c, "track", user, "lock")
        BY <1>1 DEF Track, Someone
    <2>2. call' \in [Callers -> CallRecords] /\ calls' \in 0 .. MaxCalls
        BY <2>1, BeginTypes DEF Pcs
    <2> QED
        BY <1>1, <2>2 DEF Track, identity, properties
<1>2. CASE Identify(c)
    <2>1. PICK user \in Users :
              /\ Intrudes(c, "identify", user, "lock")
              /\ session' = [session EXCEPT !.user = user]
              /\ past' = [past EXCEPT !.identified = @ \union {<<past.epoch, user>>},
                                      !.revived = past.lapsed]
        BY <1>2 DEF Identify
    <2>2. call' \in [Callers -> CallRecords] /\ calls' \in 0 .. MaxCalls
        BY <2>1, BeginTypes DEF Pcs, Someone
    <2>3. session' \in Session
        BY <2>1 DEF Session, Someone
    <2>4. past' \in Past
        <3>1. past.identified \union {<<past.epoch, user>>} \in SUBSET (Nat \X Users)
            BY PastFields
        <3>2. past' = [epoch |-> past.epoch,
                       identified |-> past.identified \union {<<past.epoch, user>>},
                       published |-> past.published, lapsed |-> past.lapsed,
                       revived |-> past.lapsed]
            BY <2>1, PastFields
        <3> QED
            BY <3>1, <3>2, PastFields, PastBuilt
    <2> QED
        BY <1>2, <2>2, <2>3, <2>4 DEF Identify, Refreshed, properties
<1>3. CASE Reset(c)
    <2>1. call' \in [Callers -> CallRecords] /\ calls' \in 0 .. MaxCalls
        BY <1>3, BeginTypes DEF Reset, Pcs, Someone
    <2>2. session' \in Session /\ made' \in [session : Nat, anon : Nat]
        BY <1>3 DEF Reset, Replaces, Created, NoAnon, Session, Someone
    <2>3. past' \in Past
        <3>1. past' = [epoch |-> past.epoch + 1, identified |-> past.identified,
                       published |-> past.published, lapsed |-> FALSE, revived |-> FALSE]
            BY <1>3, PastFields DEF Reset
        <3>2. past.epoch + 1 \in Nat
            BY PastFields
        <3> QED
            BY <3>1, <3>2, PastFields, PastBuilt, Zenon
    <2> QED
        BY <1>3, <2>1, <2>2, <2>3 DEF Reset, properties
<1>4. CASE Shutdown(c)
    <2>1. call' \in [Callers -> CallRecords] /\ calls' \in 0 .. MaxCalls
        BY <1>4, BeginTypes DEF Shutdown, Pcs, Someone
    <2> QED
        BY <1>4, <2>1 DEF Shutdown, identity, properties
<1>5. CASE SetGlobals(c)
    <2>1. PICK keys \in SUBSET Keys \ {{}} :
              call' = [call EXCEPT ![c] = [NoCall EXCEPT !.pc = "write", !.todo = keys]]
        BY <1>5 DEF SetGlobals
    <2>2. call' \in [Callers -> CallRecords]
        BY <2>1 DEF NoCall, NoSession, CallRecords, Pcs, Someone
    <2>3. calls' \in 0 .. MaxCalls
        BY <1>5, ClientAssumption DEF SetGlobals
    <2> QED
        BY <1>5, <2>2, <2>3 DEF SetGlobals, identity
<1>6. CASE ClearGlobals(c)
    <2>1. call' \in [Callers -> CallRecords] /\ calls' \in 0 .. MaxCalls
        BY <1>6, BeginTypes DEF ClearGlobals, Pcs, Someone
    <2>2. globals' \in Values
        BY <1>6 DEF ClearGlobals, Values
    <2>3. past' \in Past
        BY <1>6, <2>2, PublishType DEF ClearGlobals
    <2> QED
        BY <1>6, <2>1, <2>2, <2>3 DEF ClearGlobals, identity
<1> QED
    BY <1>1, <1>2, <1>3, <1>4, <1>5, <1>6 DEF Call

\* A session that create returns is a session (session.go:73-82).
LEMMA CreatedType ==
    ASSUME ClientTypeOK, NEW anon \in Nat, Replaces(Created(anon))
    PROVE  session' \in Session /\ made' \in [session : Nat, anon : Nat]
BY DEF Replaces, Created, Session, Someone, ClientTypeOK

\* A call that has taken an identity still has the type of a call.
LEMMA MergeType ==
    ASSUME NEW r \in CallRecords, NEW got \in [id : Nat, anon : Nat, user : Someone],
           NEW epoch \in Nat, NEW stale \in BOOLEAN
    PROVE  [r EXCEPT !.pc = "merge", !.got = got, !.epoch = epoch, !.stale = stale]
             \in CallRecords
BY DEF CallRecords, Pcs

\* The steps of a call keep the types.
LEMMA StepTypes ==
    ASSUME ClientTypeOK, CallsOK, NEW c \in Callers, Step(c)
    PROVE  ClientTypeOK'
<1> USE DEF ClientTypeOK
<1>1. CASE WriteGlobal(c)
    <2>1. PICK key \in call[c].todo :
              /\ globals' = [globals EXCEPT ![key] = Len(past.published)]
              /\ call' = [call EXCEPT ![c].todo = @ \ {key}]
        BY <1>1 DEF WriteGlobal
    <2>2. Len(past.published) \in Nat
        BY PastFields
    <2>3. globals' \in Values
        BY <2>1, <2>2 DEF Values
    <2>4. call' \in [Callers -> CallRecords]
        BY <2>1 DEF CallRecords
    <2> QED
        BY <1>1, <2>3, <2>4 DEF WriteGlobal, identity
<1>2. CASE GlobalsSet(c)
    <2>1. past' \in Past
        BY <1>2, PublishType DEF GlobalsSet
    <2>2. call' \in [Callers -> CallRecords]
        BY <1>2 DEF GlobalsSet, NoCall, NoSession, CallRecords, Pcs, Someone
    <2> QED
        BY <1>2, <2>1, <2>2 DEF GlobalsSet, identity
<1>3. CASE Lock(c)
    <2>1. call' \in [Callers -> CallRecords]
        <3>1. [call[c] EXCEPT !.pc = "next"] \in CallRecords
            BY DEF CallRecords, Pcs
        <3> QED
            BY <1>3, <3>1 DEF Lock, Goes
    <2> QED
        BY <1>3, <2>1 DEF Lock, identity, properties
<1>4. ASSUME Returns(c) PROVE call' \in [Callers -> CallRecords]
    BY <1>4 DEF Returns, NoCall, NoSession, CallRecords, Pcs, Someone
<1>5. CASE Ignore(c) \/ Refuse(c)
    BY <1>4, <1>5 DEF Ignore, Refuse, Released, identity, properties
<1>6. CASE NextIdentity(c)
    <2>1. session' \in Session /\ made' \in [session : Nat, anon : Nat]
        <3>1. session.anon \in Nat
            BY DEF Session
        <3> QED
            BY <1>6, <3>1, CreatedType DEF NextIdentity
    <2> DEFINE same == session'.id = session.id
    <2>2. past' \in Past
        <3>1. past' = [epoch |-> past.epoch, identified |-> past.identified,
                       published |-> past.published, lapsed |-> past.lapsed /\ same,
                       revived |-> past.revived /\ same]
            BY <1>6, PastFields DEF NextIdentity
        <3>2. (past.lapsed /\ same) \in BOOLEAN /\ (past.revived /\ same) \in BOOLEAN
            OBVIOUS
        <3>3. \A l, r \in BOOLEAN :
                  [epoch |-> past.epoch, identified |-> past.identified,
                   published |-> past.published, lapsed |-> l, revived |-> r] \in Past
            BY PastFields, PastBuilt
        <3> HIDE DEF same
        <3> QED
            BY <3>1, <3>2, <3>3, Zenon
    <2>3. call' \in [Callers -> CallRecords]
        <3>1. past.epoch \in Nat
            BY PastFields
        <3>2. session' \in [id : Nat, anon : Nat, user : Someone]
            BY <2>1 DEF Session
        <3>3. PICK stale \in BOOLEAN :
                  call' = [call EXCEPT ![c] =
                             [@ EXCEPT !.pc = "merge", !.got = session',
                                       !.epoch = past.epoch, !.stale = stale]]
            <4>1. (same /\ past.lapsed /\ ~past.revived) \in BOOLEAN
                OBVIOUS
            <4> QED
                BY <1>6, <4>1, Zenon DEF NextIdentity
        <3>4. [call[c] EXCEPT !.pc = "merge", !.got = session', !.epoch = past.epoch,
                              !.stale = stale] \in CallRecords
            BY <3>1, <3>2, MergeType
        <3> QED
            BY <3>3, <3>4
    <2> QED
        BY <1>6, <2>1, <2>2, <2>3 DEF NextIdentity, properties
<1>7. CASE Accept(c)
    <2>1. call[c] \in CallRecords /\ call[c].kind # "none" /\ call[c].got.anon # 0
        BY <1>7 DEF Accept, At, CallsOK, CallOK, InEnqueue
    <2>2. UserOf(c) \in Someone
        BY <2>1 DEF UserOf, CallRecords
    <2>3. Len(past.published) \in Nat
        BY PastFields
    <2>4. Event(c) \in Sent
        BY <2>1, <2>2, <2>3 DEF Event, Sent, CallRecords
    <2>5. sent' \in Seq(Sent)
        BY <1>7, <2>4 DEF Accept
    <2> QED
        BY <1>4, <1>7, <2>5 DEF Accept, identity, properties
<1> QED
    BY <1>1, <1>2, <1>3, <1>5, <1>6, <1>7 DEF Step

\* Time keeps the types.
LEMMA ExpireTypes ==
    ASSUME ClientTypeOK, Expire
    PROVE  ClientTypeOK'
<1>1. past' = [epoch |-> past.epoch, identified |-> past.identified,
               published |-> past.published, lapsed |-> TRUE, revived |-> FALSE]
    BY PastFields DEF Expire, ClientTypeOK
<1>2. past' \in Past
    BY <1>1, PastFields, PastBuilt, Zenon DEF ClientTypeOK
<1>3. call' \in [Callers -> CallRecords]
    <2>1. \A c \in Callers : [call[c] EXCEPT !.intact = FALSE] \in CallRecords
        BY DEF ClientTypeOK, CallRecords
    <2> QED
        BY <2>1 DEF Expire
<1> QED
    BY <1>2, <1>3 DEF Expire, ClientTypeOK, properties

---------------------------------------------------------------------------
(* What the steps do to the calls *)

\* In everything but intact the call of d is as it was.
SameCall(d) ==
    /\ call'[d].pc = call[d].pc /\ call'[d].kind = call[d].kind
    /\ call'[d].who = call[d].who /\ call'[d].got = call[d].got
    /\ call'[d].begun = call[d].begun /\ call'[d].epoch = call[d].epoch
    /\ call'[d].stale = call[d].stale

\* A call that loses intact keeps everything else.
LEMMA LosesIntact ==
    ASSUME NEW r \in CallRecords, NEW s, s = [r EXCEPT !.intact = FALSE]
    PROVE  /\ s.pc = r.pc /\ s.kind = r.kind /\ s.who = r.who /\ s.got = r.got
           /\ s.begun = r.begun /\ s.epoch = r.epoch /\ s.stale = r.stale /\ ~s.intact
BY DEF CallRecords

\* A call that changes the session begins, and no other stays intact.
LEMMA IntrudesFacts ==
    ASSUME ClientTypeOK, NEW c \in Callers, NEW kind \in {"none", "track", "identify"},
           NEW who \in Someone, NEW pc \in {"idle", "lock"}, Intrudes(c, kind, who, pc)
    PROVE  /\ call[c].pc = "idle"
           /\ call'[c].pc = pc /\ call'[c].kind = kind /\ call'[c].who = who
           /\ call'[c].begun = past.epoch /\ call'[c].stale = FALSE
           /\ \A d \in Callers : d # c => SameCall(d) /\ ~call'[d].intact
<1>1. \A d \in Callers :
         call'[d] = IF d = c
                    THEN [NoCall EXCEPT !.pc = pc, !.kind = kind, !.who = who,
                                        !.begun = past.epoch]
                    ELSE [call[d] EXCEPT !.intact = FALSE]
    BY DEF Intrudes
<1>2. \A d \in Callers : call[d] \in CallRecords
    BY DEF ClientTypeOK
<1>3. call'[c] = [NoCall EXCEPT !.pc = pc, !.kind = kind, !.who = who, !.begun = past.epoch]
    BY <1>1
<1>4. \A d \in Callers : d # c => SameCall(d) /\ ~call'[d].intact
    <2> SUFFICES ASSUME NEW d \in Callers, d # c PROVE SameCall(d) /\ ~call'[d].intact
        OBVIOUS
    <2>1. call'[d] = [call[d] EXCEPT !.intact = FALSE]
        BY <1>1
    <2> QED
        BY <1>2, <2>1, LosesIntact DEF SameCall
<1>5. call[c].pc = "idle"
    BY DEF Intrudes, At
<1> QED
    BY <1>3, <1>4, <1>5 DEF NoCall

\* Any other call begins and leaves the others alone.
LEMMA BeginsFacts ==
    ASSUME ClientTypeOK, NEW c \in Callers, NEW kind \in {"none", "track", "identify"},
           NEW who \in Someone, NEW pc \in {"idle", "lock"}, Begins(c, kind, who, pc)
    PROVE  /\ call[c].pc = "idle"
           /\ call'[c].pc = pc /\ call'[c].kind = kind /\ call'[c].who = who
           /\ call'[c].begun = past.epoch /\ call'[c].stale = FALSE
           /\ \A d \in Callers : d # c => call'[d] = call[d]
<1>1. call'[c] = [NoCall EXCEPT !.pc = pc, !.kind = kind, !.who = who, !.begun = past.epoch]
      /\ \A d \in Callers : d # c => call'[d] = call[d]
    BY DEF Begins, ClientTypeOK
<1>2. call[c].pc = "idle"
    BY DEF Begins, At
<1> QED
    BY <1>1, <1>2 DEF NoCall

---------------------------------------------------------------------------
(* Locks *)

\* Publishing makes the value the last one and keeps those before it.
LEMMA PublishFacts ==
    ASSUME past \in Past, NEW value \in Values, Publishes(value)
    PROVE  /\ past'.published # <<>>
           /\ Len(past.published) \in Nat
           /\ Len(past'.published) = Len(past.published) + 1
           /\ past'.published[Len(past'.published)] = value
           /\ \A i \in 1 .. Len(past.published) : past'.published[i] = past.published[i]
           /\ past'.epoch = past.epoch /\ past'.identified = past.identified
           /\ past'.lapsed = past.lapsed /\ past'.revived = past.revived
<1>1. past.published \in Seq(Values)
    BY PastFields
<1>2. past' = [past EXCEPT !.published = Append(past.published, value)]
    BY DEF Publishes
<1>3. past'.published = Append(past.published, value)
      /\ past'.epoch = past.epoch /\ past'.identified = past.identified
      /\ past'.lapsed = past.lapsed /\ past'.revived = past.revived
    BY <1>2, PastFields
<1>4. /\ Append(past.published, value) # <<>>
      /\ Len(past.published) \in Nat
      /\ Len(Append(past.published, value)) = Len(past.published) + 1
      /\ Append(past.published, value)[Len(past.published) + 1] = value
      /\ \A i \in 1 .. Len(past.published) :
            Append(past.published, value)[i] = past.published[i]
    BY <1>1
<1> QED
    BY <1>3, <1>4

\* Only one goroutine is in enqueue, only one writes the global properties, and
\* what nobody is writing is published.
LEMMA LocksKept ==
    ASSUME ClientTypeOK, LocksOK, ClientNext
    PROVE  LocksOK'
<1>1. NoOne \notin Callers /\ call \in [Callers -> CallRecords] /\ past \in Past
      /\ globals \in Values
    BY ClientAssumption DEF ClientTypeOK
<1>2. ASSUME NEW c \in Callers, Track(c) \/ Shutdown(c) PROVE LocksOK'
    BY <1>1, <1>2 DEF Track, Shutdown, Begins, At, NoCall, LocksOK, properties
<1>3. ASSUME NEW c \in Callers, Identify(c) \/ Reset(c) PROVE LocksOK'
    <2>1. past'.published = past.published
        BY <1>1, <1>3, PastFields DEF Identify, Reset
    <2>2. PICK kind \in {"identify", "none"}, who \in Someone, pc \in {"lock", "idle"} :
              Intrudes(c, kind, who, pc)
        BY <1>3, Zenon DEF Identify, Reset, Someone
    <2>3. call'[c].pc = pc /\ \A d \in Callers : d # c => SameCall(d)
        BY <2>2, IntrudesFacts
    <2>4. stateMu' = stateMu /\ writer' = writer /\ globals' = globals
        BY <1>3 DEF Identify, Reset, properties
    <2>5. \A d \in Callers : call'[d].pc \in {"lock", "idle"} \/ call'[d].pc = call[d].pc
        BY <2>3 DEF SameCall
    <2> QED
        BY <2>1, <2>4, <2>5 DEF LocksOK
<1>4. ASSUME NEW c \in Callers, SetGlobals(c) PROVE LocksOK'
    BY <1>1, <1>4 DEF SetGlobals, At, NoCall, LocksOK
<1>5. ASSUME NEW c \in Callers, ClearGlobals(c) PROVE LocksOK'
    <2>1. globals' \in Values
        BY <1>5 DEF ClearGlobals, Values
    <2>2. globals' = past'.published[Len(past'.published)] /\ past'.published # <<>>
        BY <1>1, <1>5, <2>1, PublishFacts DEF ClearGlobals
    <2>3. \A d \in Callers : call'[d].pc \in {"idle", call[d].pc}
        BY <1>1, <1>5 DEF ClearGlobals, Begins, NoCall
    <2> QED
        BY <1>1, <1>5, <2>2, <2>3 DEF ClearGlobals, LocksOK
<1>6. ASSUME NEW c \in Callers, WriteGlobal(c) PROVE LocksOK'
    BY <1>1, <1>6 DEF WriteGlobal, At, LocksOK
<1>7. ASSUME NEW c \in Callers, GlobalsSet(c) PROVE LocksOK'
    BY <1>1, <1>7, PublishFacts DEF GlobalsSet, At, NoCall, LocksOK
<1>8. ASSUME NEW c \in Callers, Lock(c) PROVE LocksOK'
    BY <1>1, <1>8 DEF Lock, Goes, At, Free, LocksOK, properties
<1>9. ASSUME NEW c \in Callers, Ignore(c) \/ Accept(c) \/ Refuse(c) PROVE LocksOK'
    BY <1>1, <1>9 DEF Ignore, Accept, Refuse, Returns, Released, At, NoCall, LocksOK, properties
<1>10. ASSUME NEW c \in Callers, NextIdentity(c) PROVE LocksOK'
    <2>1. past'.published = past.published
        BY <1>1, <1>10, PastFields DEF NextIdentity
    <2>2. \A d \in Callers : call'[d].pc = IF d = c THEN "merge" ELSE call[d].pc
        BY <1>1, <1>10 DEF NextIdentity, CallRecords
    <2> QED
        BY <1>1, <1>10, <2>1, <2>2 DEF NextIdentity, At, LocksOK, properties
<1>11. CASE Expire
    <2>1. past'.published = past.published
        BY <1>1, <1>11, PastFields DEF Expire
    <2>2. \A d \in Callers : call'[d].pc = call[d].pc
        BY <1>1, <1>11 DEF Expire, CallRecords
    <2> QED
        BY <1>1, <1>11, <2>1, <2>2 DEF Expire, LocksOK, properties
<1> QED
    BY <1>2, <1>3, <1>4, <1>5, <1>6, <1>7, <1>8, <1>9, <1>10, <1>11 DEF ClientNext, Call, Step

---------------------------------------------------------------------------
(* The session *)

\* The ids made last are the session's, its user was identified since the last
\* Reset, and a session past its time has expired or was revived; no call takes
\* an identity from one that has not.
LEMMA SessionKept ==
    ASSUME ClientTypeOK, SessionOK, ClientNext
    PROVE  SessionOK'
<1>1. past \in Past /\ session \in Session /\ globals \in Values /\ NoOne \notin Callers
    BY ClientAssumption DEF ClientTypeOK
<1>2. /\ made = [session |-> session.id, anon |-> session.anon]
      /\ session.user = NoOne \/ <<past.epoch, session.user>> \in past.identified
      /\ past.lapsed /\ ~past.revived => expired
    BY DEF SessionOK, Identified
<1> USE DEF SessionOK, Identified
<1>3. ASSUME UNCHANGED <<identity, past>> PROVE SessionOK'
    BY <1>2, <1>3 DEF identity
<1>4. ASSUME NEW value \in Values, UNCHANGED identity, Publishes(value) PROVE SessionOK'
    BY <1>1, <1>2, <1>4, PublishFacts DEF identity
<1>5. ASSUME NEW c \in Callers, Identify(c) PROVE SessionOK'
    <2>1. PICK user \in Users :
              /\ session' = [session EXCEPT !.user = user]
              /\ past' = [past EXCEPT !.identified = @ \union {<<past.epoch, user>>},
                                      !.revived = past.lapsed]
        BY <1>5 DEF Identify
    <2>2. /\ past'.epoch = past.epoch /\ past'.lapsed = past.lapsed
          /\ past'.revived = past.lapsed
          /\ past'.identified = past.identified \union {<<past.epoch, user>>}
        BY <1>1, <2>1, PastFields
    <2>3. session'.id = session.id /\ session'.anon = session.anon /\ session'.user = user
        BY <1>1, <2>1 DEF Session
    <2> QED
        BY <1>2, <1>5, <2>2, <2>3 DEF Identify
<1>6. ASSUME NEW c \in Callers, Reset(c) PROVE SessionOK'
    <2>1. past'.lapsed = FALSE
        BY <1>1, <1>6, PastFields DEF Reset
    <2>2. made' = [session |-> session'.id, anon |-> session'.anon] /\ session'.user = NoOne
        BY <1>1, <1>2, <1>6 DEF Reset, Replaces, Created, NoAnon, Session
    <2> QED
        BY <2>1, <2>2
<1>7. ASSUME NEW c \in Callers, NextIdentity(c) PROVE SessionOK'
    <2>1. /\ past'.epoch = past.epoch /\ past'.identified = past.identified
          /\ past'.lapsed = (past.lapsed /\ session'.id = session.id)
          /\ past'.revived = (past.revived /\ session'.id = session.id)
        BY <1>1, <1>7, PastFields DEF NextIdentity
    <2>2. CASE expired
        <3>1. /\ made' = [session |-> session'.id, anon |-> session'.anon]
              /\ session'.user = NoOne /\ session'.id # session.id
            BY <1>1, <1>2, <1>7, <2>2 DEF NextIdentity, Expired, Replaces, Created, Session
        <3> QED
            BY <2>1, <3>1
    <2>3. CASE ~expired
        BY <1>2, <1>7, <2>1, <2>3 DEF NextIdentity, Expired
    <2> QED
        BY <2>2, <2>3
<1>8. CASE Expire
    <2>1. past'.epoch = past.epoch /\ past'.identified = past.identified
        BY <1>1, <1>8, PastFields DEF Expire
    <2> QED
        BY <1>2, <1>8, <2>1 DEF Expire
<1>9. ASSUME NEW c \in Callers, GlobalsSet(c) PROVE SessionOK'
    BY <1>1, <1>4, <1>9 DEF GlobalsSet
<1>10. ASSUME NEW c \in Callers, ClearGlobals(c) PROVE SessionOK'
    <2>1. globals' \in Values
        BY <1>10 DEF ClearGlobals, Values
    <2> QED
        BY <1>4, <1>10, <2>1 DEF ClearGlobals
<1>11. ASSUME NEW c \in Callers, \/ Track(c) \/ Shutdown(c) \/ SetGlobals(c) \/ WriteGlobal(c)
                                 \/ Lock(c) \/ Ignore(c) \/ Accept(c) \/ Refuse(c)
       PROVE  SessionOK'
    BY <1>3, <1>11 DEF Track, Shutdown, SetGlobals, WriteGlobal, Lock, Ignore, Accept, Refuse
<1> QED
    BY <1>5, <1>6, <1>7, <1>8, <1>9, <1>10, <1>11 DEF ClientNext, Call, Step

---------------------------------------------------------------------------
(* The calls *)

\* Snapshots are taken one after another.
LEMMA BeforeTransitive ==
    ASSUME NEW x, NEW y, NEW z,
           x.id \in Nat, x.anon \in Nat, x.epoch \in Nat,
           y.id \in Nat, y.anon \in Nat, y.epoch \in Nat,
           z.id \in Nat, z.anon \in Nat, z.epoch \in Nat,
           Before(x, y), Before(y, z)
    PROVE  Before(x, z)
BY DEF Before

\* The fields of a snapshot are numbers.
LEMMA SnapshotTypes ==
    ASSUME ClientTypeOK
    PROVE  /\ Now.id \in Nat /\ Now.anon \in Nat /\ Now.epoch \in Nat
           /\ \A c \in Callers :
                 Taken(c).id \in Nat /\ Taken(c).anon \in Nat /\ Taken(c).epoch \in Nat
BY PastFields DEF ClientTypeOK, Now, Taken, Session, CallRecords

\* No step takes the session back, and what was identified or published remains.
Later ==
    /\ Before(Now, Now')
    /\ past.identified \subseteq past'.identified
    /\ Len(past.published) <= Len(past'.published)
    /\ \A i \in 1 .. Len(past.published) : past'.published[i] = past.published[i]

\* What a call remembers stays true when others go on.
LEMMA CallStays ==
    ASSUME ClientTypeOK, ClientTypeOK', Later, NEW d \in Callers, CallOK(d), SameCall(d),
           call'[d].intact => call[d].intact,
           call'[d].intact => UNCHANGED <<session, expired>>
    PROVE  CallOK(d)'
<1>1. call[d] \in CallRecords /\ call'[d] \in CallRecords
    BY DEF ClientTypeOK
<1>2. past.epoch \in Nat /\ past'.epoch \in Nat /\ past.epoch <= past'.epoch
    BY PastFields DEF ClientTypeOK, Later, Before, Now, Past
<1>3. Taken(d)' = Taken(d)
    BY DEF SameCall, Taken
<1>4. call[d].begun \in Nat
    BY <1>1 DEF CallRecords
<1>5. call'[d].pc = "merge" => Before(Taken(d)', Now')
    <2> SUFFICES ASSUME call'[d].pc = "merge" PROVE Before(Taken(d), Now')
        BY <1>3
    <2>1. Before(Taken(d), Now)
        BY DEF CallOK, SameCall
    <2>2. Now'.id \in Nat /\ Now'.anon \in Nat /\ Now'.epoch \in Nat
        BY DEF ClientTypeOK, Now, Session, Past
    <2> QED
        BY <2>1, <2>2, SnapshotTypes, BeforeTransitive DEF Later
<1> QED
    BY <1>2, <1>4, <1>5 DEF CallOK, SameCall, Identified, Later

\* Every step is one forward.
LEMMA StepsForward ==
    ASSUME ClientTypeOK, SessionOK, ClientNext
    PROVE  Later
<1>1. past \in Past /\ session \in Session /\ globals \in Values /\ NoOne \notin Callers
    BY ClientAssumption DEF ClientTypeOK
<1>2. /\ session.id \in Nat /\ session.anon \in Nat /\ past.epoch \in Nat
      /\ Len(past.published) \in Nat
    BY <1>1, PastFields DEF Session
<1>3. made.session = session.id /\ made.anon = session.anon
    BY DEF SessionOK
<1> USE DEF Later, Before, Now
<1>4. ASSUME session'.id = session.id, session'.anon = session.anon, past'.epoch = past.epoch,
             past.identified \subseteq past'.identified, past'.published = past.published
      PROVE  Later
    BY <1>2, <1>4
<1>5. ASSUME NEW value \in Values, UNCHANGED identity, Publishes(value) PROVE Later
    BY <1>1, <1>2, <1>5, PublishFacts DEF identity
<1>6. ASSUME NEW c \in Callers, Identify(c) PROVE Later
    <2>1. session'.id = session.id /\ session'.anon = session.anon
        BY <1>1, <1>6 DEF Identify, Session
    <2>2. /\ past'.epoch = past.epoch /\ past'.published = past.published
          /\ past.identified \subseteq past'.identified
        BY <1>1, <1>6, PastFields DEF Identify
    <2> QED
        BY <1>4, <2>1, <2>2
<1>7. ASSUME NEW c \in Callers, Reset(c) PROVE Later
    <2>1. /\ past'.epoch = past.epoch + 1 /\ past'.published = past.published
          /\ past'.identified = past.identified
        BY <1>1, <1>7, PastFields DEF Reset
    <2>2. session'.id = session.id + 1 /\ session'.anon = session.anon + 1
        BY <1>3, <1>7 DEF Reset, Replaces, Created, NoAnon
    <2> QED
        BY <1>2, <2>1, <2>2
<1>8. ASSUME NEW c \in Callers, NextIdentity(c) PROVE Later
    <2>1. /\ past'.epoch = past.epoch /\ past'.published = past.published
          /\ past'.identified = past.identified
        BY <1>1, <1>8, PastFields DEF NextIdentity
    <2>2. \/ session' = session
          \/ session'.id = session.id + 1 /\ session'.anon = session.anon
        BY <1>1, <1>3, <1>8 DEF NextIdentity, Expired, Replaces, Created, Session
    <2> QED
        BY <1>2, <2>1, <2>2
<1>9. CASE Expire
    <2>1. /\ past'.epoch = past.epoch /\ past'.published = past.published
          /\ past'.identified = past.identified
        BY <1>1, <1>9, PastFields DEF Expire
    <2> QED
        BY <1>4, <1>9, <2>1 DEF Expire
<1>10. ASSUME NEW c \in Callers, GlobalsSet(c) PROVE Later
    BY <1>1, <1>5, <1>10 DEF GlobalsSet
<1>11. ASSUME NEW c \in Callers, ClearGlobals(c) PROVE Later
    <2>1. globals' \in Values
        BY <1>11 DEF ClearGlobals, Values
    <2> QED
        BY <1>5, <1>11, <2>1 DEF ClearGlobals
<1>12. ASSUME NEW c \in Callers, \/ Track(c) \/ Shutdown(c) \/ SetGlobals(c) \/ WriteGlobal(c)
                                 \/ Lock(c) \/ Ignore(c) \/ Accept(c) \/ Refuse(c)
       PROVE  Later
    BY <1>4, <1>12 DEF Track, Shutdown, SetGlobals, WriteGlobal, Lock, Ignore, Accept, Refuse,
                       identity
<1> QED
    BY <1>6, <1>7, <1>8, <1>9, <1>10, <1>11, <1>12 DEF ClientNext, Call, Step

\* Whatever step is made, every call under way remembers what it should.
LEMMA CallsKept ==
    ASSUME ClientTypeOK, ClientTypeOK', LocksOK, SessionOK, SessionOK', CallsOK, ClientNext
    PROVE  CallsOK'
<1>1. Later
    BY StepsForward
<1>2. past \in Past /\ session \in Session /\ NoOne \notin Callers
      /\ call \in [Callers -> CallRecords] /\ past.epoch \in Nat
    BY ClientAssumption, PastFields DEF ClientTypeOK
<1>3. SUFFICES ASSUME NEW d \in Callers, InEnqueue(d)' PROVE CallOK(d)'
    BY DEF CallsOK
<1>4. InEnqueue(d) => CallOK(d)
    BY DEF CallsOK
<1>5. ASSUME call'[d] = call[d], UNCHANGED <<session, expired>> PROVE CallOK(d)'
    BY <1>1, <1>3, <1>4, <1>5, CallStays DEF InEnqueue, SameCall
<1>6. ASSUME NEW c \in Callers, Track(c) PROVE CallOK(d)'
    <2>1. PICK user \in Users \union {NoOne} : Begins(c, "track", user, "lock")
        BY <1>6 DEF Track
    <2>2. CASE d = c
        <3>1. /\ call'[d].pc = "lock" /\ call'[d].kind = "track"
              /\ call'[d].begun = past.epoch /\ call'[d].stale = FALSE
            BY <2>1, <2>2, BeginsFacts DEF Someone
        <3> QED
            BY <1>2, <1>6, <3>1 DEF Track, CallOK
    <2>3. CASE d # c
        BY <1>5, <1>6, <2>1, <2>3, BeginsFacts DEF Track, identity, Someone
    <2> QED
        BY <2>2, <2>3
<1>7. ASSUME NEW c \in Callers, Identify(c) PROVE CallOK(d)'
    <2>1. PICK user \in Users :
              /\ Intrudes(c, "identify", user, "lock")
              /\ session' = [session EXCEPT !.user = user]
              /\ past' = [past EXCEPT !.identified = @ \union {<<past.epoch, user>>},
                                      !.revived = past.lapsed]
        BY <1>7 DEF Identify
    <2>2. CASE d = c
        <3>1. /\ call'[d].pc = "lock" /\ call'[d].kind = "identify" /\ call'[d].who = user
              /\ call'[d].begun = past.epoch /\ call'[d].stale = FALSE
            BY <2>1, <2>2, IntrudesFacts DEF Someone
        <3>2. session'.user = user /\ ~expired' /\ past'.epoch = past.epoch
            BY <1>2, <1>7, <2>1, PastFields DEF Identify, Refreshed, Session
        <3> QED
            BY <1>2, <3>1, <3>2 DEF CallOK
    <2>3. CASE d # c
        <3>1. SameCall(d) /\ ~call'[d].intact
            BY <2>1, <2>3, IntrudesFacts DEF Someone
        <3> QED
            BY <1>1, <1>3, <1>4, <3>1, CallStays DEF InEnqueue, SameCall
    <2> QED
        BY <2>2, <2>3
<1>8. ASSUME NEW c \in Callers, Reset(c) PROVE CallOK(d)'
    <2>1. Intrudes(c, "none", NoOne, "idle")
        BY <1>8 DEF Reset
    <2>2. d # c
        BY <1>3, <2>1, IntrudesFacts DEF InEnqueue, Someone
    <2>3. SameCall(d) /\ ~call'[d].intact
        BY <2>1, <2>2, IntrudesFacts DEF Someone
    <2> QED
        BY <1>1, <1>3, <1>4, <2>3, CallStays DEF InEnqueue, SameCall
<1>9. ASSUME NEW c \in Callers, Shutdown(c) \/ ClearGlobals(c) PROVE CallOK(d)'
    <2>1. Begins(c, "none", NoOne, "idle")
        BY <1>9 DEF Shutdown, ClearGlobals
    <2>2. d # c
        BY <1>3, <2>1, BeginsFacts DEF InEnqueue, Someone
    <2> QED
        BY <1>5, <1>9, <2>1, <2>2, BeginsFacts DEF Shutdown, ClearGlobals, identity, Someone
<1>10. ASSUME NEW c \in Callers, SetGlobals(c) PROVE CallOK(d)'
    <2>1. PICK keys \in SUBSET Keys \ {{}} :
              call' = [call EXCEPT ![c] = [NoCall EXCEPT !.pc = "write", !.todo = keys]]
        BY <1>10 DEF SetGlobals
    <2>2. call'[c].pc = "write"
        BY <1>2, <2>1 DEF NoCall
    <2>3. d # c /\ call'[d] = call[d]
        BY <1>2, <1>3, <2>1, <2>2 DEF InEnqueue
    <2> QED
        BY <1>5, <1>10, <2>3 DEF SetGlobals, identity
<1>11. ASSUME NEW c \in Callers, WriteGlobal(c) PROVE CallOK(d)'
    <2>1. d # c /\ call'[d] = call[d]
        BY <1>2, <1>3, <1>11 DEF WriteGlobal, At, InEnqueue, CallRecords
    <2> QED
        BY <1>5, <1>11, <2>1 DEF WriteGlobal, identity
<1>12. ASSUME NEW c \in Callers, GlobalsSet(c) \/ Ignore(c) \/ Accept(c) \/ Refuse(c)
       PROVE  CallOK(d)'
    <2>1. call' = [call EXCEPT ![c] = NoCall]
        BY <1>12 DEF GlobalsSet, Ignore, Accept, Refuse, Returns
    <2>2. d # c /\ call'[d] = call[d]
        BY <1>2, <1>3, <2>1 DEF InEnqueue, NoCall
    <2> QED
        BY <1>5, <1>12, <2>2 DEF GlobalsSet, Ignore, Accept, Refuse, identity
<1>13. ASSUME NEW c \in Callers, Lock(c) PROVE CallOK(d)'
    <2>1. call' = [call EXCEPT ![c].pc = "next"] /\ call[c].pc = "lock"
        BY <1>13 DEF Lock, Goes, At
    <2>2. UNCHANGED <<session, expired, past>>
        BY <1>13 DEF Lock, identity
    <2>3. CASE d = c
        <3>1. /\ call'[d].pc = "next" /\ call'[d].kind = call[d].kind
              /\ call'[d].who = call[d].who /\ call'[d].begun = call[d].begun
              /\ call'[d].intact = call[d].intact /\ call'[d].stale = call[d].stale
            BY <1>2, <2>1, <2>3 DEF CallRecords
        <3>2. CallOK(d)
            BY <1>4, <2>1, <2>3 DEF InEnqueue
        <3> QED
            BY <2>1, <2>2, <2>3, <3>1, <3>2 DEF CallOK
    <2>4. CASE d # c
        BY <1>2, <1>5, <2>1, <2>2, <2>4
    <2> QED
        BY <2>3, <2>4
<1>14. ASSUME NEW c \in Callers, NextIdentity(c) PROVE CallOK(d)'
    <2>1. PICK stale \in BOOLEAN :
              /\ call' = [call EXCEPT ![c] =
                            [@ EXCEPT !.pc = "merge", !.got = session',
                                      !.epoch = past.epoch, !.stale = stale]]
              /\ stale => session'.id = session.id /\ past.lapsed /\ ~past.revived
        <3>1. (session'.id = session.id /\ past.lapsed /\ ~past.revived) \in BOOLEAN
            OBVIOUS
        <3> QED
            BY <1>14, <3>1, Zenon DEF NextIdentity
    <2>2. /\ past'.epoch = past.epoch /\ call[c].pc = "next" /\ ~expired'
          /\ expired => session'.id # session.id
          /\ ~expired => session' = session
        <3>1. past'.epoch = past.epoch
            BY <1>2, <1>14, PastFields DEF NextIdentity
        <3>2. expired => session'.id # session.id
            BY <1>2, <1>14 DEF NextIdentity, Expired, Replaces, Created, SessionOK, Session
        <3> QED
            BY <1>14, <3>1, <3>2 DEF NextIdentity, Expired, At
    <2>3. CASE d = c
        <3>1. call[d] \in CallRecords
            BY <1>2
        <3>2. /\ call'[d].pc = "merge" /\ call'[d].got = session'
              /\ call'[d].epoch = past.epoch /\ call'[d].stale = stale
              /\ call'[d].kind = call[d].kind /\ call'[d].who = call[d].who
              /\ call'[d].begun = call[d].begun /\ call'[d].intact = call[d].intact
            BY <1>2, <2>1, <2>3, <3>1 DEF CallRecords
        <3>3. CallOK(d)
            BY <1>4, <2>2, <2>3 DEF InEnqueue
        <3>4. ~stale
            BY <2>1, <2>2 DEF SessionOK
        <3>5. Before(Taken(d)', Now')
            <4>1. Taken(d)' = Now'
                BY <2>2, <3>2 DEF Taken, Now
            <4>2. Now'.id \in Nat /\ Now'.anon \in Nat /\ Now'.epoch \in Nat
                BY DEF ClientTypeOK, Now, Session, Past
            <4> QED
                BY <4>1, <4>2 DEF Before
        <3>6. session'.anon # 0
            BY DEF ClientTypeOK, Session
        <3>7. session'.user = NoOne \/ <<past.epoch, session'.user>> \in past'.identified
            BY <2>2 DEF SessionOK, Identified
        <3>8. call[d].kind = "identify" /\ call[d].intact => session'.user = call[d].who
            BY <2>2, <2>3, <3>3 DEF CallOK
        <3> QED
            BY <2>2, <3>2, <3>3, <3>4, <3>5, <3>6, <3>7, <3>8 DEF CallOK, Identified
    <2>4. CASE d # c
        <3>1. call'[d] = call[d]
            BY <1>2, <2>1, <2>4
        <3>2. call[d].pc = "lock"
            BY <1>3, <2>2, <2>4, <3>1 DEF InEnqueue, LocksOK
        <3>3. CallOK(d)
            BY <1>4, <3>2 DEF InEnqueue
        <3>4. CASE expired
            <4>1. /\ call[d].kind # "none" /\ call[d].begun <= past.epoch /\ ~call[d].stale
                  /\ ~(call[d].kind = "identify" /\ call[d].intact)
                BY <3>2, <3>3, <3>4 DEF CallOK
            <4> QED
                BY <2>2, <3>1, <3>2, <4>1 DEF CallOK
        <3>5. CASE ~expired
            <4>1. expired = FALSE /\ expired' = FALSE
                BY <2>2, <3>5 DEF ClientTypeOK
            <4> QED
                BY <1>5, <2>2, <3>1, <3>5, <4>1
        <3> QED
            BY <3>4, <3>5
    <2> QED
        BY <2>3, <2>4
<1>15. CASE Expire
    <2>1. call'[d] = [call[d] EXCEPT !.intact = FALSE]
        BY <1>15 DEF Expire
    <2>2. SameCall(d) /\ ~call'[d].intact
        BY <1>2, <2>1, LosesIntact DEF SameCall
    <2> QED
        BY <1>1, <1>3, <1>4, <2>2, CallStays DEF InEnqueue, SameCall
<1> QED
    BY <1>6, <1>7, <1>8, <1>9, <1>10, <1>11, <1>12, <1>13, <1>14, <1>15
       DEF ClientNext, Call, Step

---------------------------------------------------------------------------
(* What is sent *)

\* What was sent stays in order with what follows.
LEMMA SentStays ==
    ASSUME ClientTypeOK, ClientTypeOK', Later, SentOK, sent' = sent,
           \A c \in Callers : call'[c].pc = "merge" =>
               \/ Taken(c)' = Now'
               \/ call[c].pc = "merge" /\ Taken(c)' = Taken(c)
    PROVE  SentOK'
<1>1. SUFFICES ASSUME NEW i \in 1 .. Len(sent)
               PROVE  /\ Before(sent[i], Now')
                      /\ \A c \in Callers :
                            call'[c].pc = "merge" => Before(sent[i], Taken(c)')
                      /\ sent[i].update \in 1 .. Len(past'.published)
                      /\ sent[i].globals = past'.published[sent[i].update]
                      /\ \/ sent[i].user = sent[i].who \/ sent[i].user = NoOne
                         \/ <<sent[i].epoch, sent[i].user>> \in past'.identified
    BY DEF SentOK, Identified
<1>2. sent[i] \in Sent
    BY DEF ClientTypeOK
<1>3. sent[i].id \in Nat /\ sent[i].anon \in Nat /\ sent[i].epoch \in Nat
    BY <1>2 DEF Sent
<1>4. Before(sent[i], Now')
    <2>1. Now'.id \in Nat /\ Now'.anon \in Nat /\ Now'.epoch \in Nat
        BY DEF ClientTypeOK, Now, Session, Past
    <2>2. Before(sent[i], Now)
        BY DEF SentOK
    <2> QED
        BY <1>3, <2>1, <2>2, SnapshotTypes, BeforeTransitive DEF Later
<1>5. \A c \in Callers : call'[c].pc = "merge" => Before(sent[i], Taken(c)')
    BY <1>4 DEF SentOK
<1>6. Len(past.published) \in Nat /\ Len(past'.published) \in Nat
    BY DEF ClientTypeOK, Past
<1>7. sent[i].update \in 1 .. Len(past.published)
      /\ sent[i].globals = past.published[sent[i].update]
    BY DEF SentOK
<1> QED
    BY <1>4, <1>5, <1>6, <1>7 DEF SentOK, Identified, Later

\* Accept appends an event that fits: stateMu keeps any other identity from being
\* taken meanwhile.
LEMMA SentGrows ==
    ASSUME ClientTypeOK, ClientTypeOK', LocksOK, CallsOK, SentOK, NEW c \in Callers, Accept(c)
    PROVE  /\ SentOK'
           /\ IdentifyOwnUser => IdentifyOwnUser'
           /\ SessionLifetime => SessionLifetime'
<1>1. /\ call[c] \in CallRecords /\ call[c].pc = "merge" /\ stateMu = c /\ writer = NoOne
      /\ past \in Past /\ sent \in Seq(Sent) /\ NoOne \notin Callers
    BY ClientAssumption DEF Accept, At, ClientTypeOK, LocksOK
<1>2. CallOK(c)
    BY <1>1 DEF CallsOK, InEnqueue
<1>3. /\ sent' = Append(sent, Event(c)) /\ past' = past /\ session' = session
      /\ call' = [call EXCEPT ![c] = NoCall]
    BY DEF Accept, Returns, identity
<1>4. \A d \in Callers : call'[d].pc # "merge"
    <2>1. \A d \in Callers : d # c => call[d].pc # "merge" /\ call'[d] = call[d]
        BY <1>1, <1>3 DEF LocksOK, ClientTypeOK
    <2>2. call'[c].pc = "idle"
        BY <1>3 DEF ClientTypeOK, NoCall
    <2> QED
        BY <2>1, <2>2
<1> DEFINE e == Event(c)
           n == Len(sent) + 1
<1>5. /\ e.id = Taken(c).id /\ e.anon = Taken(c).anon /\ e.epoch = Taken(c).epoch
      /\ e.update = Len(past.published) /\ e.globals = globals
      /\ e.begun = call[c].begun /\ e.kind = call[c].kind /\ e.who = call[c].who
      /\ e.user = UserOf(c) /\ e.intact = call[c].intact /\ e.stale = call[c].stale
    BY DEF Event, Taken
<1>6. /\ Len(sent) \in Nat /\ Len(sent') = n /\ sent'[n] = e
      /\ \A i \in 1 .. Len(sent) : sent'[i] = sent[i]
    BY <1>1, <1>3
<1>7. /\ Before(e, Now) /\ e.begun <= e.epoch
      /\ e.user = e.who \/ Identified(e.epoch, e.user)
    BY <1>1, <1>2, <1>5 DEF CallOK, Before, UserOf, Taken
<1>8. \A i \in 1 .. Len(sent) : Before(sent[i], e)
    BY <1>1, <1>5 DEF SentOK, Before
<1>9. Len(past.published) \in Nat /\ past.published # <<>>
      /\ globals = past.published[Len(past.published)]
    BY <1>1, PastFields DEF LocksOK
<1>10. Len(past.published) >= 1
    BY <1>1, <1>9, PastFields
<1>11. \A i \in 1 .. Len(sent) : sent[i].update \in 1 .. Len(past.published)
    BY DEF SentOK
<1> HIDE DEF e
<1>12. SentOK'
    <2>1. \A i, j \in 1 .. n : i < j =>
              Before(sent'[i], sent'[j]) /\ sent'[i].update <= sent'[j].update
        <3> SUFFICES ASSUME NEW i \in 1 .. n, NEW j \in 1 .. n, i < j
                     PROVE  Before(sent'[i], sent'[j]) /\ sent'[i].update <= sent'[j].update
            OBVIOUS
        <3>1. CASE j = n
            <4>1. i \in 1 .. Len(sent)
                BY <1>6, <3>1
            <4> QED
                BY <1>5, <1>6, <1>8, <1>9, <1>11, <3>1, <4>1
        <3>2. CASE j # n
            <4>1. i \in 1 .. Len(sent) /\ j \in 1 .. Len(sent)
                BY <1>6, <3>2
            <4> QED
                BY <1>6, <4>1 DEF SentOK
        <3> QED
            BY <3>1, <3>2
    <2>2. ASSUME NEW i \in 1 .. n
          PROVE  /\ Before(sent'[i], Now) /\ sent'[i].update \in 1 .. Len(past.published)
                 /\ sent'[i].globals = past.published[sent'[i].update]
                 /\ sent'[i].begun <= sent'[i].epoch
                 /\ sent'[i].user = sent'[i].who \/ Identified(sent'[i].epoch, sent'[i].user)
        <3>1. CASE i = n
            BY <1>5, <1>6, <1>7, <1>9, <1>10, <3>1
        <3>2. CASE i # n
            <4>1. i \in 1 .. Len(sent)
                BY <1>6, <3>2
            <4> QED
                BY <1>6, <4>1 DEF SentOK
        <3> QED
            BY <3>1, <3>2
    <2>3. Now' = Now
        BY <1>3 DEF Now
    <2> QED
        BY <1>3, <1>4, <1>6, <2>1, <2>2, <2>3 DEF SentOK, Identified
<1>13. e.kind = "identify" /\ e.intact => e.user = e.who
    BY <1>1, <1>2, <1>5 DEF CallOK, UserOf
<1>14. ~e.stale
    BY <1>2, <1>5 DEF CallOK
<1> QED
    BY <1>6, <1>12, <1>13, <1>14 DEF IdentifyOwnUser, SessionLifetime

\* No step but Accept sends, and none takes an identity that is older than what
\* was sent.
LEMMA SentKept ==
    ASSUME ClientTypeOK, ClientTypeOK', LocksOK, SessionOK, CallsOK, SentOK, ClientNext,
           sent' = sent
    PROVE  SentOK'
<1>1. call \in [Callers -> CallRecords] /\ past \in Past
    BY DEF ClientTypeOK
<1>2. SUFFICES ASSUME NEW d \in Callers, call'[d].pc = "merge"
               PROVE  \/ Taken(d)' = Now'
                      \/ call[d].pc = "merge" /\ Taken(d)' = Taken(d)
    BY StepsForward, SentStays
<1>3. ASSUME call'[d] = call[d] \/ SameCall(d)
      PROVE  call[d].pc = "merge" /\ Taken(d)' = Taken(d)
    BY <1>2, <1>3 DEF SameCall, Taken
<1>4. ASSUME NEW c \in Callers, NEW kind \in {"none", "track", "identify"},
             NEW who \in Someone, NEW pc \in {"idle", "lock"},
             Begins(c, kind, who, pc) \/ Intrudes(c, kind, who, pc)
      PROVE  call'[d] = call[d] \/ SameCall(d)
    BY <1>2, <1>4, BeginsFacts, IntrudesFacts
<1>5. ASSUME NEW c \in Callers, Track(c) \/ Identify(c) \/ Reset(c) \/ Shutdown(c) \/ ClearGlobals(c)
      PROVE  call'[d] = call[d] \/ SameCall(d)
    <2>1. PICK kind \in {"none", "track", "identify"}, who \in Someone, pc \in {"idle", "lock"} :
              Begins(c, kind, who, pc) \/ Intrudes(c, kind, who, pc)
        BY <1>5, Zenon DEF Track, Identify, Reset, Shutdown, ClearGlobals, Someone
    <2> QED
        BY <1>4, <2>1
<1>6. ASSUME NEW c \in Callers, SetGlobals(c) PROVE call'[d] = call[d]
    <2>1. PICK keys \in SUBSET Keys \ {{}} :
              call' = [call EXCEPT ![c] = [NoCall EXCEPT !.pc = "write", !.todo = keys]]
        BY <1>6 DEF SetGlobals
    <2>2. call'[c].pc = "write"
        BY <1>1, <2>1 DEF NoCall
    <2> QED
        BY <1>1, <1>2, <2>1, <2>2
<1>7. ASSUME NEW c \in Callers, WriteGlobal(c) PROVE call'[d] = call[d]
    BY <1>1, <1>2, <1>7 DEF WriteGlobal, At, CallRecords
<1>8. ASSUME NEW c \in Callers, call' = [call EXCEPT ![c] = NoCall] PROVE call'[d] = call[d]
    BY <1>1, <1>2, <1>8 DEF NoCall
<1>9. ASSUME NEW c \in Callers, GlobalsSet(c) \/ Ignore(c) \/ Accept(c) \/ Refuse(c)
      PROVE  call'[d] = call[d]
    BY <1>8, <1>9 DEF GlobalsSet, Ignore, Accept, Refuse, Returns
<1>10. ASSUME NEW c \in Callers, Lock(c) PROVE call'[d] = call[d]
    BY <1>1, <1>2, <1>10 DEF Lock, Goes, CallRecords
<1>11. ASSUME NEW c \in Callers, NextIdentity(c)
       PROVE  Taken(d)' = Now' \/ call'[d] = call[d]
    <2>1. PICK stale : call' = [call EXCEPT ![c] =
                                  [@ EXCEPT !.pc = "merge", !.got = session',
                                            !.epoch = past.epoch, !.stale = stale]]
        BY <1>11, Zenon DEF NextIdentity
    <2>2. past'.epoch = past.epoch
        BY <1>1, <1>11, PastFields DEF NextIdentity
    <2>3. CASE d = c
        <3>1. call[d] \in CallRecords
            BY <1>1
        <3>2. call'[d].got = session' /\ call'[d].epoch = past.epoch
            BY <1>1, <2>1, <2>3, <3>1 DEF CallRecords
        <3> QED
            BY <2>2, <3>2 DEF Taken, Now
    <2> QED
        BY <1>1, <2>1, <2>3
<1>12. CASE Expire
    <2>1. call'[d] = [call[d] EXCEPT !.intact = FALSE] /\ call[d] \in CallRecords
        BY <1>1, <1>12 DEF Expire
    <2>2. SameCall(d)
        BY <2>1, LosesIntact DEF SameCall
    <2> QED
        BY <1>3, <2>2
<1> QED
    BY <1>3, <1>5, <1>6, <1>7, <1>9, <1>10, <1>11, <1>12 DEF ClientNext, Call, Step

---------------------------------------------------------------------------
(* The theorems *)

\* The invariant holds initially.
LEMMA InitInv == ClientInit => ClientInv
<1> SUFFICES ASSUME ClientInit PROVE ClientInv
    OBVIOUS
<1>1. ClientTypeOK
    BY TypeInit
<1>2. \A c \in Callers : call[c].pc = "idle"
    BY DEF ClientInit, NoCall
<1>3. past.published = <<globals>> /\ past.epoch = 0 /\ past.lapsed = FALSE
    BY DEF ClientInit
<1>4. LocksOK
    <2>1. <<globals>> # <<>> /\ Len(<<globals>>) = 1 /\ <<globals>>[1] = globals
        OBVIOUS
    <2> QED
        BY <1>2, <1>3, <2>1 DEF LocksOK
<1>5. SessionOK
    BY <1>3 DEF ClientInit, SessionOK, Identified
<1>6. CallsOK
    BY <1>2 DEF CallsOK, InEnqueue
<1>7. SentOK /\ IdentifyOwnUser /\ SessionLifetime
    BY DEF ClientInit, SentOK, IdentifyOwnUser, SessionLifetime
<1> QED
    BY <1>1, <1>4, <1>5, <1>6, <1>7 DEF ClientInv

\* Every step keeps the invariant.
LEMMA NextInv == ClientInv /\ [ClientNext]_clientVars => ClientInv'
<1> SUFFICES ASSUME ClientInv, [ClientNext]_clientVars PROVE ClientInv'
    OBVIOUS
<1> USE DEF ClientInv
<1>1. CASE ClientNext
    <2>1. ClientTypeOK'
        BY <1>1, CallTypes, StepTypes, ExpireTypes DEF ClientNext
    <2>2. LocksOK' /\ SessionOK'
        BY <1>1, LocksKept, SessionKept
    <2>3. CallsOK'
        BY <1>1, <2>1, <2>2, CallsKept
    <2>4. CASE \E c \in Callers : Accept(c)
        BY <2>1, <2>2, <2>3, <2>4, SentGrows
    <2>5. CASE ~\E c \in Callers : Accept(c)
        <3>1. sent' = sent
            BY <1>1, <2>5 DEF ClientNext, Call, Step, Track, Identify, Reset, Shutdown, SetGlobals,
               ClearGlobals, WriteGlobal, GlobalsSet, Lock, Ignore, NextIdentity, Refuse, Expire
        <3>2. SentOK'
            BY <1>1, <2>1, <3>1, SentKept
        <3> QED
            BY <2>1, <2>2, <2>3, <3>1, <3>2 DEF IdentifyOwnUser, SessionLifetime
    <2> QED
        BY <2>4, <2>5
<1>2. CASE UNCHANGED clientVars
    BY <1>2 DEF clientVars, identity, properties, ClientTypeOK, LocksOK, SessionOK, CallsOK, CallOK,
       SentOK, IdentifyOwnUser, SessionLifetime, InEnqueue, Identified, Taken, Now
<1> QED
    BY <1>1, <1>2

\* Locks, session, calls and what is sent keep together in every behaviour,
\* whatever the goroutines, users and keys, and however many calls are made.
THEOREM ClientInvariance == ClientSpec => []ClientInv
<1> QED
    BY InitInv, NextInv, PTL DEF ClientSpec

\* Every variable of the client keeps its type.
THEOREM ClientTypeCorrect == ClientSpec => []ClientTypeOK
<1>1. ClientInv => ClientTypeOK
    BY DEF ClientInv
<1> QED
    BY <1>1, ClientInvariance, PTL

\* Events stand in the queue in the order of their identities and of the global
\* properties, and none has half of an update (alitycs.go:234-284).
THEOREM SnapshotOrder == ClientSpec => []SnapshotsInOrder
<1>1. ClientInv => SnapshotsInOrder
    BY DEF ClientInv, SentOK, Before, SnapshotsInOrder
<1> QED
    BY <1>1, ClientInvariance, PTL

\* After a Reset no id and no user of before is used again (alitycs.go:165-169).
THEOREM ResetCorrect == ClientSpec => []ResetSeparates
<1>1. ClientInv => ResetSeparates
    <2> SUFFICES ASSUME ClientInv, NEW j \in 1 .. Len(sent)
                 PROVE  /\ \A i \in 1 .. Len(sent) : sent[j].begun > sent[i].epoch =>
                               sent[j].id # sent[i].id /\ sent[j].anon # sent[i].anon
                        /\ \/ sent[j].user \in {sent[j].who, NoOne}
                           \/ <<sent[j].epoch, sent[j].user>> \in past.identified
        BY DEF ResetSeparates
    <2>1. \A i \in 1 .. Len(sent) : sent[i] \in Sent
        BY DEF ClientInv, ClientTypeOK
    <2>2. ASSUME NEW i \in 1 .. Len(sent), sent[j].begun > sent[i].epoch
          PROVE  sent[j].id # sent[i].id /\ sent[j].anon # sent[i].anon
        <3>1. /\ sent[i].id \in Nat /\ sent[i].anon \in Nat /\ sent[i].epoch \in Nat
              /\ sent[j].id \in Nat /\ sent[j].anon \in Nat /\ sent[j].epoch \in Nat
              /\ sent[j].begun \in Nat
            BY <2>1 DEF Sent
        <3>2. sent[j].begun <= sent[j].epoch
            BY DEF ClientInv, SentOK
        <3>3. sent[j].epoch > sent[i].epoch
            BY <2>2, <3>1, <3>2
        <3>4. ~(j <= i)
            BY <3>1, <3>3 DEF ClientInv, SentOK, Before
        <3>5. Before(sent[i], sent[j])
            BY <3>4 DEF ClientInv, SentOK
        <3> QED
            BY <3>1, <3>3, <3>5 DEF Before
    <2>3. \/ sent[j].user \in {sent[j].who, NoOne}
          \/ <<sent[j].epoch, sent[j].user>> \in past.identified
        BY DEF ClientInv, SentOK, Identified
    <2> QED
        BY <2>2, <2>3
<1> QED
    BY <1>1, ClientInvariance, PTL

\* An identify event carries the user it identifies, unless it was interrupted
\* (alitycs.go:105-117).
THEOREM IdentifyCorrect == ClientSpec => []IdentifyOwnUser
<1>1. ClientInv => IdentifyOwnUser
    BY DEF ClientInv
<1> QED
    BY <1>1, ClientInvariance, PTL

\* No event belongs to a session past its time, unless an Identify revived it
\* (session.go:34-60).
THEOREM LifetimeCorrect == ClientSpec => []SessionLifetime
<1>1. ClientInv => SessionLifetime
    BY DEF ClientInv
<1> QED
    BY <1>1, ClientInvariance, PTL

=============================================================================
