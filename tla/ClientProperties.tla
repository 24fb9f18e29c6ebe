-------------------------- MODULE ClientProperties --------------------------
(***************************************************************************)
(* What a client used by several goroutines must guarantee about whom its  *)
(* events are from.                                                        *)
(***************************************************************************)
EXTENDS Client

Pcs == {"idle", "write", "lock", "next", "merge"}
Someone == Users \union {NoOne}
Session == [id : Nat, anon : Nat \ {0}, user : Someone]
Values == [Keys -> Nat]
CallRecords == [pc : Pcs, kind : {"none", "track", "identify"}, who : Someone,
                got : [id : Nat, anon : Nat, user : Someone], todo : SUBSET Keys,
                begun : Nat, epoch : Nat, intact : BOOLEAN, stale : BOOLEAN]
Sent == [kind : {"track", "identify"}, who : Someone, user : Someone, id : Nat,
         anon : Nat \ {0}, globals : Values, update : Nat, begun : Nat, epoch : Nat,
         intact : BOOLEAN, stale : BOOLEAN]

\* Every variable keeps its type; in particular no session and no event is
\* without an anonymous id, and only events that Client.enqueue built are sent
\* (session.go:73-82; alitycs.go:252-275).
ClientTypeOK ==
    /\ session \in Session
    /\ expired \in BOOLEAN
    /\ made \in [session : Nat, anon : Nat]
    /\ stateMu \in Callers \union {NoOne} /\ writer \in Callers \union {NoOne}
    /\ closed \in BOOLEAN
    /\ globals \in Values
    /\ call \in [Callers -> CallRecords]
    /\ sent \in Seq(Sent)
    /\ past \in Past
    /\ calls \in 0 .. MaxCalls

\* Events stand in the queue in the order in which they took their identity and
\* their global properties, whatever Resets, rotations and updates came in
\* between, so no session comes back once another has followed it; and no event
\* has half of an update (alitycs.go:234-236, 252-284, 136-145, 287-292).
SnapshotsInOrder ==
    /\ \A i, j \in 1 .. Len(sent) : i < j =>
          /\ sent[i].id <= sent[j].id
          /\ sent[i].anon <= sent[j].anon
          /\ sent[i].epoch <= sent[j].epoch
          /\ sent[i].update <= sent[j].update
    /\ \A i \in 1 .. Len(sent) : sent[i].globals = past.published[sent[i].update]

\* An event enqueued after a Reset shares no id with one enqueued before it, and
\* carries no user but its own or one identified since that Reset, whatever was
\* under way when it was called (alitycs.go:165-169; session.go:63-69).
ResetSeparates ==
    \A j \in 1 .. Len(sent) :
        /\ \A i \in 1 .. Len(sent) :
              sent[j].begun > sent[i].epoch =>
                  sent[j].id # sent[i].id /\ sent[j].anon # sent[i].anon
        /\ sent[j].user \in {sent[j].who, NoOne}
             \/ <<sent[j].epoch, sent[j].user>> \in past.identified

\* An identify event carries the user it identifies, even when the session had
\* expired before the call, unless another goroutine's Identify or Reset, or a
\* whole timeout, came between the two halves of the call (alitycs.go:105-117,
\* 270-275: "so its own event carries it too").
IdentifyOwnUser ==
    \A i \in 1 .. Len(sent) :
        sent[i].kind = "identify" /\ sent[i].intact => sent[i].user = sent[i].who

\* No event belongs to a session that was inactive for longer than the timeout,
\* unless an Identify revived it: setUserID records activity without the test
\* (session.go:34-44, 54-60; config.go:111-112).
SessionLifetime == \A i \in 1 .. Len(sent) : ~sent[i].stale

---------------------------------------------------------------------------
(* The inductive invariant *)

\* one snapshot of the identity was taken no later than another
Before(x, y) ==
    /\ x.id <= y.id /\ x.anon <= y.anon /\ x.epoch <= y.epoch
    /\ x.epoch < y.epoch => x.id < y.id /\ x.anon < y.anon

Now == [id |-> session.id, anon |-> session.anon, epoch |-> past.epoch]
Taken(c) == [id |-> call[c].got.id, anon |-> call[c].got.anon, epoch |-> call[c].epoch]

InEnqueue(c) == call[c].pc \in {"lock", "next", "merge"}
Identified(epoch, user) == user = NoOne \/ <<epoch, user>> \in past.identified

\* stateMu and globalsMu keep their holders apart, and what is not being
\* written is published
LocksOK ==
    /\ \A c \in Callers :
          /\ call[c].pc \in {"next", "merge"} => stateMu = c
          /\ call[c].pc = "write" => writer = c
    /\ past.published # <<>>
    /\ writer = NoOne => globals = past.published[Len(past.published)]

\* the ids made last are those of the session, whose user was identified since
\* the last Reset; a session past its time has expired or was revived
SessionOK ==
    /\ made = [session |-> session.id, anon |-> session.anon]
    /\ Identified(past.epoch, session.user)
    /\ past.lapsed /\ ~past.revived => expired

\* what a call under way remembers
CallOK(c) ==
    /\ call[c].kind # "none"
    /\ call[c].begun <= past.epoch
    /\ ~call[c].stale
    /\ call[c].kind = "identify" /\ call[c].intact /\ call[c].pc # "merge" =>
          ~expired /\ session.user = call[c].who
    /\ call[c].pc = "merge" =>
          /\ Before(Taken(c), Now)
          /\ call[c].got.anon # 0
          /\ call[c].begun <= call[c].epoch
          /\ Identified(call[c].epoch, call[c].got.user)
          /\ call[c].kind = "identify" /\ call[c].intact => call[c].got.user = call[c].who

CallsOK == \A c \in Callers : InEnqueue(c) => CallOK(c)

\* what is sent was taken before everything that is now under way
SentOK ==
    /\ \A i, j \in 1 .. Len(sent) : i < j =>
          Before(sent[i], sent[j]) /\ sent[i].update <= sent[j].update
    /\ \A i \in 1 .. Len(sent) :
          /\ Before(sent[i], Now)
          /\ \A c \in Callers : call[c].pc = "merge" => Before(sent[i], Taken(c))
          /\ sent[i].update \in 1 .. Len(past.published)
          /\ sent[i].globals = past.published[sent[i].update]
          /\ sent[i].begun <= sent[i].epoch
          /\ sent[i].user = sent[i].who \/ Identified(sent[i].epoch, sent[i].user)

ClientInv ==
    /\ ClientTypeOK /\ LocksOK /\ SessionOK /\ CallsOK /\ SentOK
    /\ IdentifyOwnUser /\ SessionLifetime

---------------------------------------------------------------------------
(* Progress *)

\* A goroutine that has begun a step goes on, and sync.Mutex and sync.RWMutex
\* starve nobody who waits. Nothing makes anybody call.
ClientLive == ClientSpec /\ \A c \in Callers : SF_clientVars(Step(c))

\* Every call returns: stateMu is given back on every path, early returns
\* included, and waiting for globalsMu with stateMu held cannot close a circle
\* (alitycs.go:237-247, 252-284, 136-163).
EveryCallReturns == \A c \in Callers : ~At(c, "idle") ~> At(c, "idle")
=============================================================================
