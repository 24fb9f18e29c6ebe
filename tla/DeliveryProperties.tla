------------------------- MODULE DeliveryProperties -------------------------
(***************************************************************************)
(* What happens to an event on its whole way, across processes.            *)
(***************************************************************************)
EXTENDS Delivery

Events == 1 .. MaxEvents
Records == [id : Nat, events : Seq(Events)]
IsBatch(s) == s \in Seq(Events) /\ s # <<>> /\ Len(s) <= FlushSize
IsLog(s) == s \in Seq(Records) /\ \A i \in 1 .. Len(s) : IsBatch(s[i].events)
Causes == {"unstored", "limit", "400", "4xx", "recovered"}

\* Every variable keeps its type; in particular no batch is empty or longer than
\* the flush size, also after a split (batcher.go:392-398, 513-520).
DeliveryTypeOK ==
    /\ up \in BOOLEAN /\ stopping \in BOOLEAN
    /\ queue \in Seq(Events)
    /\ pass \in [kind : {"none", "size", "flush", "finish"}, first : Nat, left : Nat]
    /\ pass.left <= Len(queue)
    /\ step \in {"idle", "recover", "send", "persist", "done"}
    /\ IsLog(todo) /\ IsLog(log) /\ \A v \in versions : IsLog(v)
    /\ pieces \in Seq(Seq(Events)) /\ \A i \in 1 .. Len(pieces) : IsBatch(pieces[i])
    /\ sends \in 0 .. MaxSends
    /\ rec \in [id : Nat, events : Seq(Events), from : {"none", "put", "log"},
                answer : {"none", "accepted", "400", "4xx"}]
    /\ IF rec.from = "none" THEN rec = NoRec ELSE IsBatch(rec.events)
    /\ made \in 0 .. MaxEvents /\ old \in 0 .. made /\ ids \in Nat /\ runs \in 1 .. MaxRuns
    /\ accepted \subseteq Events \X Nat
    /\ promised \subseteq Events
    /\ lost \subseteq Events \X Causes

\* An event is accepted under one batch id only, whatever is repeated: lost
\* answers, failed removals, splits, crashes, power losses. An endpoint that
\* ignores an id it has seen therefore counts no event twice
\* (doc.go:52-56; transport.go:46-47).
OneBatchPerEvent ==
    \A one, other \in accepted : one[1] = other[1] => one = other

\* An event for which put returned nil is in the log and in all that a power
\* loss may leave of it, until the endpoint has accepted it or it is counted as
\* failed, whatever fails in between. A batch refused whole leaves the log before
\* its halves are put; only there does the promise lapse (transport.go:48-74,
\* 239-253; batcher.go:513-525).
LoggedSurvives ==
    \A e \in promised :
        \/ \A v \in versions \union {log} : \E i \in 1 .. Len(v) : e \in ToSet(v[i].events)
        \/ \E a \in accepted : a[1] = e
        \/ \E l \in lost : l[1] = e

\* A batch that is refused for one of its events costs no other event: whatever
\* becomes of the halves, only what is invalid is lost to a 400, apart from the
\* split limit and from recovered batches, which are not split (batcher.go:478-483,
\* 513-525; doc.go:52-54: "so valid events still land").
ValidEventsLand == \A e \in Events : <<e, "400">> \in lost => e \in Invalid

\* No new event is sent while the log holds a record from before this pass: what
\* can overtake a retained batch is only what the same pass sends
\* (batcher.go:386-427; transport.go:169-173).
WalFirst ==
    step = "send" => \A i \in 1 .. Len(log) : log[i].id >= pass.first

---------------------------------------------------------------------------
(* The inductive invariant *)

Tried == [id |-> rec.id, events |-> rec.events]

\* the records that the process or a restart may still send
Kept == (UNION {ToSet(v) : v \in versions \union {log, todo}})
          \union (IF rec.from = "none" THEN {} ELSE {Tried})

\* the events not yet in a batch
Waiting == ToSet(queue) \union UNION {ToSet(pieces[i]) : i \in 1 .. Len(pieces)}

Holds(r, e) == e \in ToSet(r.events)
Spoiled(r) == \E e \in Invalid : Holds(r, e)

Ascending(s) == \A k, l \in 1 .. Len(s) : k < l => s[k] < s[l]
Precedes(s, t) == \A k \in 1 .. Len(s), l \in 1 .. Len(t) : s[k] < t[l]

\* recovery goes through the log from its oldest record, and only when it is
\* through is anything new sent; the last process never ends
PassOK ==
    /\ ~up => ~stopping /\ step = "idle"
    /\ ~up \/ stopping => runs < MaxRuns
    /\ pass.kind = "finish" \/ step \in {"persist", "done"} => stopping
    /\ rec.from = "log" => step = "recover"
    /\ rec.from = "put" => step = "send" /\ rec.id = ids
    /\ step = "recover" =>
          log = IF rec.from = "none" THEN todo ELSE <<Tried>> \o todo
    /\ step = "recover" /\ pass.kind = "size" => Len(queue) >= FlushSize
    /\ step \in {"recover", "send"} => pass.first <= ids + 1
    /\ step # "send" => pieces = <<>> /\ pass.left = 0
    /\ WalFirst

\* the answer to the record being sent is true
RecOK ==
    rec.from # "none" =>
        /\ rec.answer = "accepted" => \A e \in ToSet(rec.events) : <<e, rec.id>> \in accepted
        /\ rec.answer = "400" => Spoiled(Tried)

\* batches are numbered as they are put, events as they are enqueued
Numbered(v) == \A i, j \in 1 .. Len(v) : i < j => v[i].id < v[j].id

NumbersOK ==
    /\ Numbered(log) /\ \A v \in versions : Numbered(v)
    /\ \A r \in Kept : r.id <= ids /\ \A e \in ToSet(r.events) : e <= made
    /\ \A a \in accepted : a[1] <= made
    /\ \A e \in Waiting : e <= made

\* what waits is in order, each event once, behind the record just put
OrderOK ==
    /\ Ascending(queue)
    /\ \A i \in 1 .. Len(pieces) : Ascending(pieces[i]) /\ Precedes(pieces[i], queue)
    /\ \A i, j \in 1 .. Len(pieces) : i < j => Precedes(pieces[i], pieces[j])
    /\ rec.from = "put" =>
          /\ Ascending(rec.events) /\ Precedes(rec.events, queue)
          /\ \A i \in 1 .. Len(pieces) : Precedes(rec.events, pieces[i])

\* An id names one record. An event is in two records only if the older one was
\* split, and then it is spoiled: the endpoint accepts it no more than it did,
\* wherever it comes back from.
OnceOK ==
    /\ \A r, s \in Kept : r.id = s.id => r = s
    /\ \A r, s \in Kept :
          r.id < s.id => Spoiled(r) \/ \A e \in ToSet(r.events) : ~Holds(s, e)
    /\ \A r \in Kept, a \in accepted : Holds(r, a[1]) => a[2] = r.id \/ Spoiled(r)
    /\ \A e \in Waiting :
          /\ \A r \in Kept : Holds(r, e) => Spoiled(r)
          /\ \A a \in accepted : a[1] # e
    /\ rec.from = "put" =>
          \A a \in accepted : Holds(Tried, a[1]) => a[2] = rec.id /\ ~Spoiled(Tried)
    /\ OneBatchPerEvent

DeliveryInv ==
    /\ DeliveryTypeOK /\ PassOK /\ RecOK /\ NumbersOK /\ OrderOK /\ OnceOK
    /\ LoggedSurvives /\ ValidEventsLand

---------------------------------------------------------------------------
(* Progress *)

\* The loop goes on, its ticker too, a process that ended is started again, and
\* an outage of the endpoint or the disk is not for ever: again and again a
\* record that recovery meets is tried, one that is tried is answered, and its
\* removal succeeds.
DeliveryLive ==
    /\ DeliverySpec
    /\ WF_deliveryVars(Loop \/ SendRecord)
    /\ WF_deliveryVars(Exit) /\ WF_deliveryVars(Restart)
    /\ SF_deliveryVars(Replay)
    /\ SF_deliveryVars(rec.from = "log" /\ Answer)
    /\ SF_deliveryVars(rec.from = "log" /\ Resolve(TRUE))

\* Then the log is empty again and again: no record stays for ever, not even one
\* the endpoint refuses (batcher.go:406-427; transport.go:152-201).
LogDrains == []<>(log = <<>>)
=============================================================================
