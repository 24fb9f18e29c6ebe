# A TLA+ model of the Alitycs Go SDK

This directory holds TLA+ specifications of the SDK in `src/`, the TLC
configurations that model-check them on small instances, and theorems about
them with proofs for TLAPS. Everything is translated from the Go source; line
numbers below are lines of the files under `src/`.

    tlc -workers 2 -config BatcherMemory.cfg MCBatcher.tla    # a run
    tlapm BatcherProofs.tla                                   # a proof module

The proof modules are `BatcherProofs`, `BatcherEventsProofs`, `BatcherCallersProofs`,
`BatchStoreProofs`, `ClientProofs`, `DeliveryProofs` and `TransportProofs`, with the
lemmas on sequences in `SequenceLemmas`.

## 1. The system

The SDK accepts analytics events from any goroutine, queues them in memory,
sends them in batches from one background goroutine, and, when a persistence
path is configured, keeps every batch in a write-ahead log (WAL) until its
outcome is known.

| component | state | operations | correct when |
|---|---|---|---|
| **Batcher** (`batcher.go`) | channels `events` and `flushRequests`, `stopCh`, `doneCh`, `pending`, nine atomic counters | `enqueue`, `reject`, `flush`, `stop`, `waitDone`, and the loop: size-triggered, ticker, flush and shutdown passes, recovery before every pass, `deliver` with splitting on HTTP 400, `persistPending` | every accepted event ends delivered, counted as failed, or in the log; order is kept; memory stays bounded; Flush, Shutdown and Stats report what happened; shutdown ends |
| **Client** (`alitycs.go`) | `closed` (under `stateMu`), `closeOnce`, global properties (under `globalsMu`) | `Track`, `Page`, `Identify`, `CaptureError`, `TrackRevenue`, `SetGlobalProperties`, `ClearGlobalProperties`, `Reset`, `Flush`, `Shutdown`, `Stats` | an accepted event precedes the stop signal; nothing is accepted after it; an event carries the identity it was made under |
| **Write-ahead log** (`persistence.go`) | `records`, `order`, `pending`, one file replaced as a whole | `newFileBatchStore`, `put`, `acknowledge`, `pause`, `snapshot` | what `put` promised survives errors, crashes and power loss; what was acknowledged never comes back; memory and file agree; every file written loads |
| **Transport** (`transport.go`) | none of its own (retry loop on the stack; pauses live in the WAL) | `send`, `persist`, `recover`, `sendRecord`, `post`, Retry-After and backoff | at-least-once with the same body; bounded attempts and waits; recovery sends oldest first and stops at the first record it cannot resolve |
| **Session manager** (`session.go`) | session, anonymous and user id, last activity (under `mu`) | `next`, `setUserID`, `reset`, `snapshot` | a session expires by inactivity, keeps the anonymous id and loses the user; after `reset` no id is shared |
| **Configuration** (`config.go`) | immutable after `New` | options, `newConfig` | limits are positive and `flushSize <= maxQueueSize` |
| **Events and revenue** (`event.go`) | immutable values | constructors, `Validate` | only consistent payloads pass |
| **Validation and serialization** (`utils.go`) | none | `serializeProps`, `validateEvent`, `generateID` | no event that would poison its batch is queued |
| **Runtime context** (`context.go`, `doc.go`) | constant | `collectContext` | - |
| **End-to-end program, tooling** (`e2e/`, `scripts/`) | - | - | - |

How they interact. A `Client` method takes `stateMu`, asks the session manager
for the identity, validates, and calls `batcher.enqueue`, holding the mutex to
the end; `TrackRevenue` rejects an invalid payload before that, without the
mutex. `enqueue` reserves a slot in the counter `unsent` by compare-and-swap
and sends the event on a buffered channel. The loop goroutine selects between
stop, an event, the ticker and a flush request. Every pass first calls
`transport.recover`, which replays the log, oldest record first, and reports
each resolved record through the callback `recordRecoveryProgress`; then it
sends `pending` in chunks of `flushSize` with `transport.send`, which puts the
record in the log, posts it with retries, and removes it. `Flush` posts a
request and waits for a reply or for `doneCh`; `Shutdown` sets `closed`, closes
`stopCh` and waits for `doneCh` or its own deadline.

What is hard here, and what tests hardly reach:

- counters that are read one after another by one goroutine and written one
  after another by a second one (`enqueue`'s admission, the deadline report);
- the recursion of `deliver` on HTTP 400, with the split limit in its middle;
- a blocked recovery at shutdown, which turns sending into persisting;
- Flush requests that cross with passes, with the shutdown and with a
  caller's context;
- errors before and after the commit point of a file replacement, crashes and
  power loss between any two file-system calls.

`PROJECT.json` lists each of these hazards at its line, with the properties
that cover it.

## 2. The modules

| module | what it is |
|---|---|
| `Batcher` | the queue, the callers and the loop: state, one action per step |
| `BatcherProperties` | types, safety properties, the inductive invariant, the documented claims that fail, fairness and liveness, the refinement mapping |
| `DeliveryContract` | abstract specification: what the SDK promises for each event |
| `MCBatcher` | what the runs of the batcher instantiate (symmetry) |
| `BatcherProofs` | types, the structure of the queue, and the slots: theorems about `Batcher` |
| `BatcherEventsProofs` | theorems about its events: none vanishes, order, counters, budget |
| `BatcherCallersProofs` | theorems about what its callers are told, and the refinement of `DeliveryContract` |
| `BatchStore` | the WAL, one file-system call at a time, with crash and power loss |
| `BatchStoreProperties` | its properties, inductive invariant and refinement mapping |
| `DurableLog` | abstract specification: an atomic durable log |
| `MCBatchStore` | what the runs of the store instantiate |
| `BatchStoreProofs` | the theorems about `BatchStore` and their proofs |
| `Transport` | `send`, `persist` and `recover`: attempts, waits, Retry-After, pauses |
| `TransportProperties` | its properties, inductive invariant, fairness and the claim that fails |
| `MCTransport` | what the runs of the transport instantiate |
| `TransportProofs` | the theorems about `Transport` and their proofs |
| `Client` | the client's methods and the session manager, called from several goroutines |
| `ClientProperties` | its properties, inductive invariant and fairness |
| `MCClient` | what the run of the client instantiates |
| `ClientProofs` | the theorems about `Client` and their proofs |
| `Delivery` | batch loop, transport and log composed, from process to process |
| `DeliveryProperties` | what happens to an event on its whole way; inductive invariant, fairness |
| `MCDelivery` | what the run of the composition instantiates |
| `DeliveryProofs` | the theorems about `Delivery` and their proofs |
| `SequenceLemmas` | what cutting, removing, appending and prepending do to a sequence |

Definitions whose comment starts with `mutant:` are deliberately broken
variants of the definition that follows. They take no part in the
specification; each shows that a property notices the bug it is there for
(`mutants` in `PROJECT.json` pairs them).

### Batcher

*Processes.* `Client.enqueue` holds `stateMu` from the closed check to the end
of `batcher.enqueue`, so at most one call is in there: the one `track` process
stands for all of them. `Reject` is enabled at any time because `TrackRevenue`
calls `reject` without the mutex. Each Flush and each Shutdown call is a process
of its own. The loop goroutine is one process whose program counter is `pc`.

*Grain.* Every load, add and compare-and-swap of an atomic counter that another
goroutine can observe half way is an action: `TrackBegin` ... `TrackCount` are
the three loads, the compare-and-swap, the channel send and the final add of
`enqueue`; `Settle` and `Account` the two adds that `deliver` makes for every
outcome; `CountFailed` ... `CountOwned` the adds of `recordRecoveryProgress`;
`DeadlineFailed` ... `DeadlineReturn` the loads of `undeliveredAtDeadline`. The
store is touched by the loop alone, so `transport.send`, `persist` and `recover`
are reduced to their outcomes, and the log to the sequence `wal`.

*deliver.* Its recursion is a stack: `chunk` is the batch the pass cut off,
`settled` how much of its front has an outcome, `ends` where the unresolved
pieces end. Splitting pushes the middle of the first piece. `sendsLeft` is
`remainingSends`.

| code | actions |
|---|---|
| `batcher.enqueue` 135-157 | `TrackBegin`, `TrackLoadOwned`, `TrackAdmit`, `TrackReserve`, `TrackSend`, `TrackCount` |
| `batcher.reject` | `Reject` |
| `batcher.flush` 159-184 | `FlushCall`, `FlushEnqueue`, `FlushReply`, `FlushClosed`, `FlushAbandon` |
| `Client.Shutdown`, `stop`, `waitDone` 186-231 | `ShutdownClose`, `ShutdownStop`, `ShutdownAgain`, `WaitDone` |
| `undeliveredAtDeadline` 449-463 | `DeadlineFailed`, `DeadlineRecoveryFailed`, `DeadlineDelivered`, `DeadlineReturn` |
| `loop` 255-299 | `LoopStop`, `LoopEvent`, `LoopTick`, `LoopFlush` |
| `recoverBeforeSend`, `transport.recover` | `RecoverEnds`, `RecoverBlocked`, `RecoverDelivered`, `RecoverTerminal` |
| `recordRecoveryProgress` 429-447 | `CountFailed`, `CountRecoveryFailed`, `CountDurable`, `CountDelivered`, `CountOwned` |
| `sendPending`, `finish`, `persistPending` 301-404 | `PassBlocked`, `PersistPending`, `StartChunks`, `NextChunk`, `NoMoreChunks` |
| `deliver` 484-541 with `transport.send`, `persist` | `SplitLimit`, `SendDelivered`, `SendTerminal`, `SendSplit`, `SendRetained`, `SendFailed`, `SendUnstored`, `Persisted`, `NotPersisted`, `Settle`, `Account` |
| `replyPendingFlushes`, `close(doneCh)` | `ReplyPendingFlush`, `NoPendingFlush`, `CloseDone` |

*Data.* An event is the number of its acceptance; events of the log at start
have the numbers `1 - Recovered .. 0`. A log entry carries the batch it belongs
to, so that a recovery resolves whole records. Errors are reduced to nil, error,
closed and context ended. `confirmed` and `lost` are history variables:
`confirmed` holds the events counted as delivered; a batch the endpoint accepted
but whose record could not be removed is retained, and will be sent again, as
in the code (`transport.go:227-236`).

### BatchStore

The mutex of the store serialises its operations, so one is under way (`op`);
the steps of `writeLocked` are actions because each can fail and because the
process can crash between any two. `file` is what the running system sees,
`exposed` the versions a power loss may leave because the directory has not
been synced since; `dirs` says for each directory on the path whether its own
entry is durable. `Crash` loses memory, `PowerLoss` also everything that was not
synced. `Restart` is `newFileBatchStore`, which refuses a file with a repeated
id or over the limit. The platform is one on which directories can be synced
(the code tolerates others, 312-325).

### Transport

The loop goroutine makes one call of `send`, `persist` or `recover` at a time;
`pc` and `call` are where it is and its local variables. The log is the atomic
one of `DurableLog`: `put`, `acknowledge` and `pause` each answer `ok`, `warned`
(the file was replaced, a later sync failed: `persistenceMutationCommitted`) or
`failed` (nothing changed). `enabled`, chosen at the start, says whether there
is a log at all; without one every answer is `ok` and nothing is kept.

| code | actions |
|---|---|
| `send` 50-73, `persist` 75-85 | `Send`, `Persist` |
| `recover` 152-201 | `Recover`, `RecoverEnds`, `RecoverCancelled`, `ClampPause`, `Defer`, `Replay` |
| `post` 295-325 | `PostAccepted`, `PostRefused`, `PostFailed`, `PostThrottled` |
| `sendRecord` 208-223, 257-265 | `Retry`, `WaitOver`, `WaitCancelled`, `Exhausted` |
| `sendRecord` 226-254 | `AckAccepted`, `AckRefused` |
| a context that ends, time, clocks, a crash | `Cancel`, `Tick`, `ClockSet`, `Crash` |

*Time* is relative: a wait, a pause and what the endpoint asked for are what is
left of them, and `Tick` takes one unit from each. `ClockSet` changes the pauses
that are deadlines of the wall clock and leaves the timers alone, as in Go. Zero
is a value of Retry-After. A 429 without the header is a `PostFailed`, which
also covers a network error whose batch arrived.

*History.* `told` is what the batcher was told of each record, `owed` how long
the endpoint still wants to be left alone with it, `excuse` why that may not be
known, `doubt` the accepted records of which the SDK may not know.

### Client

*Processes.* Each goroutine in `Callers` makes one call at a time. Three mutexes
guard the state, and an action is what a goroutine does while it holds one:
`sessionManager.mu` and a reading `globalsMu` are taken and given back within an
action, `stateMu` (`stateMu`) and a writing `globalsMu` (`writer`) are held
across actions. `NextIdentity` and `Accept` are two actions, because a `Reset`,
an `Identify` or an update of the global properties can come between the
identity and the properties of an event.

| code | actions |
|---|---|
| `Track` and its variants 66-103, 119-134 | `Track` |
| `Identify` 105-117, `setUserID` (`session.go:54-60`) | `Identify` |
| `Reset` 165-169, `reset`, `create` (`session.go:63-82`) | `Reset` |
| `SetGlobalProperties`, `ClearGlobalProperties` 136-163 | `SetGlobals`, `WriteGlobal`, `GlobalsSet`, `ClearGlobals` |
| `enqueue` 234-284 | `Lock`, `Ignore`, `Accept`, `Refuse` |
| `next` (`session.go:34-51`) | `NextIdentity` |
| closing, inactivity | `Shutdown`, `Expire` |

*Data.* Session and anonymous ids are numbered as `create` generates them; 0
stands for the empty anonymous id that `Reset` passes. Of the time since the
last activity only `expired` remains, whether it exceeds the timeout. A global
property's value is the number of the update it is from. `past` and the fields
of `call` from `begun` on are history.

### Delivery

Each of the modules above looks into one component and takes the others as
choices. `Delivery` reduces each to what the others see of it, and adds what
none has: the way of an event through several batches and processes. The log is
the one of `DurableLog`, which `BatchStore` implements (run `store`): `Delivery`
instantiates it and uses its `AppendRecord`, `RemoveRecord`, `Synced`, `Exposed`
and `PowerLoss`. The directory of the log is taken to be durable (finding 4
shows when it is not). A send is its last answer, however many attempts there
were; an accepted batch whose answer was lost is `Arrive`.

| code | actions |
|---|---|
| a pass and its trigger, `batcher.go:255-427` | `BeginPass`, `Recovered`, `EndPass` |
| `recover`, `transport.go:152-201` | `Replay`, `Defer` |
| `sendChunk`, `deliver` 485-541 | `TakeChunk`, `PutPiece`, `SplitLimit`, `Isolate` |
| `persistPending` 386-404 | `PersistChunk`, `PersistDone` |
| `sendRecord`, `transport.go:203-265` | `Arrive`, `Accept`, `Refuse`, `GiveUp`, `Confirm`, `Discard`, `AcknowledgeFails` |
| the environment | `Enqueue`, `Stop`, `Age`, `Exit`, `Crash`, `PowerLoss`, `Restart` |

*The endpoint* is the one `batcher.go:469-471` describes: 400 means that some
event is invalid, and a batch with an invalid event is never accepted. `Poison`
are events that `validateEvent` overlooks, `old` counts those that have got
older than `maxEventAgeDays` since it looked at them.

## 3. What is checked

| run | instance | what it shows |
|---|---|---|
| `memory` | no log; queue 3, batches of 2, 3 calls, 2 Flush, 1 Shutdown with a deadline | `TypeOK`, `UnsentAccounted`, `NoEventVanishes`, `FlushNilMeansDelivered`, `ShutdownNilMeansDelivered`, `DeadlineReportCovers` |
| `durable` | log with 1 event at start; queue 2, batches of 2, 4 calls, 1 Flush whose context may end, 2 Shutdown | `BatcherInv`, `InOrder`, `LedgerBalanced`, `OvershootBounded`, `NothingStranded`, `RefinesContract` |
| `live` | log, ticker; queue 2, 1 call, 2 Flush, 1 Shutdown; fairness | `ShutdownCompletes`, `EveryFlushReturns`, `NoEventStarves` |
| `store` | limit 3 events, 3 batches of 1 or 2, 2 directories | `StoreTypeOK`, `MemoryMatchesFile`, `PutSurvives`, `AcknowledgedStaysGone`, `RefinesDurableLog` |
| `transport` | 1 retry, waits up to 2 units, pauses up to 3, 2 records; fairness | `TransportTypeOK`, `PauseHonoured`, `RecoveryInStep`, `ResultTrue`, `ToldTruth`, `RepeatOnlyInDoubt`, `DeferralBounded`, `CallsReturn` |
| `client` | 2 goroutines making 3 calls, 2 users, 2 keys, any number of timeouts; fairness | `ClientTypeOK`, `SnapshotsInOrder`, `ResetSeparates`, `IdentifyOwnUser`, `SessionLifetime`, `EveryCallReturns` |
| `delivery` | 3 events, batches of 3, 3 sends to a split, 1 poisoned event, 2 processes; fairness | `DeliveryTypeOK`, `OneBatchPerEvent`, `LoggedSurvives`, `ValidEventsLand`, `WalFirst`, `LogDrains` |
| `budget_race` | finding 1 | `WithinBudget` is violated |
| `deadline_race` | finding 2 | `DeadlineReportCovers` is violated |
| `flush_nil` | finding 3 | `FlushNilMeansAccepted` is violated |
| `store_path` | finding 4 | `PathIsDurable` is violated |
| `retry_after` | finding 5 | `RetryAfterHonoured` is violated |

*The abstract specifications.* `DeliveryContract` knows events and their status
only: accepted in order and only while open; batches of the oldest accepted
events become delivered, lost or retained; the oldest retained events are
replayed; nothing of this process is delivered while the log holds something of
an earlier one. `DurableLog` knows a sequence that changes by one record at a
time and the versions a power loss may leave. TLC
shows on the instances, and the theorems `BatcherRefines` and `StoreRefines` for
all, that the detailed modules implement them.

*Bounds.* `MaxCalls` bounds the enqueueing calls. Three calls against a queue of
three fill a batch, leave a remainder and split a batch into halves; four
against a queue of two and a log with one event also run into the limit of the
queue and of the log. One Flush in service and one waiting exhaust
`flushRequests` (capacity 1 here, 1000 in the code; a full channel is the case of
interest). A split limit of 2 and 3 (64 in the code) stops the recursion at its
third and fourth send. `MaxBatches`, `MaxEvents` and `MaxVersions` bound the store: three batches
are enough for a first, a middle and a last record, two events in one of them
to tell events from batches, and three unsynced versions to have two failed
syncs in a row. The transport needs one retry to carry a Retry-After from one
attempt to the next and to exhaust, two records to have one behind the one being
recovered, and suggestions below, at and above the ceiling; `Far` lets a clock
show a pause beyond it. Three calls of two goroutines put one call between the
two halves of another, or between two others; time may run out at any point, as
often as it likes. In `Delivery` a batch of three is split, and split again,
until the split limit ends it, and two processes have one crash between them;
the second one goes on for ever. No property is about a bound.

*Fairness* (`BatcherProperties!Fairness`). Weak fairness for the loop's own
steps (`LoopWork`): Go schedules a runnable goroutine eventually, and every send
is bounded: attempts are finite, waits capped, and the endpoint's outcome is a
choice, never a condition. Strong fairness for the cases of the select: Go
picks at random among those that are ready. Weak fairness for a call that is
inside `enqueue`, for the request and reply of a Flush, and for the call of
`stop` after `closed` is set. Nothing obliges a caller to call, a context to end
or the endpoint to accept. The transport assumes weak fairness of its own steps
and of `Tick`: a post ends because the HTTP client has a timeout (`config.go:128-138` insists), a timer fires
because time passes. The client assumes strong fairness of each goroutine that
is inside a call, because Go's mutexes starve nobody who waits; nobody has to
call. `Delivery` assumes weak fairness of the loop (its ticker included), of the
end of a process and of the start of the next, and that an outage does not last
for ever: a record that recovery meets again and again is tried again and again,
one tried again and again is answered, and its removal succeeds. Without the
last of these the log may never drain, which is as it should be.

## 4. What is proved

Every theorem holds for every value of the constants that the named assumption
allows; the assumptions are what `newConfig`, `newFileBatchStore` and the
constants of the code guarantee. Every inductive invariant was model-checked on
the instance of its run before it was proved.

### Batcher: types and slots (`BatcherProofs`, from `ConfigAssumption`)

| theorem | statement |
|---|---|
| `TypeCorrect` | `Spec => []TypeOK` |
| `QueueStructure` | `Spec => []QueueInv` |
| `UnsentCorrect` | `Spec => []UnsentAccounted` |
| `SlotExists` | `Spec => []ReservedSlotExists` |

The inductive invariant is `IInv == TypeOK /\ QueueInv /\ UnsentAccounted`. None
of the three is inductive alone. `TypeOK` needs `JobOK`: settling a piece takes
the head of `ends`, which is a number only if `ends` is not empty while a piece
is under way. `UnsentAccounted` needs `CallOK` for its upper bound: the
compare-and-swap compares `unsent` alone, and what makes a stale sum of three
loads sufficient is that the other two were not negative. That they never are
is `LogCounted`: apart from the batch in transit (`InTransit`), the log holds
exactly what `recoveryOwned` and `durableCurrent` count, and the two are not
positive together before a blocked shutdown. The proof has one lemma per group
of actions for the types, one for the invariant, and `NextInv` combines them.
`SlotExists` then follows from the accounting: an admitted call still holds its
slot, so the channel holds fewer events than the queue limit, and the default
branch of `enqueue` (151-156) is dead code. `ReservedSlotExists` is not a
property of a run: the theorem covers it.

### Batcher: events (`BatcherEventsProofs`, from `ConfigAssumption`)

| theorem | statement |
|---|---|
| `EventsInvariance` | `Spec => []EInv` |
| `NoneVanishes` | `Spec => []NoEventVanishes` |
| `BacklogInOrder` | `Spec => []InOrder` |
| `LedgerCorrect` | `Spec => []LedgerBalanced` |
| `OvershootIsBounded` | `Spec => []OvershootBounded` |

`EInv == IInv /\ EventsOK`. The properties speak of sets of events and of their
sizes in some states; `EventsOK` (`BatcherProperties`) gives the one picture they
come from, at every step. Its parts, each resting on the ones before:

- `MemoryOK`: chunk, pending and channel are one run of consecutive numbers that
  ends with `LastAccepted`. An event is therefore decided or not by its number:
  `LastDecided` is the border. While a piece is being accounted for, its outcome
  is known and `settled` has not moved yet, hence the cases of `Decided`.
- `PartitionOK`: what lies below the border is confirmed, lost or in the log, and
  only one of these, and the log is in order. A decision moves the border by one
  piece and adds exactly these numbers to one of the three; a replay moves the
  oldest record out of the log. `NoEventVanishes` and `InOrder` follow.
- `OwnedOK`: the entries of an earlier process are the oldest `Owned` ones. The
  counter `recoveryOwned` lags behind from the replay to `CountOwned`, and `Owned`
  says by how much.
- `BooksOK`: the counters are the sizes of those sets but for what is due, that
  is decided and not yet counted. `LedgerBalanced` is the case of nothing due.
- `BudgetOK`: `Outstanding`, in memory and log together, exceeds the limit by at
  most a batch, and leaves room for a call that is admitted. For the three loads
  of `enqueue` it says what each one still bounds when the next is made. It needs
  `BooksOK` to turn the counters into `Outstanding`.

One group of lemmas per part treats the actions by what they do to it: decide a
piece, replay a record, account for either, move events within memory, or leave
memory and log aside (`Aside`).

### Batcher: callers (`BatcherCallersProofs`, from `ConfigAssumption`)

| theorem | statement |
|---|---|
| `CallersInvariance` | `Spec => []CInv` |
| `BatcherCorrect` | `Spec => []BatcherInv` |
| `NoneStranded` | `Spec => []NothingStranded` |
| `FlushNilCorrect` | `Spec => []FlushNilMeansDelivered` |
| `ShutdownNilCorrect` | `Spec => []ShutdownNilMeansDelivered` |
| `DeadlineCovers` | `Recovered = 0 => (Spec => []DeadlineReportCovers)` |
| `BatcherRefines` | `Spec => RefinesContract` |

`CInv == EInv /\ CallersOK` is the inductive invariant of the whole batcher. Run
`durable` checks `BatcherInv`, which is all of it but `TypeOK` and `UnsentAccounted`;
those two are checked by run `memory`. Its parts:

- `ClosedOK`: closed before stopped, stopped before any wait, and a loop that has
  left its passes has left nothing in channel and pending. With `PartitionOK` it
  gives `NothingStranded`.
- `RequestsOK`: a Flush call has at most one request, in the channel or being
  served, so that an answer is to the call it is about.
- `FlushOK`: what the pass that serves a call has achieved (`Served`). Everything
  the call waits for has left the channel when the pass starts, so a pass that
  runs to its end decides all of it; a loss makes the pass report an error; and
  a pass without error that sends a chunk has emptied the log first. A nil
  therefore means what `FlushNilMeansDelivered` says.
- `ShutdownOK`: nil is given when the loop is gone and the counters show neither a
  loss nor something left in the log. By `BooksOK` everything is confirmed, and
  by `ClosedOK` nothing is accepted later.
- `DeadlineOK`: after each load, the sum so far still bounds what is left,
  however far the loop has got since. It holds for a log that was empty at
  the start, and `DeadlineCovers` says so. This is all there is to prove: with a
  recovered event the property is false (finding 2, run `deadline_race`).
- `CallsOK`: no more calls than `MaxCalls`, so that the numbers of the events are in
  the range of the contract.

For the refinement, the status of an event is a function of the border and of
the three sets (`StatusCases`). A decision is `Dispatch`, a replay `Replay`, the
send on the channel `Accept`, closing `Close`, and everything else a stutter
(`StepRefinesContract`). That `Dispatch` delivers nothing while recovered events
are left is `FlushOK` and `OwnedOK` together: sending starts with an empty log.

### Client (`ClientProofs`, from `ClientAssumption`)

| theorem | statement |
|---|---|
| `ClientInvariance` | `ClientSpec => []ClientInv` |
| `ClientTypeCorrect` | `ClientSpec => []ClientTypeOK` |
| `SnapshotOrder` | `ClientSpec => []SnapshotsInOrder` |
| `ResetCorrect` | `ClientSpec => []ResetSeparates` |
| `IdentifyCorrect` | `ClientSpec => []IdentifyOwnUser` |
| `LifetimeCorrect` | `ClientSpec => []SessionLifetime` |

`ClientInv` adds to the types who holds which mutex (`LocksOK`), what the session
may be (`SessionOK`), how far each call has come (`CallsOK`) and what was sent
(`SentOK`). `SnapshotsInOrder` is not inductive as it stands, for it speaks of
events that are in the queue only: `Before` strengthens it by the one event
whose identity has been taken and whose properties have not. The theorems hold
for any number of goroutines, which the run cannot show.

### Delivery (`DeliveryProofs`, from `DeliveryAssumption`)

| theorem | statement |
|---|---|
| `DeliveryInvariance` | `DeliverySpec => []DeliveryInv` |
| `DeliveryTypeCorrect` | `DeliverySpec => []DeliveryTypeOK` |
| `OnceCorrect` | `DeliverySpec => []OneBatchPerEvent` |
| `LoggedCorrect` | `DeliverySpec => []LoggedSurvives` |
| `ValidCorrect` | `DeliverySpec => []ValidEventsLand` |
| `WalFirstCorrect` | `DeliverySpec => []WalFirst` |

`DeliveryInv` consists of the types, the state of the pass (`PassOK`), the record
in hand (`RecOK`), the numbering of events and batches (`NumbersOK`), their order
in memory, in the log and on disk (`OrderOK`), `OnceOK`, `LoggedSurvives` and
`ValidEventsLand`. `OneBatchPerEvent` rests on `OnceOK`: two records that are
kept somewhere share an event only if the older of them was refused, and an id
names one record, in memory, in the log and in what a power loss may leave of
it. That a lone event is never split rests on `RecOK` (a refused batch has an
invalid event) and `PassOK` (the pieces cover the chunk).

### Transport (`TransportProofs`, from `TransportAssumption`)

| theorem | statement |
|---|---|
| `TransportInvariance` | `TransportSpec => []TransportInv` |
| `TransportTypeCorrect` | `TransportSpec => []TransportTypeOK` |
| `StepCorrect` | `TransportSpec => []RecoveryInStep` |
| `ResultCorrect` | `TransportSpec => []ResultTrue` |
| `TruthCorrect` | `TransportSpec => []ToldTruth` |
| `RepeatCorrect` | `TransportSpec => []RepeatOnlyInDoubt` |
| `PauseCorrect` | `TransportSpec => []PauseHonoured` |
| `DeferralCorrect` | `TransportSpec => DeferralBounded` |

`PauseHonoured` speaks of the moment of a post only. `PausesOK` says where what
the endpoint asked for is kept in between: in the pause in the log, in the wait
under way, or in the hint that becomes the next wait (`PauseLeft`). `DoubtOK` does
the same for `RepeatOnlyInDoubt`: an accepted record is in doubt, dealt with, or
the one whose removal comes next. `LogOK` (ids grow along the log) makes the
place of a record unique, so that removing or pausing one leaves the others as
they are. `DeferralBounded` is an action property and follows from `Defer` in a
state of the invariant.

### BatchStore (`BatchStoreProofs`, from `StoreAssumption`)

| theorem | statement |
|---|---|
| `StoreInvariance` | `StoreSpec => []StoreInv` |
| `StoreTypeCorrect` | `StoreSpec => []StoreTypeOK` |
| `MemoryCorrect` | `StoreSpec => []MemoryMatchesFile` |
| `PutCorrect` | `StoreSpec => []PutSurvives` |
| `GoneCorrect` | `StoreSpec => []AcknowledgedStaysGone` |
| `StoreRefines` | `StoreSpec => RefinesDurableLog` |

`MemoryMatchesFile` speaks of the moments between two operations only. Within one,
memory is ahead of the file by exactly the change the operation makes, and `op`
holds what takes it back (`AheadOfFile`, part of `OperationOK`); `MemoryOK` says
that order, records and the number of events agree with each other at every
moment. From these follow both ends of an operation: an error before the commit
point restores what the file has (`AbortInv`), and the new version differs from
the file by one record (`AheadBatches`, `CommitInv`). `FreshOK` (batches are
numbered as they are put) keeps a put from bringing an acknowledged batch back,
and `DiskOK` (no file without its directory) makes `MkdirAll` a stutter of the
durable log.

How many events a sequence holds (`Total`) is a recursive definition, and what it
does to an appended, removed or marked record needs induction. The lemma
`SetInduction` gets it, for a set instead of a predicate, from the
well-foundedness of `<` on the naturals.

`StoreRefines` maps the commit points to `Mutate`, the syncs of a directory to
`Sync` and the power loss to `PowerLoss`; every other step leaves the log and its
versions as they are.

### Only model-checked

Liveness under fairness (`ShutdownCompletes`, `EveryFlushReturns`,
`NoEventStarves`, `CallsReturn`, `EveryCallReturns`, `LogDrains`): the prover has
no rules for fairness (`ENABLED`). Every other property of a passing run is a
theorem, `DeadlineReportCovers` under its hypothesis.

## 5. Findings

1. **Admission over the budget** (`batcher.go:137`, run `budget_race`). `enqueue`
   loads `unsent` and `durableCurrent` one after another; `deliver` (527-530)
   releases a retained batch from the first and then adds it to the second. A
   call in between counts the batch nowhere, and more than `maxQueueSize` events
   sit unsent, against `config.go:86-87` and `CHANGELOG.md:49-50`.
   `OvershootBounded` shows that the excess is at most one batch.
2. **Deadline report too low** (`batcher.go:457`, run `deadline_race`). The report
   reads `failed` while recovery has counted a lost event of an earlier process
   there and not yet in `recoveryFailed`, against `batcher.go:84-87` and
   `alitycs.go:183-186`. Without recovered events the report is never too low
   (run `memory`).
3. **Flush returns nil over a lost event** (`batcher.go:295`, run `flush_nil`). A
   size-triggered batch may lose an event after Flush was called and before its
   request is served; the request reports the failures of its own pass only,
   against `alitycs.go:171-174`. What does hold is `FlushNilMeansDelivered`.
4. **A parent directory that is never synced** (`persistence.go:297`, run
   `store_path`). If the sync of a new parent fails, the next `put` finds the
   directory there, does not sync it, and returns nil, against
   `CHANGELOG.md:45-47`.
5. **A cancelled call forgets Retry-After** (`transport.go:221`, run
   `retry_after`). The pause is stored only when the retries are exhausted
   (258-262). If the context ends during the wait, the batch stays in the log
   without one and the next pass posts it at once, against `transport.go:45-46`
   and `CHANGELOG.md:33-34`. `PauseHonoured` shows that this, a failed write, a
   wrong clock and a crash are the only ways to be early.

Observed without a run:

- `jitter` (`transport.go:365-367`) widens a delay that `backoffDelay` has capped at
  10 s up to 12 s, where `doc.go:63` says capped at 10 seconds. The model's bound
  on waits (`TransportTypeOK`) is the widened one.
- `Identify` on an expired session revives it: `setUserID` (`session.go:54-60`)
  records activity without the test that `next` makes, so a session outlives the
  inactivity that `session.go:15-17` and `config.go:111-112` describe.
  `SessionLifetime` shows that nothing else does.
- An `Identify` or `Reset` of another goroutine between `alitycs.go:110` and 272
  gives the identify event another user or none. `IdentifyOwnUser` shows that
  this and a whole timeout are the only ways.
- `mergeProperties` reads `len(c.globals)` without `globalsMu` (`alitycs.go:288`), a
  data race. The value is the capacity hint of `make` only: no outcome of the
  race changes what is merged.
- The timestamp is taken at `alitycs.go:266` and compared with the clock again at
  `utils.go:109`: a wall clock that steps back between the two rejects a valid
  event. A name of blanks passes `utils.go:99`, where `doc.go:42` speaks of a
  non-blank one.
- A refused batch leaves the log before its halves are put (`transport.go:242`,
  `batcher.go:519`): a crash in between loses its valid events. `LoggedSurvives`
  says what is left of the promise there.
- The budget in `drainChannel` (`batcher.go:372`) never stops it: the slots bound
  channel, pending and chunk together by `maxQueueSize`, so every drain empties the
  channel (lemma `DrainsAll` in `BatcherCallersProofs`).
- A recovered batch with one invalid event is discarded whole (`transport.go:183-193`),
  where `doc.go:52-54` says that valid events still land. `ValidEventsLand` shows
  that this and the split limit are the only ways for a valid event to be lost
  with an invalid one.

## 6. Not modelled

- Wording of errors, `lastCause`, logging, JSON encoding, HTTP details: no
  property depends on them.
- Option setters, event constructors, `validateRevenue`, `validateEvent`,
  `serializeProps`: pure functions of one value, each a list of independent
  conditions. They decide between enqueue and reject, which `Batcher` and
  `Client` take as a choice; a specification of them would say the same again.
  The limits that `newConfig` enforces are the assumptions on the constants.
- What `Delivery` leaves out because another module has it: pauses and attempts
  (`Transport`), the limit of the log (`BatchStore`, `Batcher`), the counters
  and the queue's bound (`Batcher`). A batch of a dead process that reaches the
  endpoint after its successor has started is the same as one that arrived
  before the crash, for everything that is said here.
- An event that crosses `maxEventAgeDays` during one send: `Delivery!Age` waits for the
  record in hand, since a send lasts seconds to minutes. `OneBatchPerEvent` rests on it.
- A pause that has run out and that a clock set back brings to life again
  (`Transport!ClockSet` changes pauses that are still running): recovery would wait
  longer than it has to, no further than the ceiling of `DeferralBounded`.
- The log file removed from outside (`persistence.go:226-227`).
- Platforms without directory sync, and two processes on one log: the code
  takes no lock on the file, and `doc.go:63-64` requires one process per path.
- Runtime context, end-to-end program and scripts: no behaviour of the SDK.

## 7. Plan

1. `Batcher`, `DeliveryContract`, their runs and proofs - done.
2. `BatchStore`, `DurableLog`, their runs and proofs - done.
3. `Transport` and its runs - done.
4. `Client` and its run - done.
5. `Delivery` and its run - done.
6. Proofs of `Client`, `Transport`, `Delivery` - done.
7. Proofs about the events and the callers of `Batcher`, and its refinement - done.
   Every safety property of every passing run is proved; liveness stays with TLC.
