----------------------------- MODULE BatchStore -----------------------------
(***************************************************************************)
(* fileBatchStore (src/persistence.go), the write-ahead log: records in    *)
(* memory, mirrored in one file that every mutation replaces as a whole.   *)
(*                                                                         *)
(* The mutex serialises the operations, so one is under way at a time; its *)
(* file-system calls are steps of their own, because the process may crash *)
(* and the power may fail between any two of them, and because each may    *)
(* return an error. The platform is one where directories can be synced.   *)
(*                                                                         *)
(* Batches are numbered in the order they are put. Calls that change       *)
(* nothing (an unknown id, an identical record) are left out.              *)
(***************************************************************************)
EXTENDS Integers, Sequences, FiniteSets, SequencesExt

CONSTANTS
    Limit,       \* maxPendingEvents
    MaxBatches,  \* bound: calls of put
    MaxEvents,   \* bound: events in a batch
    MaxVersions, \* bound: versions not ruled out by a sync when a call begins
    Depth        \* directories on the path that may have to be created

ASSUME StoreAssumption ==
    /\ Limit \in Nat \ {0} /\ MaxBatches \in Nat
    /\ MaxEvents \in Nat \ {0} /\ MaxVersions \in Nat \ {0} /\ Depth \in Nat

VARIABLES
    up,        \* the process runs
    order,     \* store.order
    records,   \* store.records, without the id
    pending,   \* store.pending
    op,        \* the operation under way: what it has left to do, how to undo it
    file,      \* the visible content of the file; <<>> when it does not exist
    exposed,   \* versions of the file that its directory may have after a power loss
    dirs,      \* the directories on the path, the outermost first
    next,      \* history: number of the next batch
    promised,  \* history: put returned nil, and no acknowledge has removed it
    acked      \* history: acknowledge returned nil after removing it

memory  == <<order, records, pending>>
disk    == <<file, exposed, dirs>>
history == <<next, promised, acked>>
storeVars == <<up, memory, op, disk, history>>

Batches == 1 .. MaxBatches
Untils == {0, 1}  \* PausedUntilMS: not paused, paused
Levels == 1 .. Depth

\* the events in a sequence of records
Total(s) ==
    LET sum[n \in 0 .. Len(s)] == IF n = 0 THEN 0 ELSE sum[n - 1] + s[n].count
    IN sum[Len(s)]

Without(b) == [c \in DOMAIN records \ {b} |-> records[c]]
With(b, r) == [c \in DOMAIN records \union {b} |-> IF c = b THEN r ELSE records[c]]

\* What writeLocked writes: the records in their order. Every id of the order
\* has its record (MemoryMatchesFile), so the test for that leaves none out.
Content ==
    [i \in 1 .. Len(order) |->
        [id |-> order[i], count |-> records[order[i]].count, until |-> records[order[i]].until]]

NoOp == [name |-> "none", step |-> "none", batch |-> 0, index |-> 0,
         old |-> [count |-> 0, until |-> 0], parents |-> {}]

Idle == up /\ op = NoOp

\* the process starts on a path whose outermost directories may exist already
StoreInit ==
    /\ up = TRUE
    /\ order = <<>> /\ records = <<>> /\ pending = 0
    /\ op = NoOp
    /\ file = <<>> /\ exposed = {<<>>}
    /\ \E k \in 0 .. Depth : dirs = [i \in Levels |-> IF i <= k THEN "durable" ELSE "absent"]
    /\ next = 1 /\ promised = {} /\ acked = {}

---------------------------------------------------------------------------
(* put, acknowledge, pause: the change in memory comes first *)

Begin(name, b, index, old) ==
    /\ Idle
    /\ Cardinality(exposed) <= MaxVersions
    /\ op' = [NoOp EXCEPT !.name = name, !.step = "write", !.batch = b,
                          !.index = index, !.old = old]
    /\ UNCHANGED <<up, disk, promised, acked>>

PutOverLimit ==
    /\ Idle
    /\ next <= MaxBatches
    /\ \E count \in 1 .. MaxEvents : pending + count > Limit
    /\ next' = next + 1
    /\ UNCHANGED <<up, memory, op, disk, promised, acked>>

FitsCalls(count) == Len(order) < Limit  \* mutant: batches are limited, not events
Fits(count) == pending + count <= Limit

Put ==
    /\ next <= MaxBatches
    /\ \E count \in 1 .. MaxEvents :
          /\ Fits(count)
          /\ records' = With(next, [count |-> count, until |-> 0])
          /\ pending' = pending + count
          /\ Begin("put", next, Len(order) + 1, [count |-> count, until |-> 0])
    /\ order' = Append(order, next)
    /\ next' = next + 1

Acknowledge ==
    /\ \E i \in 1 .. Len(order) :
          LET b == order[i]
          IN /\ order' = RemoveAt(order, i)
             /\ records' = Without(b)
             /\ pending' = pending - records[b].count
             /\ Begin("acknowledge", b, i, records[b])
    /\ UNCHANGED next

Pause ==
    /\ \E i \in 1 .. Len(order), until \in Untils :
          LET b == order[i]
          IN /\ records' = [records EXCEPT ![b].until = until]
             /\ Begin("pause", b, i, records[b])
    /\ UNCHANGED <<order, pending, next>>

---------------------------------------------------------------------------
(* How an operation ends *)

UndoneAtEnd == Append(order, op.batch)      \* mutant: a rolled-back record comes last
Reinserted == InsertAt(order, op.index, op.batch)

UnpausedKept == records                     \* mutant: the new pause stays in memory
Unpaused == [records EXCEPT ![op.batch] = op.old]

\* an error before the commit point: memory is put back as it was
Abort ==
    /\ \/ /\ op.name = "put"
          /\ order' = Front(order)
          /\ records' = Without(op.batch)
          /\ pending' = pending - op.old.count
       \/ /\ op.name = "acknowledge"
          /\ order' = Reinserted
          /\ records' = With(op.batch, op.old)
          /\ pending' = pending + op.old.count
       \/ /\ op.name = "pause"
          /\ records' = Unpaused
          /\ UNCHANGED <<order, pending>>
    /\ op' = NoOp
    /\ UNCHANGED <<up, file, exposed, history>>

\* nil
Succeed ==
    /\ promised' = IF op.name = "put" THEN promised \union {op.batch} ELSE promised
    /\ acked' = IF op.name = "acknowledge" THEN acked \union {op.batch} ELSE acked
    /\ op' = NoOp

---------------------------------------------------------------------------
(* writeLocked, one file-system call at a time *)

At(step) == up /\ op.step = step

Proceed(step) ==
    /\ op' = [op EXCEPT !.step = step]
    /\ UNCHANGED <<up, memory>>

\* the new version becomes visible: the commit point
Commit(version) ==
    /\ file' = version
    /\ exposed' = exposed \union {version}
    /\ promised' = IF op.name = "acknowledge" THEN promised \ {op.batch} ELSE promised
    /\ UNCHANGED <<dirs, next, acked>>

RemoveFileUnsynced ==  \* mutant: the directory is not synced
    /\ At("write")
    /\ records = <<>>
    /\ file' = <<>>
    /\ exposed' = exposed \union {<<>>}
    /\ promised' = promised \ {op.batch}
    /\ acked' = acked \union {op.batch}
    /\ op' = NoOp
    /\ UNCHANGED <<up, memory, dirs, next>>

\* no record is left: the file is removed
RemoveFile ==
    /\ At("write")
    /\ records = <<>>
    /\ Commit(<<>>)
    /\ Proceed("sync")

RemoveFails ==
    /\ At("write")
    /\ records = <<>>
    /\ Abort
    /\ UNCHANGED dirs

Missing == {i \in Levels : dirs[i] = "absent"}

\* MkdirAll, which changes nothing when the whole path exists
MakeDirectories ==
    /\ At("write")
    /\ records # <<>>
    /\ dirs' = [i \in Levels |-> IF i \in Missing THEN "volatile" ELSE dirs[i]]
    /\ op' = [op EXCEPT !.step = "parents", !.parents = Missing]
    /\ UNCHANGED <<up, memory, file, exposed, history>>

\* some directories may have been made before the error
MakeDirectoriesFails ==
    /\ At("write")
    /\ records # <<>>
    /\ \E k \in Levels :
          /\ k \in Missing
          /\ dirs' = [i \in Levels |-> IF i \in Missing /\ i < k THEN "volatile" ELSE dirs[i]]
    /\ Abort

Outermost == CHOOSE i \in op.parents : \A j \in op.parents : i <= j

\* the parent of a directory just made is synced, the outermost first
SyncParent ==
    /\ At("parents")
    /\ op.parents # {}
    /\ dirs' = [dirs EXCEPT ![Outermost] = "durable"]
    /\ op' = [op EXCEPT !.parents = @ \ {Outermost}]
    /\ UNCHANGED <<up, memory, file, exposed, history>>

SyncParentFails ==
    /\ At("parents")
    /\ op.parents # {}
    /\ Abort
    /\ UNCHANGED dirs

\* the temporary file is written, synced and renamed
Replace ==
    /\ At("parents")
    /\ op.parents = {}
    /\ Commit(Content)
    /\ Proceed("sync")

ReplaceFails ==
    /\ At("parents")
    /\ op.parents = {}
    /\ Abort
    /\ UNCHANGED dirs

SyncFile ==
    /\ At("sync")
    /\ exposed' = {file}
    /\ Succeed
    /\ UNCHANGED <<up, memory, file, dirs, next>>

SyncFileFailsQuietly ==  \* mutant: the error is swallowed
    /\ At("sync")
    /\ Succeed
    /\ UNCHANGED <<up, memory, disk, next>>

\* a committed error: memory keeps what the file now holds
SyncFileFails ==
    /\ At("sync")
    /\ op' = NoOp
    /\ UNCHANGED <<up, memory, disk, history>>

---------------------------------------------------------------------------
(* The environment: crash, power loss, restart *)

Down ==
    /\ up' = FALSE
    /\ order' = <<>> /\ records' = <<>> /\ pending' = 0
    /\ op' = NoOp
    /\ UNCHANGED <<next, acked>>

Crash ==
    /\ up
    /\ Down
    /\ UNCHANGED <<disk, promised>>

\* Only the k outermost directories remain; one whose entry was synced
\* disappears only with a directory above it. What goes with a directory is no
\* longer in promised: PathIsDurable is about that.
PowerLoss ==
    /\ Down
    /\ \E k \in 0 .. Depth :
          /\ \A i \in 1 .. k : dirs[i] # "absent"
          /\ k < Depth => dirs[k + 1] # "durable"
          /\ dirs' = [i \in Levels |-> IF i <= k THEN "durable" ELSE "absent"]
          /\ file' \in (IF k = Depth THEN exposed ELSE {<<>>})
          /\ promised' = IF k = Depth THEN promised ELSE {}
    /\ exposed' = {file'}

Distinct(s) == \A i, j \in 1 .. Len(s) : s[i].id = s[j].id => i = j
Loads(s) == Distinct(s) /\ Total(s) <= Limit

\* newFileBatchStore, which refuses a file with a repeated id or too many events
Restart ==
    /\ ~up
    /\ Loads(file)
    /\ up' = TRUE
    /\ order' = [i \in 1 .. Len(file) |-> file[i].id]
    /\ records' = [b \in {file[i].id : i \in 1 .. Len(file)} |->
                     LET r == CHOOSE r \in {file[i] : i \in 1 .. Len(file)} : r.id = b
                     IN [count |-> r.count, until |-> r.until]]
    /\ pending' = Total(file)
    /\ UNCHANGED <<op, disk, history>>

---------------------------------------------------------------------------

Operation == PutOverLimit \/ Put \/ Acknowledge \/ Pause

WriteLocked ==
    \/ RemoveFile \/ RemoveFails
    \/ MakeDirectories \/ MakeDirectoriesFails
    \/ SyncParent \/ SyncParentFails
    \/ Replace \/ ReplaceFails
    \/ SyncFile \/ SyncFileFails

StoreNext == Operation \/ WriteLocked \/ Crash \/ PowerLoss \/ Restart

StoreSpec == StoreInit /\ [][StoreNext]_storeVars
=============================================================================
