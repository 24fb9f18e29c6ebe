------------------------ MODULE BatchStoreProperties ------------------------
(***************************************************************************)
(* What the write-ahead log must guarantee across errors and crashes.      *)
(***************************************************************************)
EXTENDS BatchStore

Entries == [count : 1 .. MaxEvents, until : Untils]
Records == [id : Batches, count : 1 .. MaxEvents, until : Untils]
Operations == [name : {"none", "put", "acknowledge", "pause"},
               step : {"none", "write", "parents", "sync"},
               batch : 0 .. MaxBatches, index : Nat,
               old : [count : 0 .. MaxEvents, until : Untils], parents : SUBSET Levels]
IsLog(s) == s \in Seq(Records) /\ Loads(s)

\* Every variable keeps its type; in particular the file, and whatever a power
\* loss may leave of it, is one that newFileBatchStore does not refuse
\* (persistence.go:81-95, 117-137).
StoreTypeOK ==
    /\ up \in BOOLEAN
    /\ order \in Seq(Batches)
    /\ DOMAIN records \subseteq Batches /\ records \in [DOMAIN records -> Entries]
    /\ pending \in 0 .. Limit
    /\ op \in Operations
    /\ IsLog(file) /\ \A v \in exposed : IsLog(v)
    /\ dirs \in [Levels -> {"absent", "volatile", "durable"}]
    /\ next \in 1 .. MaxBatches + 1
    /\ promised \subseteq Batches /\ acked \subseteq Batches

\* Between two operations memory and file agree, on the records, their order,
\* their pauses and the number of events: an error before the commit point
\* rolls memory back, one after it does not (persistence.go:138-143, 166-176,
\* 193-196; CHANGELOG.md:43-45).
MemoryMatchesFile ==
    Idle => /\ DOMAIN records = ToSet(order)
            /\ Content = file
            /\ pending = Total(file)

\* What put returned nil for and nobody acknowledged is in the file, and in
\* every version of it that a power loss may bring back, also after failed
\* operations, crashes and restarts, as long as the directory itself is not
\* lost (persistence.go:256-272).
PutSurvives ==
    \A b \in promised : \A v \in exposed \union {file} : \E i \in 1 .. Len(v) : v[i].id = b

\* Once acknowledge has returned nil, no crash or power loss brings the batch
\* back, so it is not delivered twice (persistence.go:147-178, 222-235).
AcknowledgedStaysGone ==
    \A b \in acked : \A v \in exposed \union {file} : \A i \in 1 .. Len(v) : v[i].id # b

---------------------------------------------------------------------------
(* The inductive invariant *)

BatchesOf(v) == {v[i].id : i \in 1 .. Len(v)}

\* what memory holds hangs together, also while an operation is under way
MemoryOK ==
    /\ DOMAIN records = ToSet(order)
    /\ \A i, j \in 1 .. Len(order) : order[i] = order[j] => i = j
    /\ pending = Total(Content)
    /\ ~up => order = <<>> /\ op = NoOp

\* batches are numbered as they are put
FreshOK ==
    /\ \A b \in DOMAIN records \union acked : b < next
    /\ \A v \in exposed : \A b \in BatchesOf(v) : b < next

\* Until an operation commits, memory is ahead of the file by its one change,
\* and op holds what takes it back; from then on they agree.
AheadOfFile ==
    LET r == [id |-> op.batch, count |-> op.old.count, until |-> op.old.until]
    IN \/ op.name = "put" /\ op.old.until = 0 /\ Content = Append(file, r)
       \/ /\ op.index \in 1 .. Len(file) /\ file[op.index] = r
          /\ \/ op.name = "acknowledge" /\ Content = RemoveAt(file, op.index)
             \/ /\ op.name = "pause"
                /\ \E u \in Untils : Content = [file EXCEPT ![op.index].until = u]

OperationOK ==
    /\ op.step = "none" => op = NoOp
    /\ op.step # "none" => op.name # "none" /\ op.batch \in Batches /\ op.batch < next
    /\ op.step \in {"write", "parents"} => AheadOfFile
    /\ up /\ op.step \in {"none", "sync"} => Content = file
    /\ op.name = "put" => op.batch \notin acked
    /\ op.step = "sync" =>
          /\ op.name = "put" => op.batch \in BatchesOf(file)
          /\ op.name = "acknowledge" => op.batch \notin BatchesOf(file)

\* there is no file without its directory
DiskOK ==
    /\ file \in exposed
    /\ (\E i \in Levels : dirs[i] = "absent") => file = <<>>
    /\ op.step = "parents" => \A i \in Levels : dirs[i] # "absent"

StoreInv ==
    /\ StoreTypeOK /\ MemoryOK /\ FreshOK /\ OperationOK /\ DiskOK
    /\ PutSurvives /\ AcknowledgedStaysGone

---------------------------------------------------------------------------
(* Refinement *)

\* a directory that was never synced may disappear with the file in it
Losable == (\E i \in Levels : dirs[i] = "volatile") \/ file = <<>>

Log == INSTANCE DurableLog
         WITH Records <- [id : Batches, count : 1 .. MaxEvents, until : {0}],
              Marks <- Untils, log <- file,
              versions <- exposed \union (IF Losable THEN {<<>>} ELSE {})

\* The store implements the durable log: each operation takes effect on one
\* record at one instant or not at all, whatever fails or crashes in between.
RefinesDurableLog == Log!LogSpec

---------------------------------------------------------------------------
(* A documented claim that does not hold *)

\* Every newly created parent is fsynced (CHANGELOG.md:45-47): once put has
\* returned nil for a batch still in the log, its directory survives a power loss.
PathIsDurable == promised # {} => \A i \in Levels : dirs[i] = "durable"
=============================================================================
