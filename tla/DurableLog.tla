----------------------------- MODULE DurableLog -----------------------------
(***************************************************************************)
(* What the write-ahead log promises: it is a sequence of records; every   *)
(* mutation appends, removes or marks one record, all at once; and a power *)
(* loss leaves one of the versions that a sync has not yet ruled out.      *)
(***************************************************************************)
EXTENDS Integers, Sequences, SequencesExt

CONSTANTS Records, \* the records that can be appended, [id, count, until]
          Marks    \* what until may be set to

VARIABLES log,     \* the records, oldest first
          versions \* what a power loss may leave of them

logVars == <<log, versions>>

LogInit == log = <<>> /\ versions = {<<>>}

AppendRecord(r) ==
    /\ \A i \in 1 .. Len(log) : log[i].id # r.id
    /\ log' = Append(log, r)

RemoveRecord(i) == log' = RemoveAt(log, i)

MarkRecord(i, m) == log' = [log EXCEPT ![i].until = m]

\* what is visible is one more version, or the only one once it is synced
Exposed == versions' = versions \union {log'}
Synced == versions' = {log'}

Mutate ==
    /\ \/ \E r \in Records : AppendRecord(r)
       \/ \E i \in 1 .. Len(log) : RemoveRecord(i) \/ \E m \in Marks : MarkRecord(i, m)
    /\ Exposed

\* some version is ruled out; what is visible never is
Sync ==
    /\ log' = log
    /\ versions' \subseteq versions
    /\ log \in versions'

PowerLoss ==
    /\ log' \in versions
    /\ Synced

LogNext == Mutate \/ Sync \/ PowerLoss

LogSpec == LogInit /\ [][LogNext]_logVars
=============================================================================
