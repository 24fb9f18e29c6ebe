-------------------------- MODULE DeliveryContract --------------------------
(***************************************************************************)
(* What the SDK promises about every event, with no queue, batch or        *)
(* goroutine in sight: an event is accepted at most once and only while    *)
(* the client is open; its outcome is decided in the order of acceptance;  *)
(* it ends delivered or lost, or stays in the write-ahead log (retained)   *)
(* until a later recovery decides.  What an earlier process left in the    *)
(* log is decided before anything this process accepted is sent.           *)
(***************************************************************************)
EXTENDS Integers

CONSTANTS First, Last    \* events are First .. Last; those up to 0 come from the log

VARIABLES status,  \* what has become of each event
          open     \* the client accepts events

contractVars == <<status, open>>

Events == First .. Last
Status == {"absent", "accepted", "retained", "delivered", "lost"}

ContractInit ==
    /\ status = [e \in Events |-> IF e <= 0 THEN "retained" ELSE "absent"]
    /\ open = TRUE

\* the oldest events with status st, up to and including m
Oldest(st, m) == {e \in Events : e <= m /\ status[e] = st}

Becomes(S, st) == status' = [e \in Events |-> IF e \in S THEN st ELSE status[e]]

RestartOwnedLeft == \E e \in Events : e <= 0 /\ status[e] = "retained"

Accept ==
    /\ open
    /\ \E e \in Events :
          /\ status[e] = "absent"
          /\ \A d \in Events : d < e => status[d] # "absent"
          /\ Becomes({e}, "accepted")
    /\ UNCHANGED open

\* a batch of accepted events is sent, or put in the log
Dispatch ==
    /\ \E m \in Events, outcome \in {"delivered", "lost", "retained"} :
          /\ status[m] = "accepted"
          /\ RestartOwnedLeft => ~open /\ outcome # "delivered"
          /\ Becomes(Oldest("accepted", m), outcome)
    /\ UNCHANGED open

\* the oldest record of the log is replayed
Replay ==
    /\ \E m \in Events, outcome \in {"delivered", "lost"} :
          /\ status[m] = "retained"
          /\ Becomes(Oldest("retained", m), outcome)
    /\ UNCHANGED open

Close ==
    /\ open' = FALSE
    /\ UNCHANGED status

ContractNext == Accept \/ Dispatch \/ Replay \/ Close

ContractSpec == ContractInit /\ [][ContractNext]_contractVars
=============================================================================
