------------------------------ MODULE Transfer ------------------------------
(***************************************************************************)
(* What a transfer of one file promises the rest of the file cache, which  *)
(* is all that FileSync knows of MultipartUpload: the object is stored by  *)
(* nobody but a transfer that is sending, one that says it has succeeded   *)
(* has stored it, one that fails may have, and a progress record is left   *)
(* by a transfer alone.  Any number of transfers of the file may overlap.  *)
(***************************************************************************)
CONSTANT Sender

VARIABLES
    stage,   \* where each transfer is: "idle", "sending", "stored"
    object,  \* the complete object is on S3
    record   \* a progress record of the file exists

vars == <<stage, object, record>>

Init ==
    /\ stage = [s \in Sender |-> "idle"]
    /\ object = FALSE
    /\ record = FALSE

Passes(s, from, to) ==
    /\ stage[s] = from
    /\ stage' = [stage EXCEPT ![s] = to]

Begin(s) ==
    /\ Passes(s, "idle", "sending")
    /\ UNCHANGED <<object, record>>

Note ==
    /\ \E s \in Sender : stage[s] = "sending"
    /\ record' = TRUE
    /\ UNCHANGED <<stage, object>>

\* the record expires, turns out to be useless, or has served
Forget ==
    /\ record' = FALSE
    /\ UNCHANGED <<stage, object>>

Succeed(s) ==
    /\ Passes(s, "sending", "stored")
    /\ object' = TRUE
    /\ record' \in {record, FALSE}

\* what was sent may have got through all the same
Fail(s) ==
    /\ Passes(s, "sending", "idle")
    /\ object' \in {object, TRUE}
    /\ UNCHANGED record

Leave(s) ==
    /\ Passes(s, "stored", "idle")
    /\ record' \in {record, FALSE}
    /\ UNCHANGED object

\* the user deletes the file
Remove ==
    /\ object' = FALSE
    /\ UNCHANGED <<stage, record>>

\* the worker dies; what it was sending may get through
Crash ==
    /\ stage' = [s \in Sender |-> "idle"]
    /\ object' \in {object, object \/ \E s \in Sender : stage[s] = "sending"}
    /\ UNCHANGED record

Next ==
    \/ \E s \in Sender : Begin(s) \/ Succeed(s) \/ Fail(s) \/ Leave(s)
    \/ Note \/ Forget \/ Remove \/ Crash

Spec == Init /\ [][Next]_vars

=============================================================================
