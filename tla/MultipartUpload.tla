--------------------------- MODULE MultipartUpload ---------------------------
(***************************************************************************)
(* The multipart upload of one large file: _uploadMultipart, the progress  *)
(* record it keeps in IndexedDB, and S3's side of it.  Several uploads of  *)
(* the file may run at once, since resumeInterruptedUploads takes no lock  *)
(* and a timed-out transfer runs on.  They share the record, which is      *)
(* found by the file's key and never checked for whose upload it is.       *)
(***************************************************************************)
EXTENDS Integers, FiniteSets, FiniteSetsExt

CONSTANTS
    Uploader,   \* transfers of the file that may run at once
    NParts,     \* totalParts
    MaxIds,     \* bound on the multipart uploads S3 is asked to create
    MaxAgain,   \* bound on transfers begun when the object is stored already
    MaxFaults,  \* bound on failed requests, lost answers and forgotten uploads
    MaxCrashes  \* bound on deaths of the worker

ASSUME PartAssumption == NParts \in Nat \ {0}
ASSUME BoundAssumption ==
    MaxIds \in Nat \ {0} /\ MaxAgain \in Nat /\ MaxFaults \in Nat /\ MaxCrashes \in Nat

Part == 1..NParts
Id == 1..MaxIds
NoId == 0

VARIABLES
    record,   \* uploadParts: the upload and the parts it believes done
    open,     \* S3: uploads created and neither completed nor dropped
    held,     \* S3: the parts each upload holds
    nextId,   \* S3: the next upload id
    object,   \* S3: the parts the stored object was put together from
    pc,       \* where each transfer is
    id,       \* uploadId of each transfer
    have,     \* its completedParts
    again,    \* transfers begun when the object was stored already
    faults,
    crashes

serverVars == <<open, held, nextId, object>>
counters == <<again, faults, crashes>>
vars == <<record, serverVars, pc, id, have, counters>>

Records == [id : Id \union {NoId}, done : SUBSET Part]
NoRecord == [id |-> NoId, done |-> {}]

Init ==
    /\ record = NoRecord
    /\ open = {} /\ held = [i \in Id |-> {}] /\ nextId = 1 /\ object = {}
    /\ pc = [u \in Uploader |-> "idle"]
    /\ id = [u \in Uploader |-> NoId]
    /\ have = [u \in Uploader |-> {}]
    /\ again = 0 /\ faults = 0 /\ crashes = 0

-----------------------------------------------------------------------------

GoTo(u, s) == pc' = [pc EXCEPT ![u] = s]

Fault == faults < MaxFaults /\ faults' = faults + 1

\* the transfer ends; what it recorded stays
End(u) ==
    /\ GoTo(u, "idle")
    /\ id' = [id EXCEPT ![u] = NoId]
    /\ have' = [have EXCEPT ![u] = {}]

\* progressRepo.get: a record of the same file is a candidate to resume.  S3 is not asked
\* for the object, which may be there: the record may name an upload that was completed.
Begin(u) ==
    /\ pc[u] = "idle"
    /\ IF object = {} THEN UNCHANGED again ELSE again < MaxAgain /\ again' = again + 1
    /\ GoTo(u, IF record = NoRecord THEN "create" ELSE "verify")
    /\ id' = [id EXCEPT ![u] = record.id]
    /\ have' = [have EXCEPT ![u] = record.done]
    /\ UNCHANGED <<record, serverVars, faults, crashes>>

\* A request fails before S3 has acted, or the transfer is aborted: the error is passed on.
\* A local write that fails leaves what a lost answer of the request before it leaves.
RequestFails(u) ==
    /\ pc[u] \in {"create", "parts"}
    /\ Fault /\ End(u)
    /\ UNCHANGED <<record, serverVars, again, crashes>>

\* a plausible slip: the local record is believed
ConfirmedLocally(u) == have[u]

\* the parts taken as done: those S3 confirms
Confirmed(u) == have[u] \intersect held[id[u]]

\* listParts answers for an upload it still knows
Verify(u) ==
    /\ pc[u] = "verify" /\ id[u] \in open
    /\ have' = [have EXCEPT ![u] = Confirmed(u)]
    /\ GoTo(u, "parts")
    /\ UNCHANGED <<record, serverVars, id, counters>>

\* listParts throws, for whatever reason: start afresh, and drop the record
CannotResume(u) ==
    /\ pc[u] = "verify"
    /\ IF id[u] \in open THEN Fault ELSE UNCHANGED faults
    /\ record' = NoRecord
    /\ GoTo(u, "create")
    /\ UNCHANGED <<serverVars, id, have, again, crashes>>

\* createMultipartUpload; the answer may be lost
Create(u) ==
    /\ pc[u] = "create" /\ nextId \in Id
    /\ open' = open \union {nextId}
    /\ nextId' = nextId + 1
    /\ \/ /\ GoTo(u, "record")
          /\ id' = [id EXCEPT ![u] = nextId]
          /\ have' = [have EXCEPT ![u] = {}]
          /\ UNCHANGED faults
       \/ Fault /\ End(u)
    /\ UNCHANGED <<record, held, object, again, crashes>>

\* progressRepo.create replaces whatever record there was
MakeRecord(u) ==
    /\ pc[u] = "record"
    /\ record' = [id |-> id[u], done |-> {}]
    /\ GoTo(u, "parts")
    /\ UNCHANGED <<serverVars, id, have, counters>>

\* the loop is over
AllParts(u) == Part \subseteq have[u]

\* a plausible slip: parts counted from zero
NextPartFromZero(u) == Cardinality(have[u])

\* the loop goes up by part number and skips what is done
NextPart(u) == Min(Part \ have[u])

SendPart(u) ==
    /\ pc[u] = "parts" /\ ~AllParts(u) /\ id[u] \in open
    /\ held' = [held EXCEPT ![id[u]] = @ \union {NextPart(u)}]
    /\ \/ GoTo(u, "mark") /\ UNCHANGED <<id, have, faults>>
       \/ Fault /\ End(u)
    /\ UNCHANGED <<record, open, nextId, object, again, crashes>>

\* a plausible slip: the part is added to the parts known here, and these are stored
MarkPartStale(u) ==
    /\ pc[u] = "mark"
    /\ record # NoRecord
    /\ record' = [record EXCEPT !.done = have[u] \union {NextPart(u)}]
    /\ have' = [have EXCEPT ![u] = @ \union {NextPart(u)}]
    /\ GoTo(u, "parts")
    /\ UNCHANGED <<serverVars, id, counters>>

\* markPartCompleted changes the record of the file, and throws if there is none
MarkPart(u) ==
    /\ pc[u] = "mark"
    /\ \/ /\ record # NoRecord
          /\ record' = [record EXCEPT !.done = @ \union {NextPart(u)}]
          /\ have' = [have EXCEPT ![u] = @ \union {NextPart(u)}]
          /\ GoTo(u, "parts")
          /\ UNCHANGED id
       \/ record = NoRecord /\ End(u) /\ UNCHANGED record
    /\ UNCHANGED <<serverVars, counters>>

\* S3 puts the object together if it holds every part the request names
Complete(u) ==
    /\ pc[u] = "parts" /\ AllParts(u)
    /\ id[u] \in open /\ have[u] \subseteq held[id[u]]
    /\ object' = have[u]
    /\ open' = open \ {id[u]}
    /\ \/ GoTo(u, "clear") /\ UNCHANGED <<id, have, faults>>
       \/ Fault /\ End(u)
    /\ UNCHANGED <<record, held, nextId, again, crashes>>

\* a plausible slip: an upload that is gone is taken for one that was completed
RefusedAsDone(u) ==
    /\ pc[u] = "parts"
    /\ id[u] \notin open \/ (AllParts(u) /\ ~(have[u] \subseteq held[id[u]]))
    /\ GoTo(u, "clear")
    /\ UNCHANGED <<record, serverVars, id, have, counters>>

\* NoSuchUpload for an upload that is gone, InvalidPart for a part it lacks
Refused(u) ==
    /\ pc[u] = "parts"
    /\ id[u] \notin open \/ (AllParts(u) /\ ~(have[u] \subseteq held[id[u]]))
    /\ End(u)
    /\ UNCHANGED <<record, serverVars, counters>>

\* progressRepo.delete, again by the file's key
Clear(u) ==
    /\ pc[u] = "clear"
    /\ record' = NoRecord
    /\ End(u)
    /\ UNCHANGED <<serverVars, counters>>

-----------------------------------------------------------------------------

\* a record older than seven days: its upload is aborted (which may fail) and it goes
Expire ==
    /\ record # NoRecord /\ Fault
    /\ open' \in {open, open \ {record.id}}
    /\ record' = NoRecord
    /\ UNCHANGED <<held, nextId, object, pc, id, have, again, crashes>>

\* S3 drops an incomplete upload by a lifecycle rule of its own
Drop(i) ==
    /\ i \in open /\ Fault
    /\ open' = open \ {i}
    /\ UNCHANGED <<record, held, nextId, object, pc, id, have, again, crashes>>

\* the worker dies: only the record and S3 remain
Crash ==
    /\ crashes < MaxCrashes
    /\ crashes' = crashes + 1
    /\ pc' = [u \in Uploader |-> "idle"]
    /\ id' = [u \in Uploader |-> NoId]
    /\ have' = [u \in Uploader |-> {}]
    /\ UNCHANGED <<record, serverVars, again, faults>>

\* what a transfer under way does
Goes(u) ==
    \/ Verify(u) \/ CannotResume(u) \/ Create(u) \/ MakeRecord(u)
    \/ SendPart(u) \/ MarkPart(u) \/ Complete(u) \/ Refused(u) \/ Clear(u)

Step(u) == Begin(u) \/ RequestFails(u) \/ Goes(u)

Next ==
    \/ \E u \in Uploader : Step(u)
    \/ Expire \/ Crash
    \/ \E i \in Id : Drop(i)

(* A transfer that was begun goes on: promises settle and S3 answers.      *)
(* Whether one is begun is up to the user: nothing in the code tries a     *)
(* file again by itself (auto-sync is disabled, index.ts:279).              *)
Fairness == \A u \in Uploader : WF_vars(Goes(u))

Spec == Init /\ [][Next]_vars /\ Fairness

-----------------------------------------------------------------------------

TypeOK ==
    /\ record \in Records
    /\ open \subseteq Id /\ held \in [Id -> SUBSET Part] /\ nextId \in 1..(MaxIds + 1)
    /\ object \subseteq Part
    /\ pc \in [Uploader -> {"idle", "verify", "create", "record", "parts", "mark", "clear"}]
    /\ id \in [Uploader -> Id \union {NoId}]
    /\ have \in [Uploader -> SUBSET Part]
    /\ again \in 0..MaxAgain /\ faults \in 0..MaxFaults /\ crashes \in 0..MaxCrashes

(* What a transfer counts as done, S3 holds for that very upload, although *)
(* the record it resumed from mixes the parts of every upload of the file. *)
HaveIsConfirmed ==
    \A u \in Uploader : pc[u] \in {"parts", "mark"} => have[u] \subseteq held[id[u]]

(* What a transfer has done stays recorded for whoever resumes its upload: *)
(* while the record names the upload, transfers that share it, each with a *)
(* completedParts of its own, lose none of each other's parts.             *)
ProgressIsKept ==
    \A u \in Uploader :
        pc[u] \in {"parts", "mark"} /\ record.id = id[u] => have[u] \subseteq record.done

(* No file is turned down for good: unless everybody gives up in the end,  *)
(* it is stored, whatever crashes, faults and misleading records came in   *)
(* between and whichever upload of the file the record speaks of.          *)
EventuallyStored ==
    <>(object = Part) \/ <>[](\A u \in Uploader : pc[u] = "idle")

(* Where a transfer is, for those who asked for it. *)
Stage(u) ==
    CASE pc[u] = "idle" -> "idle"
      [] pc[u] = "clear" -> "stored"
      [] OTHER -> "sending"

Outside == INSTANCE Transfer WITH
    Sender <- Uploader,
    stage <- [u \in Uploader |-> Stage(u)],
    object <- object = Part,
    record <- record # NoRecord

(* However transfers of the file share, lose and replace its record, each  *)
(* keeps what Transfer promises, which is what FileSync builds upon: it    *)
(* succeeds only with the whole object stored, and only a transfer that is *)
(* still sending stores it or leaves a record behind.                      *)
ImplementsTransfer == Outside!Spec

=============================================================================
