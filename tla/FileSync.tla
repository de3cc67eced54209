------------------------------ MODULE FileSync ------------------------------
(***************************************************************************)
(* The offline-first file cache: how one file written by the user reaches  *)
(* S3.  Every lock, dedup entry and status is kept per file, so one file   *)
(* stands for all of them; what a transfer does inside is the module       *)
(* MultipartUpload.                                                        *)
(*                                                                         *)
(* Calls of PersistenceLayer run concurrently: uploadFile, the background  *)
(* sync that downloadFile starts, syncPendingFiles, resumeInterruptedUp-   *)
(* loads, deleteFile, the download itself and the evictions.  A call is a  *)
(* caller and, where withSyncLock runs a function for it, a body.  The     *)
(* two part company when the lock times out: the caller goes on with an    *)
(* error, the next in line enters, and the body still runs.                *)
(*                                                                         *)
(* Content is addressed by its MD5, so two writes of the file are equal.   *)
(***************************************************************************)
EXTENDS Integers, Sequences, FiniteSets, SequencesExt

CONSTANTS
    NoOp,
    Op,          \* calls; each is used once
    Kinds,       \* the kinds of call the instance explores
    MaxRetry,    \* MAX_RETRY_COUNT
    MaxCrashes,  \* bound on deaths of the worker
    MayClose     \* may the last tab close the layer

AllKinds == {"upload", "background", "batch", "resume", "delete", "download", "evict"}

ASSUME OpAssumption == NoOp \notin Op
ASSUME BoundAssumption == MaxRetry \in Nat /\ MaxCrashes \in Nat
ASSUME ChoiceAssumption == Kinds \subseteq AllKinds /\ MayClose \in BOOLEAN

VARIABLES
    status,      \* syncStatus of the cached entry, "none" when there is no entry
    retries,     \* its retryCount
    object,      \* S3 holds the complete object
    partial,     \* uploadParts holds a progress record for the file
    chain,       \* _syncLocks: the promise chain of the file, its holder first
    inFlight,    \* syncInFlight: the call whose upload the others join
    kind,
    caller,      \* where the call itself is
    body,        \* where the function it gave to withSyncLock is
    aborted,     \* calls whose AbortSignal has fired, the user's or the layer's
    layer,       \* the PersistenceLayer: "open", "closing", "closed"
    guardClosed, \* the LifecycleGuard of the FileCacheRepository singleton
    recovery,    \* recoverStaleSyncing: "idle", "read", "write"
    crashes,
    wanted,      \* ghost: the user saved the file, undisturbed, and has not deleted it since
    abandoned    \* ghost: an aborted transfer left 'syncing' behind on purpose

entryVars == <<status, retries, abandoned>>
lockVars == <<chain, inFlight, caller, body>>
lifeVars == <<layer, guardClosed, recovery, crashes>>
vars == <<entryVars, object, partial, lockVars, kind, aborted, lifeVars, wanted>>

Status == {"none", "pending", "syncing", "synced", "failed"}
Outcomes == {"ok", "abort", "error"}

Init ==
    /\ status = "none" /\ retries = 0 /\ abandoned = FALSE
    /\ object = FALSE /\ partial = FALSE
    /\ chain = <<>> /\ inFlight = NoOp
    /\ kind = [o \in Op |-> "none"]
    /\ caller = [o \in Op |-> "free"]
    /\ body = [o \in Op |-> "idle"]
    /\ aborted = {}
    /\ layer = "open" /\ guardClosed = FALSE /\ recovery = "read"
    /\ crashes = 0 /\ wanted = FALSE

-----------------------------------------------------------------------------
(* The entry. *)

\* a plausible slip: going back to 'pending' gives back an attempt that was never counted
SetStatusRefunds(to) ==
    /\ status' = to
    /\ retries' = CASE to = "failed" -> retries + 1
                    [] to = "pending" -> retries - 1
                    [] OTHER -> retries
    /\ abandoned' = FALSE

\* updateSyncStatus
SetStatus(to) ==
    /\ status' = to
    /\ retries' = IF to = "failed" THEN retries + 1 ELSE retries
    /\ abandoned' = FALSE

\* put: the whole entry is replaced
Write(to) == status' = to /\ retries' = 0 /\ abandoned' = FALSE

CanMove(from) == ~guardClosed /\ status \in from

Move(from, to) == IF CanMove(from) THEN SetStatus(to) ELSE UNCHANGED entryVars

-----------------------------------------------------------------------------
(* The lock and the dedup map. *)

GoTo(o, c) == caller' = [caller EXCEPT ![o] = c]

Enqueue(o, c) ==
    /\ chain' = Append(chain, o)
    /\ GoTo(o, c)
    /\ body' = [body EXCEPT ![o] = "queued"]
    /\ UNCHANGED inFlight

Holds(o) == chain # <<>> /\ Head(chain) = o
Waiting(o) == o \in Range(chain)

\* a plausible slip: an aborted upload returns as if its status had never changed
AfterNoRollback(o, outcome) ==
    CASE caller[o] = "resuming" -> IF kind[o] = "batch" THEN "listing" ELSE "done"
      [] caller[o] = "undoing" -> "done"
      [] outcome # "error" \/ kind[o] = "background" -> "done"
      [] OTHER -> "mark"

\* where a call goes when the function it gave to the lock has ended
After(o, outcome) ==
    CASE caller[o] = "resuming" -> IF kind[o] = "batch" THEN "listing" ELSE "done"
      [] caller[o] = "undoing" -> "done"
      [] outcome = "ok" \/ kind[o] = "background" -> "done"
      [] outcome = "abort" -> IF kind[o] = "upload" THEN "rollback" ELSE "done"
      [] OTHER -> "mark"

\* a plausible slip: those that joined are forgotten
JoinedForgotten(o) == {}

Joined(o) == IF inFlight = o THEN {p \in Op : body[p] = "joined"} ELSE {}

\* the promise of o's body settles, and with it those that joined it; whoever of
\* them holds the lock (the others in the chain have not run) lets the next one in
Settle(o, outcome) ==
    LET ends == {o} \union Joined(o) IN
    /\ body' = [p \in Op |-> IF p \in ends THEN "idle" ELSE body[p]]
    /\ caller' = [p \in Op |-> IF p \in ends /\ (Waiting(p) \/ caller[p] = "resuming")
                               THEN After(p, outcome) ELSE caller[p]]
    /\ chain' = IF chain # <<>> /\ Head(chain) \in ends THEN Tail(chain) ELSE chain
    /\ inFlight' = IF inFlight = o THEN NoOp ELSE inFlight

\* the transfer begins; uploadFile and syncPendingFiles enter the dedup map
Send(o) ==
    /\ body' = [body EXCEPT ![o] = "send"]
    /\ inFlight' = IF kind[o] = "background" THEN inFlight ELSE o
    /\ UNCHANGED <<chain, caller>>

\* a plausible slip: callers do not look for an upload already under way
JoinsNever(o) == FALSE

Joins(o) == kind[o] \in {"upload", "batch"} /\ inFlight # NoOp

Join(o) ==
    /\ body' = [body EXCEPT ![o] = "joined"]
    /\ UNCHANGED <<chain, inFlight, caller>>

\* which states a transfer may start from
Fetchable == {"pending", "failed"}

\* withSyncLock lets the next in line run the function it was given
Start(o) ==
    /\ Holds(o) /\ body[o] = "queued"
    /\ \/ /\ caller[o] = "undoing"
          /\ Move({"syncing"}, "pending")
          /\ Settle(o, "ok")
       \/ /\ caller[o] # "undoing" /\ Joins(o)
          /\ Join(o)
          /\ UNCHANGED entryVars
       \/ /\ caller[o] # "undoing" /\ ~Joins(o) /\ kind[o] = "upload"
          /\ Move({"pending"}, "syncing")
          /\ IF guardClosed THEN Settle(o, "error") ELSE Send(o)
       \/ /\ caller[o] # "undoing" /\ ~Joins(o) /\ kind[o] # "upload"
          /\ Move(IF o \in aborted THEN {} ELSE Fetchable, "syncing")
          /\ CASE guardClosed -> Settle(o, "error")
               [] o \in aborted -> Settle(o, "abort")
               [] status \in Fetchable -> Send(o)
               [] OTHER -> Settle(o, "error")
    /\ UNCHANGED <<object, partial, kind, aborted, lifeVars, wanted>>

\* the lock gives up on its holder after SYNC_LOCK_TIMEOUT_MS; the function runs on
LockTimeout(o) ==
    /\ Holds(o) /\ body[o] # "queued"
    /\ chain' = Tail(chain)
    /\ GoTo(o, After(o, "error"))
    /\ UNCHANGED <<entryVars, object, partial, inFlight, body, kind, aborted, lifeVars, wanted>>

-----------------------------------------------------------------------------
(* The transfer. *)

InTransaction(o) == kind[o] \in {"background", "batch"} /\ caller[o] # "resuming"

\* a multipart upload writes its progress record (a small file never does)
Record(o) ==
    /\ body[o] = "send" /\ ~partial
    /\ partial' = TRUE
    /\ UNCHANGED <<entryVars, object, lockVars, kind, aborted, lifeVars, wanted>>

Sent(o) ==
    /\ body[o] = "send"
    /\ object' = TRUE /\ partial' = FALSE
    /\ body' = [body EXCEPT ![o] = "commit"]
    /\ UNCHANGED <<entryVars, chain, inFlight, caller, kind, aborted, lifeVars, wanted>>

\* S3 refuses, or its answer is lost after the object was stored
SendFails(o) ==
    /\ body[o] = "send"
    /\ object' \in {object, TRUE}
    /\ IF InTransaction(o) THEN Move({"syncing"}, "failed") ELSE UNCHANGED entryVars
    /\ Settle(o, "error")
    /\ UNCHANGED <<partial, kind, aborted, lifeVars, wanted>>

\* the signal each transfer was given: the user's, the lock's, or the layer's
Signalled(o) ==
    /\ caller[o] # "resuming"
    /\ o \in aborted \/ (kind[o] = "background" /\ ~Waiting(o))

SendAborts(o) ==
    /\ body[o] = "send" /\ Signalled(o)
    /\ object' \in {object, TRUE}
    /\ abandoned' = (abandoned \/ (InTransaction(o) /\ status = "syncing"))
    /\ Settle(o, "abort")
    /\ UNCHANGED <<status, retries, partial, kind, aborted, lifeVars, wanted>>

\* the states success may be recorded over
Recordable(o) == IF caller[o] = "resuming" THEN {"pending", "syncing"} ELSE {"syncing"}

\* the status is set to 'synced'; a transaction repeats an attempt that was refused
Commit(o) ==
    /\ body[o] = "commit"
    /\ Move(Recordable(o), "synced")
    /\ Settle(o, IF guardClosed /\ ~InTransaction(o) THEN "error" ELSE "ok")
    /\ UNCHANGED <<object, partial, kind, aborted, lifeVars, wanted>>

-----------------------------------------------------------------------------
(* uploadFile. *)

Begin(o, k) ==
    /\ caller[o] = "free" /\ k \in Kinds /\ layer # "closed" /\ ~guardClosed
    /\ kind' = [kind EXCEPT ![o] = k]

BeginUpload(o) ==
    /\ Begin(o, "upload")
    /\ GoTo(o, "put")
    /\ UNCHANGED <<entryVars, object, partial, chain, inFlight, body, aborted, lifeVars, wanted>>

\* what the code has no protection against: a removal of the file as it was before,
\* or a transfer of it whose object has been deleted and whose success is yet to be recorded
Disturbs(o) ==
    \/ caller[o] \in {"deleting", "dropping", "evicting"}
    \/ body[o] = "commit" /\ ~object

\* the file is written locally; online, its upload queues for the lock
Put(o, online) ==
    /\ caller[o] = "put"
    /\ IF guardClosed
       THEN UNCHANGED <<entryVars, wanted>>
       ELSE Write("pending") /\ wanted' = (\A p \in Op : ~Disturbs(p))
    /\ IF online /\ ~guardClosed
       THEN Enqueue(o, "waiting")
       ELSE GoTo(o, "done") /\ UNCHANGED <<chain, inFlight, body>>
    /\ UNCHANGED <<object, partial, kind, aborted, lifeVars>>

\* cancelFileOperation
Cancel(o) ==
    /\ kind[o] = "upload" /\ caller[o] \in {"put", "waiting"} /\ o \notin aborted
    /\ aborted' = aborted \union {o}
    /\ UNCHANGED <<entryVars, object, partial, lockVars, kind, lifeVars, wanted>>

\* an aborted upload takes the lock again to put 'pending' back
Rollback(o) ==
    /\ caller[o] = "rollback"
    /\ Enqueue(o, "undoing")
    /\ UNCHANGED <<entryVars, object, partial, kind, aborted, lifeVars, wanted>>

\* a failed upload marks the entry, without the lock
Mark(o) ==
    /\ caller[o] = "mark"
    /\ Move({"pending", "syncing"}, "failed")
    /\ GoTo(o, "done")
    /\ UNCHANGED <<object, partial, chain, inFlight, body, kind, aborted, lifeVars, wanted>>

-----------------------------------------------------------------------------
(* downloadFile, syncPendingFiles and resumeInterruptedUploads. *)

\* a hit on a file that is not uploaded starts a transfer in the background
BeginBackground(o) ==
    /\ Begin(o, "background")
    /\ status = "pending" \/ (status = "failed" /\ retries < MaxRetry)
    /\ Enqueue(o, "waiting")
    /\ UNCHANGED <<entryVars, object, partial, aborted, lifeVars, wanted>>

\* a miss: the blob has arrived and is about to be cached
BeginDownload(o) ==
    /\ Begin(o, "download") /\ object
    /\ GoTo(o, "store")
    /\ UNCHANGED <<entryVars, object, partial, chain, inFlight, body, aborted, lifeVars, wanted>>

\* one transaction: an entry that is there keeps its status
Store(o) ==
    /\ caller[o] = "store"
    /\ IF status = "none" /\ ~guardClosed THEN Write("synced") ELSE UNCHANGED entryVars
    /\ GoTo(o, "done")
    /\ UNCHANGED <<object, partial, chain, inFlight, body, kind, aborted, lifeVars, wanted>>

\* one batch at a time; its first stage resumes what was interrupted
BeginBatch(o) ==
    /\ Begin(o, "batch")
    /\ \A p \in Op : kind[p] = "batch" => caller[p] = "done"
    /\ GoTo(o, IF partial THEN "resuming" ELSE "listing")
    /\ body' = [body EXCEPT ![o] = IF partial THEN "check" ELSE "idle"]
    /\ aborted' = IF layer = "open" THEN aborted ELSE aborted \union {o}
    /\ UNCHANGED <<entryVars, object, partial, chain, inFlight, lifeVars, wanted>>

BeginResume(o) ==
    /\ Begin(o, "resume") /\ partial
    /\ GoTo(o, "resuming")
    /\ body' = [body EXCEPT ![o] = "check"]
    /\ UNCHANGED <<entryVars, object, partial, chain, inFlight, aborted, lifeVars, wanted>>

\* the record is looked at: expired, without its file, or to be resumed
Check(o, expired) ==
    /\ body[o] = "check"
    /\ \/ /\ ~guardClosed /\ ~expired /\ status # "none"
          /\ body' = [body EXCEPT ![o] = "send"]
          /\ UNCHANGED <<entryVars, partial, chain, inFlight, caller>>
       \/ /\ ~guardClosed /\ expired /\ status # "none"
          /\ partial' = FALSE
          /\ SetStatus("failed")
          /\ Settle(o, "ok")
       \* updateSyncStatus finds no entry and throws: the whole call is rejected
       \/ /\ guardClosed \/ status = "none"
          /\ partial' = (partial /\ guardClosed)
          /\ GoTo(o, "done")
          /\ body' = [body EXCEPT ![o] = "idle"]
          /\ UNCHANGED <<entryVars, chain, inFlight>>
    /\ UNCHANGED <<object, kind, aborted, lifeVars, wanted>>

List(o) ==
    /\ caller[o] = "listing"
    /\ IF status \in Fetchable /\ o \notin aborted
       THEN Enqueue(o, "waiting")
       ELSE GoTo(o, "done") /\ UNCHANGED <<chain, inFlight, body>>
    /\ UNCHANGED <<entryVars, object, partial, kind, aborted, lifeVars, wanted>>

-----------------------------------------------------------------------------
(* deleteFile and the evictions. *)

BeginDelete(o) ==
    /\ Begin(o, "delete")
    /\ GoTo(o, IF status = "synced" THEN "deleting" ELSE "dropping")
    /\ wanted' = FALSE
    /\ UNCHANGED <<entryVars, object, partial, chain, inFlight, body, aborted, lifeVars>>

\* a failure of S3 is logged and the local entry goes all the same
DeleteObject(o) ==
    /\ caller[o] = "deleting"
    /\ object' \in {FALSE, object}
    /\ GoTo(o, "dropping")
    /\ UNCHANGED <<entryVars, partial, chain, inFlight, body, kind, aborted, lifeVars, wanted>>

\* a plausible slip: an expired entry goes whatever became of its upload
EvictableExpired == {"synced", "failed"}

\* the statuses an eviction may choose
Evictable == {"synced"}

\* get and evictExpired read an expired, synced entry ...
BeginEvict(o) ==
    /\ Begin(o, "evict") /\ status \in Evictable
    /\ GoTo(o, "evicting")
    /\ UNCHANGED <<entryVars, object, partial, chain, inFlight, body, aborted, lifeVars, wanted>>

\* ... and remove it by its key; deleteFile ends the same way
Drop(o) ==
    /\ caller[o] \in {"dropping", "evicting"}
    /\ IF guardClosed THEN UNCHANGED entryVars ELSE Write("none")
    /\ GoTo(o, "done")
    /\ UNCHANGED <<object, partial, chain, inFlight, body, kind, aborted, lifeVars, wanted>>

\* evictLRU: choice and removal in one transaction
EvictLRU ==
    /\ "evict" \in Kinds /\ layer = "open" /\ ~guardClosed /\ status \in Evictable
    /\ Write("none")
    /\ UNCHANGED <<object, partial, lockVars, kind, aborted, lifeVars, wanted>>

-----------------------------------------------------------------------------
(* Start-up, shutdown and the death of the worker. *)

\* recoverStaleSyncing: the keys of the 'syncing' entries are read ...
RecoverRead ==
    /\ recovery = "read"
    /\ recovery' = IF ~guardClosed /\ status = "syncing" THEN "write" ELSE "idle"
    /\ UNCHANGED <<entryVars, object, partial, lockVars, kind, aborted, layer, guardClosed, crashes, wanted>>

\* ... and whatever has become of them since is overwritten
RecoverWrite ==
    /\ recovery = "write"
    /\ IF status # "none" /\ layer # "closed" THEN SetStatus("pending") ELSE UNCHANGED entryVars
    /\ recovery' = "idle"
    /\ UNCHANGED <<object, partial, lockVars, kind, aborted, layer, guardClosed, crashes, wanted>>

\* the signal of the background work fires first; tracked tasks have five seconds to end
CloseBegins ==
    /\ MayClose /\ layer = "open"
    /\ layer' = "closing"
    /\ aborted' = aborted \union {o \in Op : kind[o] \in {"background", "batch"}}
    /\ UNCHANGED <<entryVars, object, partial, lockVars, kind, guardClosed, recovery, crashes, wanted>>

CloseEnds ==
    /\ layer = "closing"
    /\ layer' = "closed" /\ guardClosed' = TRUE
    /\ UNCHANGED <<entryVars, object, partial, lockVars, kind, aborted, recovery, crashes, wanted>>

\* a tab initialises the worker again: a new layer over the same repository
Reopen ==
    /\ layer = "closed"
    /\ layer' = "open" /\ recovery' = "read"
    /\ UNCHANGED <<entryVars, object, partial, lockVars, kind, aborted, guardClosed, crashes, wanted>>

\* the worker dies and starts again: what is in IndexedDB and on S3 stays
Crash ==
    /\ crashes < MaxCrashes
    /\ crashes' = crashes + 1
    /\ object' \in {object, object \/ \E o \in Op : body[o] = "send"}
    /\ chain' = <<>> /\ inFlight' = NoOp
    /\ caller' = [o \in Op |-> IF caller[o] = "free" THEN "free" ELSE "done"]
    /\ body' = [o \in Op |-> "idle"]
    /\ layer' = "open" /\ guardClosed' = FALSE /\ recovery' = "read"
    /\ UNCHANGED <<entryVars, partial, kind, aborted, wanted>>

-----------------------------------------------------------------------------
(* Behaviours.  The program runs whatever it can run and its timers fire;  *)
(* nothing is assumed of S3, of the user or of the other tabs.             *)

Local(o) ==
    \/ \E online \in BOOLEAN : Put(o, online)
    \/ Start(o) \/ Commit(o) \/ Rollback(o) \/ Mark(o)
    \/ \E expired \in BOOLEAN : Check(o, expired)
    \/ List(o) \/ Store(o) \/ Drop(o)

Remote(o) == Sent(o) \/ SendFails(o) \/ SendAborts(o) \/ Record(o) \/ DeleteObject(o)

User(o) ==
    \/ BeginUpload(o) \/ BeginBackground(o) \/ BeginDownload(o) \/ BeginBatch(o)
    \/ BeginResume(o) \/ BeginDelete(o) \/ BeginEvict(o) \/ Cancel(o)

Lifecycle == RecoverRead \/ RecoverWrite \/ CloseBegins \/ CloseEnds \/ Reopen \/ Crash

Next ==
    \/ \E o \in Op : Local(o) \/ Remote(o) \/ User(o) \/ LockTimeout(o)
    \/ EvictLRU
    \/ Lifecycle

Spec == Init /\ [][Next]_vars

-----------------------------------------------------------------------------
(* Properties. *)

TypeOK ==
    /\ status \in Status /\ retries \in Nat
    /\ object \in BOOLEAN /\ partial \in BOOLEAN
    /\ chain \in Seq(Op) /\ inFlight \in Op \union {NoOp}
    /\ kind \in [Op -> AllKinds \union {"none"}]
    /\ caller \in [Op -> {"free", "put", "waiting", "mark", "rollback", "undoing", "listing",
                          "resuming", "store", "deleting", "dropping", "evicting", "done"}]
    /\ body \in [Op -> {"idle", "queued", "joined", "check", "send", "commit"}]
    /\ aborted \subseteq Op
    /\ layer \in {"open", "closing", "closed"} /\ guardClosed \in BOOLEAN
    /\ recovery \in {"idle", "read", "write"}
    /\ crashes \in 0..MaxCrashes /\ wanted \in BOOLEAN /\ abandoned \in BOOLEAN

(* A file the user saved and did not delete is on S3, or still in the     *)
(* cache in a status that is uploaded later: no order of uploads, lock    *)
(* timeouts, evictions, recovery, close and crashes loses it, unless the  *)
(* save fell into the removal of the file as it was before, or a transfer *)
(* of it outlived that removal (the ghost `wanted`).                      *)
SavedIsKept == wanted => object \/ status \in {"pending", "syncing", "failed"}

(* An entry says 'syncing' only while a transfer runs, a caller is about  *)
(* to correct it, or start-up recovery is still to come; else nobody      *)
(* would ever upload it, since both sync paths skip that status.          *)
SyncingHasOwner ==
    status = "syncing" =>
        \/ \E o \in Op : body[o] \in {"send", "commit"} \/ caller[o] \in {"mark", "rollback", "undoing"}
        \/ recovery # "idle" \/ abandoned \/ guardClosed

(* uploadFile and syncPendingFiles never transfer the file twice at once, *)
(* even when the lock has given up on a transfer that still runs.         *)
NoDuplicateUpload ==
    Cardinality({o \in Op : /\ kind[o] \in {"upload", "batch"} /\ caller[o] # "resuming"
                            /\ body[o] \in {"send", "commit"}}) <= 1

(* Whoever waits is in the chain, its holder has something to run, and a  *)
(* call that joined another's upload is told when that upload ends.       *)
LockNeverStalls ==
    /\ \A o \in Op : caller[o] \in {"waiting", "undoing"} => Waiting(o)
    /\ \A o \in Op : Waiting(o) => body[o] # "idle"
    /\ \A o \in Op : body[o] = "joined" => inFlight # NoOp /\ body[inFlight] \in {"send", "commit"}

\* Where the transfer of a call is.
Stage(o) ==
    CASE body[o] = "send" -> "sending"
      [] body[o] = "commit" -> "stored"
      [] OTHER -> "idle"

Within == INSTANCE Transfer WITH
    Sender <- Op,
    stage <- [o \in Op |-> Stage(o)],
    record <- partial

(* Locks that time out, joined calls, aborts, close and crashes ask no     *)
(* more of a transfer than Transfer promises: a status becomes 'synced'    *)
(* through a transfer that has stored the object, and what is not over     *)
(* when its caller gives up is still the one transfer it was.              *)
ImplementsTransfer == Within!Spec

=============================================================================
