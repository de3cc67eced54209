----------------------------- MODULE MessageSync -----------------------------
(***************************************************************************)
(* How PersistenceLayer brings what the user does in one conversation to   *)
(* the server: messages (sendMessage, _syncToServer), and the renaming or  *)
(* deletion of the session (_syncWithRetry), each first written here and   *)
(* marked 'pending', then sent by a task in the background.  The tasks,    *)
(* the topic channel and the user all write the same rows, the layer may   *)
(* close under them, and the worker may die.                               *)
(*                                                                         *)
(* What a row says is left out but for its sync_status: in a batch the     *)
(* newer row wins, by clocks of two machines, so either may.               *)
(***************************************************************************)
EXTENDS Naturals, FiniteSets

CONSTANTS
    Msg,          \* messages of the session, which the first one creates
    MaxSends,     \* bound on the times one message is sent, again after a failure
    MaxCalls,     \* bound on all of them
    Edit,         \* renamings and the deletion of the session; each happens once
    MaxTries,     \* SYNC_MAX_RETRIES
    MaxFaults     \* bound on failed writes, closes and deaths of the worker

ASSUME BoundAssumption ==
    /\ MaxSends \in Nat \ {0} /\ MaxCalls \in Nat /\ MaxTries \in Nat \ {0}
    /\ MaxFaults \in Nat

Task == Msg \X (1..MaxSends)    \* one call of sendMessage

Status == {"none", "pending", "synced", "failed"}    \* "none": no such row
Row == [status : Status, known : BOOLEAN]            \* known: has a server_id

VARIABLES
    message,   \* sync_status of each message
    session,   \* the session's row
    call,      \* each call of sendMessage: where it is, and its view of the session
    wire,      \* messages whose request is on its way
    accepted,  \* messages the server has
    topic,     \* what the server has published and the channel not yet applied
    edit,      \* where each edit is
    tries,     \* attempts left to each edit
    life,      \* "open", "draining" (_closing), "closed" (the guard)
    abandoned, \* messages whose task ended with the layer or could not write
    faults

taskVars == <<call, wire>>
editVars == <<edit, tries>>
worldVars == <<life, faults>>
vars == <<message, session, taskVars, accepted, topic, editVars, abandoned, worldVars>>

SessionRow == "session"    \* the topic's update of the session row

\* the row as read or written last; fresh: isNewSession
At(s, row, fresh) == [pc |-> s, row |-> row, fresh |-> fresh]

NoRow == [status |-> "none", known |-> FALSE]

Init ==
    /\ message = [m \in Msg |-> "none"]
    /\ session = NoRow
    /\ call = [t \in Task |-> At("new", NoRow, FALSE)]
    /\ wire = {} /\ accepted = {} /\ topic = {}
    /\ edit = [e \in Edit |-> "new"]
    /\ tries = [e \in Edit |-> MaxTries]
    /\ abandoned = {}
    /\ life = "open" /\ faults = 0

-----------------------------------------------------------------------------
(* The writes. *)

\* a plausible slip: an update without the id erases it
GivenId(given, had) == given

\* upsertSession keeps a server_id it is not given
KeptId(given, had) == given \/ had

PutSession(s, given) == session' = [status |-> s, known |-> KeptId(given, session.known)]

PutMessage(m, s) == message' = [message EXCEPT ![m] = s]

\* what a call has read goes with it
GoTo(t, s) ==
    call' = [call EXCEPT ![t] = IF s = "over" THEN At("over", NoRow, FALSE) ELSE [@ EXCEPT !.pc = s]]

Fault == faults < MaxFaults /\ faults' = faults + 1

Give(m) == abandoned' = abandoned \union {m}

Busy(t) == call[t].pc \notin {"new", "over"}

-----------------------------------------------------------------------------
(* sendMessage. *)

\* the UI offers to send again what failed, and learns of a new session when the call returns
Send(t) ==
    /\ call[t].pc = "new" /\ life # "closed"
    /\ Cardinality({u \in Task : call[u].pc # "new"}) < MaxCalls
    /\ message[t[1]] = IF t[2] = 1 THEN "none" ELSE "failed"
    /\ t[2] > 1 => call[<<t[1], t[2] - 1>>].pc # "new"
    /\ session.status = "none" => \A u \in Task : ~Busy(u)
    /\ call' = [call EXCEPT ![t] = At("session", session, session.status = "none")]
    /\ UNCHANGED <<message, session, wire, accepted, topic, editVars, abandoned, worldVars>>

\* after AGENT.md is read: an old session gets back the status it had before
WriteSession(t) ==
    /\ call[t].pc = "session" /\ life # "closed"
    /\ PutSession(IF call[t].fresh THEN "pending" ELSE call[t].row.status, call[t].row.known)
    /\ call' = [call EXCEPT ![t] = At("message", session', @.fresh)]
    /\ UNCHANGED <<message, wire, accepted, topic, editVars, abandoned, worldVars>>

\* a plausible slip: the parameter left out, whose default is 'synced'
DefaultStatus(m) == "synced"

\* the status sendMessage gives the message
NewStatus(m) == "pending"

\* a closing layer sends nothing any more
WriteMessage(t) ==
    /\ call[t].pc = "message" /\ life # "closed"
    /\ PutMessage(t[1], NewStatus(t[1]))
    /\ IF life = "open"
       THEN /\ GoTo(t, "rpc")
            /\ wire' = wire \union {t[1]}
            /\ abandoned' = abandoned \ {t[1]}
       ELSE GoTo(t, "over") /\ Give(t[1]) /\ UNCHANGED wire
    /\ UNCHANGED <<session, accepted, topic, editVars, worldVars>>

-----------------------------------------------------------------------------
(* _syncToServer. *)

\* the server takes a client_id once, and publishes what it has changed
Accept(m) ==
    /\ m \in wire
    /\ wire' = wire \ {m}
    /\ accepted' = accepted \union {m}
    /\ topic' = IF m \in accepted THEN topic ELSE topic \union {m, SessionRow}
    /\ UNCHANGED <<message, session, call, editVars, abandoned, worldVars>>

\* the answer, with or without updates to apply
Answer(t) ==
    /\ call[t].pc = "rpc" /\ t[1] \in accepted
    /\ GoTo(t, "mark")
    /\ \/ UNCHANGED <<message, session>>
       \/ life # "closed" /\ PutMessage(t[1], "synced") /\ PutSession("synced", TRUE)
    /\ UNCHANGED <<wire, accepted, topic, editVars, abandoned, worldVars>>

\* no answer in 30 seconds, no connection, or an update that fails: the request may be late
NoAnswer(t) ==
    /\ call[t].pc = "rpc"
    /\ GoTo(t, "fail")
    /\ wire' \in {wire, wire \ {t[1]}}
    /\ UNCHANGED <<message, session, accepted, topic, editVars, abandoned, worldVars>>

\* a closed guard runs nothing, and lets the task go on
MarkMessage(t) ==
    /\ call[t].pc = "mark"
    /\ IF life = "closed" THEN Give(t[1]) /\ UNCHANGED message
                          ELSE PutMessage(t[1], "synced") /\ UNCHANGED abandoned
    /\ GoTo(t, IF call[t].fresh THEN "markSession" ELSE "over")
    /\ UNCHANGED <<session, wire, accepted, topic, editVars, worldVars>>

MarkSession(t) ==
    /\ call[t].pc = "markSession"
    /\ IF life = "closed" THEN UNCHANGED session ELSE PutSession("synced", TRUE)
    /\ GoTo(t, "over")
    /\ UNCHANGED <<message, wire, accepted, topic, editVars, abandoned, worldVars>>

\* an exception while marking ends in the same catch block as a failed request
MarkFails(t) ==
    /\ call[t].pc \in {"mark", "markSession"} /\ life # "closed"
    /\ Fault
    /\ GoTo(t, "fail")
    /\ UNCHANGED <<message, session, wire, accepted, topic, editVars, abandoned, life>>

\* a plausible slip: only a new session's failure is written
FailsNew(t) == call[t].fresh

\* the catch block marks the message 'failed'
Fails(t) == TRUE

FailMessage(t) ==
    /\ call[t].pc = "fail"
    /\ IF life = "closed"
       THEN Give(t[1]) /\ UNCHANGED message
       ELSE /\ IF Fails(t) THEN PutMessage(t[1], "failed") ELSE UNCHANGED message
            /\ UNCHANGED abandoned
    /\ GoTo(t, IF call[t].fresh /\ call[t].row.status = "pending" THEN "failSession" ELSE "over")
    /\ UNCHANGED <<session, wire, accepted, topic, editVars, worldVars>>

\* ... and nothing catches what goes wrong there
FailMessageFails(t) ==
    /\ call[t].pc = "fail" /\ life # "closed"
    /\ Fault
    /\ Give(t[1])
    /\ GoTo(t, "over")
    /\ UNCHANGED <<message, session, wire, accepted, topic, editVars, life>>

FailSession(t) ==
    /\ call[t].pc = "failSession"
    /\ IF life = "closed" THEN UNCHANGED session ELSE PutSession("failed", FALSE)
    /\ GoTo(t, "over")
    /\ UNCHANGED <<message, wire, accepted, topic, editVars, abandoned, worldVars>>

\* the topic channel applies an update: in a batch, a row that is 'pending' and newer stays
Deliver(x) ==
    /\ x \in topic /\ life # "closed"
    /\ topic' = topic \ {x}
    /\ IF x = SessionRow
       THEN /\ UNCHANGED message
            /\ \/ PutSession("synced", TRUE)
               \/ session.status = "pending" /\ UNCHANGED session
       ELSE /\ UNCHANGED session
            /\ \/ PutMessage(x, "synced")
               \/ message[x] = "pending" /\ UNCHANGED message
    /\ UNCHANGED <<taskVars, accepted, editVars, abandoned, worldVars>>

-----------------------------------------------------------------------------
(* updateSessionTitle, deleteSession and _syncWithRetry. *)

StepTo(e, s) == edit' = [edit EXCEPT ![e] = s]

\* whether there will be a task is settled by the row read here
BeginEdit(e) ==
    /\ edit[e] = "new" /\ session.status # "none" /\ life # "closed"
    /\ StepTo(e, IF session.known THEN "write" ELSE "writeOnly")
    /\ UNCHANGED <<message, session, taskVars, accepted, topic, tries, abandoned, worldVars>>

\* a task that begins in a closing layer is cancelled by its first failure
WriteEdit(e) ==
    /\ edit[e] \in {"write", "writeOnly"} /\ life # "closed"
    /\ PutSession("pending", FALSE)
    /\ StepTo(e, IF edit[e] = "write" THEN "try" ELSE "unsent")
    /\ UNCHANGED <<message, taskVars, accepted, topic, tries, abandoned, worldVars>>

\* the server takes it, whether or not its answer arrives
TakeEdit(e) ==
    /\ edit[e] = "try"
    /\ topic' = topic \union {SessionRow}
    /\ StepTo(e, "markEdit")
    /\ UNCHANGED <<message, session, taskVars, accepted, tries, abandoned, worldVars>>

\* _markSessionSynced finds the session by its server_id
MarkEdit(e) ==
    /\ edit[e] = "markEdit" /\ life # "closed"
    /\ IF session.known THEN PutSession("synced", FALSE) ELSE UNCHANGED session
    /\ StepTo(e, "done")
    /\ UNCHANGED <<message, taskVars, accepted, topic, tries, abandoned, worldVars>>

\* a plausible slip: off by one
TriesOnceMore(e) == tries[e] >= 1

TriesAgain(e) == tries[e] > 1

\* an attempt failed: a closing layer retries nothing, an open one so many times
AttemptFails(e) ==
    /\ edit[e] \in {"try", "markEdit"}
    /\ IF life # "open" THEN StepTo(e, "cancelled") /\ UNCHANGED tries
       ELSE /\ tries' = [tries EXCEPT ![e] = @ - 1]
            /\ StepTo(e, IF TriesAgain(e) THEN "try" ELSE "giveUp")
    /\ UNCHANGED <<message, session, taskVars, accepted, topic, abandoned, worldVars>>

\* _markSessionSyncFailed
GiveUp(e) ==
    /\ edit[e] = "giveUp"
    /\ IF session.known /\ life # "closed" THEN PutSession("failed", FALSE) ELSE UNCHANGED session
    /\ StepTo(e, "done")
    /\ UNCHANGED <<message, taskVars, accepted, topic, tries, abandoned, worldVars>>

-----------------------------------------------------------------------------
(* close, and a new worker. *)

Close ==
    /\ life = "open"
    /\ Fault
    /\ life' = "draining"
    /\ UNCHANGED <<message, session, taskVars, accepted, topic, editVars, abandoned>>

\* all tasks have ended, or five seconds have passed
Drained ==
    /\ life = "draining"
    /\ life' = "closed"
    /\ UNCHANGED <<message, session, taskVars, accepted, topic, editVars, abandoned, faults>>

\* the tasks are gone, what is on the wire is not
Restart ==
    /\ Fault
    /\ life' = "open"
    /\ call' = [t \in Task |-> IF Busy(t) THEN At("over", NoRow, FALSE) ELSE call[t]]
    /\ abandoned' = abandoned \union {t[1] : t \in {u \in Task : Busy(u)}}
    /\ edit' = [e \in Edit |-> IF edit[e] = "new" THEN "new" ELSE
                               IF edit[e] \in {"unsent", "done"} THEN edit[e] ELSE "cancelled"]
    /\ UNCHANGED <<message, session, wire, accepted, topic, tries>>

-----------------------------------------------------------------------------

Call(t) == Send(t) \/ WriteSession(t) \/ WriteMessage(t)

Sync(t) ==
    \/ Answer(t) \/ NoAnswer(t) \/ MarkMessage(t) \/ MarkSession(t) \/ MarkFails(t)
    \/ FailMessage(t) \/ FailMessageFails(t) \/ FailSession(t)

SyncEdit(e) ==
    \/ BeginEdit(e) \/ WriteEdit(e) \/ TakeEdit(e) \/ MarkEdit(e) \/ AttemptFails(e) \/ GiveUp(e)

Next ==
    \/ \E t \in Task : Call(t) \/ Sync(t)
    \/ \E m \in Msg : Accept(m)
    \/ \E x \in Msg \union {SessionRow} : Deliver(x)
    \/ \E e \in Edit : SyncEdit(e)
    \/ Close \/ Drained \/ Restart

Spec == Init /\ [][Next]_vars

-----------------------------------------------------------------------------

TypeOK ==
    /\ message \in [Msg -> Status]
    /\ session \in Row
    /\ call \in [Task -> [pc : {"new", "session", "message", "rpc", "mark", "markSession",
                                "fail", "failSession", "over"}, row : Row, fresh : BOOLEAN]]
    /\ wire \subseteq Msg /\ accepted \subseteq Msg
    /\ topic \subseteq Msg \union {SessionRow}
    /\ edit \in [Edit -> {"new", "write", "writeOnly", "unsent", "try", "markEdit", "giveUp",
                          "done", "cancelled"}]
    /\ tries \in [Edit -> 0..MaxTries]
    /\ life \in {"open", "draining", "closed"} /\ abandoned \subseteq Msg
    /\ faults \in 0..MaxFaults

(***************************************************************************)
(* No message is lost in silence: what a tab shows as delivered the server *)
(* has, and what it shows as being delivered has a task that will settle   *)
(* it, unless the layer closed, died or could not write under that task.   *)
(***************************************************************************)
NothingLost ==
    \A m \in Msg :
        /\ message[m] = "synced" => m \in accepted
        /\ message[m] = "pending" => m \in abandoned \/ \E k \in 1..MaxSends : Busy(<<m, k>>)

(***************************************************************************)
(* Only a close, a death or a write that fails abandons a message: as long *)
(* as there was none, whatever the network and the server do, a message    *)
(* shown as being delivered has a task, and the layer is open for it.      *)
(***************************************************************************)
SendingHasTask ==
    faults = 0 =>
        /\ life = "open"
        /\ \A m \in Msg : message[m] = "pending" => \E k \in 1..MaxSends : Busy(<<m, k>>)

(***************************************************************************)
(* Stopping, closing, renaming and the rest need the server_id of the      *)
(* session (_requireSyncedSession): a session marked 'synced' has one,     *)
(* although calls that read the row before it was known write it back.     *)
(***************************************************************************)
SyncedIsKnown == session.status = "synced" => session.known /\ accepted # {}

(***************************************************************************)
(* "Success: write back sync_status='synced'", "Failure: [...] then        *)
(* sync_status='failed'" (deleteSession): a session with an edit that was  *)
(* never sent is not 'synced'.                                             *)
(***************************************************************************)
SyncedEditWasSent == \A e \in Edit : edit[e] = "unsent" => session.status # "synced"

=============================================================================
