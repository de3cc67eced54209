---------------------------- MODULE RtcProcessor ----------------------------
(***************************************************************************)
(* Remote tool calls (RTCs): the server pushes a call, the master tab runs *)
(* the tool and reports the result.  Each tab has an RtcProcessor, woken   *)
(* by bus events; the tabs share the table `rtcs` and elect the master by  *)
(* a Web Lock.  A step is what runs between two awaits.                    *)
(***************************************************************************)
EXTENDS Naturals, FiniteSets

CONSTANTS
    None,
    Tab,
    NRtc,       \* RTCs the server pushes, numbered by offset
    MaxRetry,   \* MAX_SUBMIT_RETRY_COUNT
    SmallFills, \* RTCs whose row may change while a small gap fill is flushed
    MaxFaults,  \* bound on the faults
    Faults      \* subset of FaultKinds

ASSUME BoundAssumption == NRtc \in Nat /\ MaxRetry \in Nat \ {0} /\ MaxFaults \in Nat
FaultKinds == {"conn", "rpc", "write", "replay", "close", "release"}
ASSUME FaultAssumption == Faults \subseteq FaultKinds

VARIABLES
    row,        \* the table `rtcs`
    told,       \* the server: results reported for each RTC
    news,       \* results whose updates have not come back yet
    online,     \* the connection to the server is up
    holder,     \* the tab holding the master lock
    waiting,    \* tabs queued for it
    inbox,      \* tabs with an undelivered bus event or 'connected' event
    unheard,    \* ghost: RTCs whose row has changed in silence since the tabs were last told
                \* of any or the master last looked
    loop,       \* the processLoop of each tab
    retryCount, \* retryCountMap of each tab
    made,       \* ghost: results the tool, the user or the timeout has produced
    runs,       \* ghost: how often the tool was started, up to 2
    excused,    \* ghost: RTCs hit by what the processor does not protect itself from
    faults

vars == <<row, told, news, online, holder, waiting, inbox, unheard, loop, retryCount, made, runs,
          excused, faults>>

Rtc == 1..NRtc
Result == {"completed", "failed"}
Row == [status : {"pending"} \cup Result, sync : {"pending", "failed", "synced"}]
ASSUME FillAssumption == SmallFills \subseteq Rtc
ASSUME NoneAssumption == None \notin Tab /\ None \notin Rtc /\ None \notin Row

Loop == [pc : {"idle", "failed", "new", "found", "start", "run", "backoff", "record",
               "submit", "mark", "fail", "settle", "sleep"},
         rtc : Rtc \cup {None},
         kind : {"run", "retry", "deny"},
         result : Result,
         conn : BOOLEAN,            \* the error on its way up is a connection error
         pendingCheck : BOOLEAN,
         aborted : BOOLEAN,
         skipped : Rtc \cup {None}, \* _lastSilentlySkippedRtcId
         gaveUp : BOOLEAN]          \* ghost: the last loop did not end for want of work

TypeOK ==
    /\ row \in [Rtc -> Row \cup {None}]
    /\ told \in [Rtc -> SUBSET Result] /\ news \in [Rtc -> SUBSET Result]
    /\ online \in BOOLEAN
    /\ holder \in Tab \cup {None} /\ waiting \subseteq Tab
    /\ inbox \subseteq Tab /\ unheard \subseteq SmallFills
    /\ loop \in [Tab -> Loop]
    /\ retryCount \in [Tab -> [Rtc -> 0..MaxRetry]]
    /\ made \in [Rtc -> SUBSET Result]
    /\ runs \in [Rtc -> 0..2] /\ excused \subseteq Rtc
    /\ faults \in 0..MaxFaults

NoLoop == [pc |-> "idle", rtc |-> None, kind |-> "run", result |-> "failed", conn |-> FALSE,
           pendingCheck |-> FALSE, aborted |-> FALSE, skipped |-> None, gaveUp |-> FALSE]
NoRetries == [r \in Rtc |-> 0]

Init ==
    /\ row = [r \in Rtc |-> None]
    /\ told = [r \in Rtc |-> {}] /\ news = told
    /\ online = TRUE
    /\ holder = None /\ waiting = Tab /\ inbox = {} /\ unheard = {}
    /\ loop = [t \in Tab |-> NoLoop]
    /\ retryCount = [t \in Tab |-> NoRetries]
    /\ made = [r \in Rtc |-> {}]
    /\ runs = [r \in Rtc |-> 0] /\ excused = {}
    /\ faults = 0

Fault(kind) ==
    /\ kind \in Faults
    /\ faults < MaxFaults
    /\ faults' = faults + 1

Live == (waiting \cup {holder}) \ {None}
server == <<told, news>>
tabVars == <<holder, waiting>>
bus == <<inbox, unheard>>
ghosts == <<made, runs, excused>>

-----------------------------------------------------------------------------
(* The bus *)

TellAll == inbox' = Live /\ unheard' = {}

\* A row has changed.  The bus tells every tab, after a large gap fill by the reload at its
\* end.  While a small fill is flushed the bus is suspended: what it collects, whoever wrote
\* it, is dropped in the worker, and no reload follows (client.ts:1014, 1143).
Announce(r) ==
    \/ TellAll
    \/ r \in SmallFills /\ unheard' = unheard \cup {r} /\ UNCHANGED inbox

-----------------------------------------------------------------------------
(* The server and the connection *)

\* The RTC's update arrives and is stored.
Push(r) ==
    /\ row[r] = None
    /\ \A q \in 1..(r - 1) : row[q] # None
    /\ row' = [row EXCEPT ![r] = [status |-> "pending", sync |-> "pending"]]
    /\ Announce(r)
    /\ UNCHANGED <<server, online, tabVars, loop, retryCount, ghosts, faults>>

\* The server publishes what it was told; the stored row is overwritten.
Echo(r) ==
    /\ \E result \in news[r] :
          /\ news' = [news EXCEPT ![r] = @ \ {result}]
          /\ row' = [row EXCEPT ![r] = [status |-> result, sync |-> "pending"]]
    /\ IF row' = row THEN UNCHANGED bus ELSE Announce(r)
    /\ UNCHANGED <<told, online, tabVars, loop, retryCount, ghosts, faults>>

\* The update that brought the RTC is delivered again, after a restart of the worker that
\* had stored it but not the position: the row is reset although the tool may have run.
Replay(r) ==
    /\ row[r] # None /\ told[r] = {}
    /\ Fault("replay")
    /\ row' = [row EXCEPT ![r] = [status |-> "pending", sync |-> "pending"]]
    /\ Announce(r)
    /\ excused' = excused \cup {r}
    /\ UNCHANGED <<server, online, tabVars, loop, retryCount, made, runs>>

Disconnect ==
    /\ online
    /\ Fault("conn")
    /\ online' = FALSE
    /\ UNCHANGED <<row, server, tabVars, bus, loop, retryCount, ghosts>>

\* ... and back: every tab is told.
Connect ==
    /\ ~online
    /\ online' = TRUE
    /\ TellAll
    /\ UNCHANGED <<row, server, tabVars, loop, retryCount, ghosts, faults>>

-----------------------------------------------------------------------------
(* The loop *)

\* The top of an iteration: leave if no longer master or cancelled, else look for work.
Iterate(t, l) ==
    IF holder = t /\ ~l.aborted
    THEN [NoLoop EXCEPT !.pc = "failed", !.skipped = l.skipped]
    ELSE [NoLoop EXCEPT !.gaveUp = TRUE]

Exit(gaveUp) == [NoLoop EXCEPT !.gaveUp = gaveUp]
Become(t, l) == loop' = [loop EXCEPT ![t] = l]
GoTo(t, pc) == Become(t, [loop[t] EXCEPT !.pc = pc])
At(t, pc) == loop[t].pc = pc

\* onRtcUpdate: a running loop is told to check again.
WokenIdle(t) == IF At(t, "idle") /\ holder = t THEN Iterate(t, NoLoop) ELSE loop[t]
Woken(t) ==
    IF ~At(t, "idle") THEN [loop[t] EXCEPT !.pendingCheck = TRUE]
    ELSE IF holder = t THEN Iterate(t, NoLoop)
    ELSE loop[t]

\* The bus handler; a tab that is not master ignores the event.
OnRtcUpdate(t) ==
    /\ t \in inbox
    /\ inbox' = inbox \ {t}
    /\ Become(t, IF holder = t THEN Woken(t) ELSE loop[t])
    /\ UNCHANGED <<row, server, online, tabVars, unheard, retryCount, ghosts, faults>>

Stored(r) == row[r] # None
Retriable == {r \in Rtc : Stored(r) /\ row[r].sync = "failed"}
Unreported == {r \in Rtc : Stored(r) /\ row[r].sync = "pending"}
Unexecuted == {r \in Rtc : Stored(r) /\ row[r].status = "pending"}
Due == Retriable \cup Unexecuted

\* getNextRtcToProcess: a first query for results to submit again, a second for tools to
\* run; the lowest offset answers.  The loop goes on with the row as it was read.
Lowest(S) == {r \in S : \A q \in S : r <= q}
RetrySucceeds(r) == "completed"
RetryResult(r) == IF row[r].status = "completed" THEN "completed" ELSE "failed"
WithRow(l, r) == [l EXCEPT !.pc = "found", !.rtc = r, !.result = RetryResult(r),
                           !.kind = IF row[r].sync = "failed" THEN "retry" ELSE "run"]

QueryFailed(t) ==
    /\ At(t, "failed")
    /\ \/ \E r \in Lowest(Retriable) : Become(t, WithRow(loop[t], r))
       \/ Retriable = {} /\ GoTo(t, "new")
    /\ unheard' = IF holder = t THEN {} ELSE unheard
    /\ UNCHANGED <<row, server, online, tabVars, inbox, retryCount, ghosts, faults>>

QueryNew(t) ==
    /\ At(t, "new")
    /\ \/ \E r \in Lowest(Unexecuted) : Become(t, WithRow(loop[t], r))
       \/ Unexecuted = {} /\ GoTo(t, "found")
    /\ UNCHANGED <<row, server, online, tabVars, bus, retryCount, ghosts, faults>>

NothingToDo(t) ==
    /\ At(t, "found") /\ loop[t].rtc = None
    /\ Become(t, IF loop[t].pendingCheck THEN Iterate(t, loop[t]) ELSE Exit(FALSE))
    /\ UNCHANGED <<row, server, online, tabVars, bus, retryCount, ghosts, faults>>

\* The RTC just skipped comes back: no progress, the loop ends.
NoProgress(t) ==
    /\ At(t, "found") /\ loop[t].rtc # None
    /\ loop[t].rtc = loop[t].skipped
    /\ Become(t, Exit(TRUE))
    /\ UNCHANGED <<row, server, online, tabVars, bus, retryCount, ghosts, faults>>

Takes(t, kind) ==
    /\ At(t, "found")
    /\ loop[t].rtc \notin {None, loop[t].skipped}
    /\ loop[t].kind = kind
    /\ UNCHANGED <<row, server, online, tabVars, bus, made, runs, faults>>

\* processOne on a failed submission: skip it after too many, else wait and retry.
ExhaustedLate(t, r) == retryCount[t][r] > MaxRetry
Exhausted(t, r) == retryCount[t][r] >= MaxRetry

SkipRetry(t) ==
    LET r == loop[t].rtc IN
    /\ Takes(t, "retry")
    /\ Exhausted(t, r)
    /\ Become(t, Iterate(t, [loop[t] EXCEPT !.skipped = r]))
    /\ retryCount' = [retryCount EXCEPT ![t][r] = 0]
    /\ UNCHANGED excused

TakeRetry(t) ==
    /\ Takes(t, "retry")
    /\ ~Exhausted(t, loop[t].rtc)
    /\ IF loop[t].aborted THEN Become(t, Exit(TRUE)) ELSE GoTo(t, "backoff")
    /\ UNCHANGED <<retryCount, excused>>

\* processOne on a new RTC: it may need the user's consent, ...
TakeNew(t) ==
    /\ Takes(t, "run")
    /\ GoTo(t, "start")
    /\ excused' = IF holder = t THEN excused ELSE excused \cup {loop[t].rtc}
    /\ UNCHANGED retryCount

\* ... which the user may refuse, ...
Deny(t) ==
    /\ At(t, "start")
    /\ Become(t, [loop[t] EXCEPT !.pc = "record", !.kind = "deny", !.result = "failed"])
    /\ made' = [made EXCEPT ![loop[t].rtc] = @ \cup {"failed"}]
    /\ UNCHANGED <<row, server, online, tabVars, bus, retryCount, runs, excused, faults>>

\* ... or the tool is started (or the question asked), ...
Execute(t) ==
    LET r == loop[t].rtc IN
    /\ At(t, "start")
    /\ GoTo(t, "run")
    /\ runs' = [runs EXCEPT ![r] = IF @ = 2 THEN 2 ELSE @ + 1]
    /\ UNCHANGED <<row, server, online, tabVars, bus, retryCount, made, excused, faults>>

\* a plausible slip: the late answer of a tool that timed out replaces the failure
ToolEndsLate(t, result) ==
    /\ At(t, "run") \/ At(t, "record")
    /\ Become(t, [loop[t] EXCEPT !.pc = "record", !.result = result])
    /\ made' = [made EXCEPT ![loop[t].rtc] = @ \cup {result}]
    /\ UNCHANGED <<row, server, online, tabVars, bus, retryCount, runs, excused, faults>>

\* ... and succeeds, fails or times out.
ToolEnds(t, result) ==
    /\ At(t, "run")
    /\ Become(t, [loop[t] EXCEPT !.pc = "record", !.result = result])
    /\ made' = [made EXCEPT ![loop[t].rtc] = @ \cup {result}]
    /\ UNCHANGED <<row, server, online, tabVars, bus, retryCount, runs, excused, faults>>

\* The backoff before a retry, and the pause after an error, are over.
BackoffEnds(t) ==
    /\ At(t, "backoff")
    /\ GoTo(t, "record")
    /\ UNCHANGED <<row, server, online, tabVars, bus, retryCount, ghosts, faults>>

SleepEnds(t) ==
    /\ At(t, "sleep")
    /\ Become(t, Iterate(t, loop[t]))
    /\ UNCHANGED <<row, server, online, tabVars, bus, retryCount, ghosts, faults>>

-----------------------------------------------------------------------------
(* submitRtcResult *)

ErrsUnseen(t, conn) == GoTo(t, "mark")
Errs(t, conn) == Become(t, [loop[t] EXCEPT !.pc = "fail", !.conn = conn])

WriteFails == Fault("write") /\ UNCHANGED <<row, bus>>

Sync(r, sync) ==
    /\ row' = [row EXCEPT ![r].sync = sync]
    /\ IF row[r].sync = sync THEN UNCHANGED bus ELSE Announce(r)

\* 1. The result is stored, silently.
RecordResult(t) ==
    LET r == loop[t].rtc IN
    /\ At(t, "record")
    /\ \/ /\ row' = [row EXCEPT ![r] = [status |-> loop[t].result, sync |-> "pending"]]
          /\ GoTo(t, "submit")
          /\ UNCHANGED <<bus, ghosts, faults>>
       \/ /\ WriteFails
          /\ Errs(t, FALSE)
          /\ excused' = excused \cup {r}
          /\ UNCHANGED <<made, runs>>
    /\ UNCHANGED <<server, online, tabVars, retryCount>>

Reported(r, result) ==
    /\ told' = [told EXCEPT ![r] = @ \cup {result}]
    /\ news' = [news EXCEPT ![r] = @ \cup {result}]

\* 2. The RPC.  The connection may drop before the answer is in, the server may refuse, and
\* what it sends back may fail to be stored.
Submit(t) ==
    LET r == loop[t].rtc IN
    /\ At(t, "submit")
    /\ \/ /\ online
          /\ Reported(r, loop[t].result)
          /\ GoTo(t, "mark")
          /\ UNCHANGED <<online, faults>>
       \/ /\ ~online
          /\ Errs(t, TRUE)
          /\ UNCHANGED <<server, online, faults>>
       \/ /\ online
          /\ \/ Fault("conn") /\ online' = FALSE /\ Errs(t, TRUE)
             \/ Fault("rpc") /\ UNCHANGED online /\ Errs(t, FALSE)
          /\ UNCHANGED server \/ Reported(r, loop[t].result)
    /\ UNCHANGED <<row, tabVars, bus, retryCount, ghosts>>

\* 3. The row is marked synced.  A retry clears its counter.
MarkSynced(t) ==
    LET r == loop[t].rtc IN
    /\ At(t, "mark")
    /\ \/ /\ Sync(r, "synced")
          /\ Become(t, Iterate(t, loop[t]))
          /\ retryCount' = IF loop[t].kind = "retry" THEN [retryCount EXCEPT ![t][r] = 0]
                           ELSE retryCount
          /\ UNCHANGED faults
       \/ WriteFails /\ Errs(t, FALSE) /\ UNCHANGED retryCount
    /\ UNCHANGED <<server, online, tabVars, ghosts>>

\* The error reaches processOne: a retry counts it and passes it on to the loop, which
\* ends if it is a connection error; a new result is retried next; a denial is settled.
Thrown(t, conn) ==
    LET l == loop[t] IN
    CASE l.kind = "retry" -> /\ retryCount' = [retryCount EXCEPT ![t][l.rtc] = @ + 1]
                             /\ IF conn THEN Become(t, Exit(TRUE)) ELSE GoTo(t, "sleep")
      [] l.kind = "run"   -> Become(t, Iterate(t, l)) /\ UNCHANGED retryCount
      [] l.kind = "deny"  -> GoTo(t, "settle") /\ UNCHANGED retryCount

\* Any error marks the row failed and is thrown again.
MarkFailed(t) ==
    /\ At(t, "fail")
    /\ \/ Sync(loop[t].rtc, "failed") /\ Thrown(t, loop[t].conn) /\ UNCHANGED faults
       \/ WriteFails /\ Thrown(t, FALSE)
    /\ UNCHANGED <<server, online, tabVars, ghosts>>

\* A denial that could not be submitted is marked synced, not to ask the user again.
SettleDenial(t) ==
    LET r == loop[t].rtc IN
    /\ At(t, "settle")
    /\ \/ Sync(r, "synced") /\ UNCHANGED <<retryCount, faults>>
       \/ WriteFails /\ retryCount' = [retryCount EXCEPT ![t][r] = MaxRetry]
    /\ excused' = excused \cup {r}
    /\ Become(t, Iterate(t, loop[t]))
    /\ UNCHANGED <<server, online, tabVars, made, runs>>

-----------------------------------------------------------------------------
(* The tabs *)

\* a plausible slip: the lock is requested with the option 'steal'
AcquireStealing(t) ==
    /\ t \in waiting
    /\ holder' = t
    /\ waiting' = waiting \ {t}
    /\ Become(t, [NoLoop EXCEPT !.pc = "failed"])
    /\ UNCHANGED <<row, server, online, bus, retryCount, ghosts, faults>>

\* MasterLock: the lock is granted; onAcquire wakes the processor.
Acquire(t) ==
    /\ holder = None
    /\ t \in waiting
    /\ holder' = t
    /\ waiting' = waiting \ {t}
    /\ Become(t, [NoLoop EXCEPT !.pc = "failed"])
    /\ UNCHANGED <<row, server, online, bus, retryCount, ghosts, faults>>

InHand(t) == IF loop[t].kind = "retry" THEN {} ELSE {loop[t].rtc} \ {None}
Leaves(t) ==
    /\ holder' = IF holder = t THEN None ELSE holder
    /\ waiting' = waiting \ {t}
    /\ inbox' = inbox \ {t}
    /\ excused' = excused \cup InHand(t)
    /\ UNCHANGED <<row, server, online, unheard, made, runs>>

\* The component is unmounted or the user logs out: cancel() ends a sleep at once and
\* anything else at the next iteration; the lock goes to the next tab meanwhile.
Release(t) ==
    /\ t \in Live
    /\ Fault("release")
    /\ Leaves(t)
    /\ Become(t, IF loop[t].pc \in {"idle", "backoff", "sleep"} THEN Exit(TRUE)
                 ELSE [loop[t] EXCEPT !.aborted = TRUE])
    /\ UNCHANGED retryCount

\* The page is closed or crashes.
Close(t) ==
    /\ t \in Live
    /\ Fault("close")
    /\ Leaves(t)
    /\ Become(t, NoLoop)
    /\ retryCount' = [retryCount EXCEPT ![t] = NoRetries]

\* A new component: a new processor, which queues for the lock.
Open(t) ==
    /\ t \notin Live
    /\ At(t, "idle")
    /\ waiting' = waiting \cup {t}
    /\ Become(t, NoLoop)
    /\ retryCount' = [retryCount EXCEPT ![t] = NoRetries]
    /\ UNCHANGED <<row, server, online, holder, bus, ghosts, faults>>

-----------------------------------------------------------------------------

Work(t) ==
    \/ OnRtcUpdate(t) \/ QueryFailed(t) \/ QueryNew(t) \/ NothingToDo(t)
    \/ NoProgress(t) \/ SkipRetry(t) \/ TakeRetry(t) \/ TakeNew(t)
    \/ Deny(t) \/ Execute(t) \/ (\E result \in Result : ToolEnds(t, result))
    \/ BackoffEnds(t) \/ SleepEnds(t)
    \/ RecordResult(t) \/ Submit(t) \/ MarkSynced(t) \/ MarkFailed(t) \/ SettleDenial(t)

Next ==
    \/ \E r \in Rtc : Push(r) \/ Echo(r) \/ Replay(r)
    \/ Disconnect \/ Connect
    \/ \E t \in Tab : Work(t) \/ Acquire(t) \/ Release(t) \/ Close(t) \/ Open(t)

Spec == Init /\ [][Next]_vars

\* Timers, IndexedDB, the bus, the lock and the network go on.
Fairness ==
    /\ \A t \in Tab : WF_vars(Work(t)) /\ WF_vars(Acquire(t)) /\ WF_vars(Open(t))
    /\ WF_vars(Connect)

FairSpec == Spec /\ Fairness

-----------------------------------------------------------------------------

(***************************************************************************)
(* "pendingCheck ensures new pushes are not missed" (class comment, line   *)
(* 74): a master whose loop ended for want of work, with no event on its   *)
(* way to it, has no work, although the push may have come at any await of *)
(* the loop.  The exception is what was stored in silence, by a small gap  *)
(* fill or beside one, after the loop had last looked: nobody is told, and *)
(* the call waits for an event that has nothing to do with it.             *)
(***************************************************************************)
Asleep(t) == holder = t /\ At(t, "idle") /\ t \notin inbox
NoMissedPush == \A t \in Tab : Asleep(t) /\ ~loop[t].gaveUp => Due \subseteq unheard

(***************************************************************************)
(* A row marked synced was reported: the server has a result, whatever     *)
(* was lost, retried or done by another tab in between, unless a refusal   *)
(* was settled locally (lines 426-440).                                    *)
(***************************************************************************)
SyncedIsReported ==
    \A r \in Rtc \ excused : Stored(r) /\ row[r].sync = "synced" => told[r] # {}

(***************************************************************************)
(* The server is told only what the tool, the user or the timeout has      *)
(* produced, however often it is told: a retry takes its result from the   *)
(* row, which other tabs and the server overwrite.                         *)
(***************************************************************************)
ReportsAreTrue == \A r \in Rtc \ excused : told[r] \subseteq made[r]

(***************************************************************************)
(* Tools have side effects: lost answers, retries, reconnections and waits *)
(* never run one twice; only a tab that leaves with the RTC in hand or a   *)
(* failed local write can.                                                 *)
(***************************************************************************)
RunsOnce == \A r \in Rtc \ excused : runs[r] <= 1


(***************************************************************************)
(* Seen from the server, the tabs together carry out each call as          *)
(* RemoteCall says: one start, one verdict, and every report of it the     *)
(* same, whichever tab ran the tool, whichever reports again and whatever  *)
(* the shared row says meanwhile.  An excused call counts as lost.         *)
(***************************************************************************)
Phase(r) ==
    IF r \in excused THEN "lost"
    ELSE IF made[r] # {} THEN "decided"
    ELSE IF runs[r] # 0 THEN "started"
    ELSE IF Stored(r) THEN "pushed" ELSE "unknown"
Kept(f) == [r \in Rtc |-> IF r \in excused THEN {} ELSE f[r]]
Remote == INSTANCE RemoteCall WITH
    Call <- Rtc, Verdict <- Result, Refusal <- "failed",
    phase <- [r \in Rtc |-> Phase(r)], verdict <- Kept(made), told <- Kept(told)
ImplementsRemoteCall == Remote!Spec

(***************************************************************************)
(* A verdict in the table stands: no echo, retry, late marking or other    *)
(* tab puts another in its place, although each of them writes the row as  *)
(* it knows it, several awaits after it was read (index.ts:2373).          *)
(***************************************************************************)
VerdictStands ==
    [][\A r \in Rtc \ excused' :
          Stored(r) /\ row[r].status # "pending" => row'[r].status = row[r].status]_vars

(***************************************************************************)
(* Only faults excuse: while none has happened, nobody but the holder of   *)
(* the lock works, no submission has failed, and what is said of the RTCs  *)
(* that are not excused is said of all of them.                            *)
(***************************************************************************)
Undisturbed ==
    faults = 0 => /\ excused = {}
                  /\ \A r \in Rtc : Stored(r) => row[r].sync # "failed"
                  /\ \A t \in Tab : ~At(t, "idle") => holder = t

=============================================================================
