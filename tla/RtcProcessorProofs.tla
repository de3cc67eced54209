------------------------- MODULE RtcProcessorProofs -------------------------
(***************************************************************************)
(* Proofs about RtcProcessor, for any tabs, RTCs, retries and faults.      *)
(***************************************************************************)
EXTENDS RtcProcessor, TLAPS

(* The inductive invariant. *)

Working == {"start", "run", "backoff", "record", "submit", "mark", "fail", "settle"}

\* A loop holds an RTC the table has, and none while it looks for one; the kind of work
\* fits the place.
HoldsRow(t) ==
    /\ loop[t].pc \in Working => loop[t].rtc # None
    /\ loop[t].pc \in {"failed", "new"} => loop[t].rtc = None
    /\ loop[t].rtc # None => Stored(loop[t].rtc)
    /\ loop[t].pc \in {"start", "run"} => loop[t].kind = "run"
    /\ loop[t].pc = "backoff" => loop[t].kind = "retry"

\* A tab in the queue for the lock does nothing.
Queues(t) == t \in waiting => holder # t /\ At(t, "idle")

\* A retry under way has a retry left.
HasRetry(t) ==
    loop[t].kind = "retry" /\ loop[t].pc \in {"backoff", "record", "submit", "mark", "fail"}
        => retryCount[t][loop[t].rtc] < MaxRetry

Claims(t, r) == loop[t].rtc = r /\ loop[t].kind # "retry" /\ loop[t].pc \in {"start", "run", "record"}

\* What the server and the row say of r comes from a tool, the user or the timeout; an
\* executed RTC's row says so before anything is sent.
RowTrue(r) ==
    /\ told[r] \subseteq made[r] /\ news[r] \subseteq made[r]
    /\ Stored(r) => /\ row[r].status \in made[r] \cup {"pending"}
                    /\ row[r].status = "pending" => row[r].sync = "pending"
                    /\ row[r].sync = "synced" => told[r] # {}

LoopTrue(t, r) ==
    loop[t].rtc = r =>
        /\ loop[t].pc \in {"submit", "mark", "fail", "settle"} => row[r].status # "pending"
        /\ loop[t].pc \in {"record", "submit"} => loop[t].result \in made[r]
        /\ loop[t].pc \in {"found", "backoff"} /\ loop[t].kind = "retry"
              => loop[t].result \in made[r]
        /\ loop[t].pc = "mark" => told[r] # {}

\* Only the master has a tool in hand, and the tool of a pending row runs or has not yet.
LoopOnce(t, r) ==
    /\ Claims(t, r) => holder = t
    /\ loop[t].rtc = r /\ loop[t].pc = "start" => runs[r] = 0
    /\ loop[t].rtc = r /\ loop[t].pc = "found" /\ loop[t].kind = "run" /\ holder = t
          => runs[r] = 0

RowOnce(r) ==
    /\ runs[r] <= 1
    /\ runs[r] # 0 => Stored(r)
    /\ runs[r] # 0 /\ row[r].status = "pending"
          => \E t \in Tab : Claims(t, r) /\ loop[t].pc \in {"run", "record"}

IInv ==
    /\ TypeOK
    /\ \A t \in Tab : HoldsRow(t) /\ HasRetry(t) /\ Queues(t)
    /\ \A r \in Rtc \ excused :
          /\ RowTrue(r) /\ RowOnce(r)
          /\ \A t \in Tab : LoopTrue(t, r) /\ LoopOnce(t, r)

-----------------------------------------------------------------------------
(* Types *)

\* What the loop of a tab becomes is a loop.
LEMMA LoopTypes ==
    /\ NoLoop \in Loop
    /\ \A b \in BOOLEAN : Exit(b) \in Loop
    /\ \A t \in Tab, l \in Loop : Iterate(t, l) \in Loop
<1>1. NoLoop \in Loop
  BY DEF NoLoop, Loop, Result
<1>2. \A b \in BOOLEAN : Exit(b) \in Loop
  BY DEF Exit, NoLoop, Loop, Result
<1>3. \A t \in Tab, l \in Loop : Iterate(t, l) \in Loop
  <2>1. SUFFICES ASSUME NEW t \in Tab, NEW l \in Loop PROVE Iterate(t, l) \in Loop
    OBVIOUS
  <2>2. l.skipped \in Rtc \cup {None}
    BY DEF Loop
  <2>3. [NoLoop EXCEPT !.pc = "failed", !.skipped = l.skipped] \in Loop
    BY <1>1, <2>2 DEF Loop
  <2>4. [NoLoop EXCEPT !.gaveUp = TRUE] \in Loop
    BY <1>1 DEF Loop
  <2>5. QED
    BY <2>3, <2>4 DEF Iterate
<1>4. QED
  BY <1>1, <1>2, <1>3

LEMMA PcTypes ==
    ASSUME NEW l \in Loop,
           NEW pc \in {"failed", "new", "found", "start", "run", "backoff", "record", "submit",
                       "mark", "fail", "settle", "sleep"}
    PROVE  [l EXCEPT !.pc = pc] \in Loop
BY DEF Loop

LEMMA WithRowTypes ==
    ASSUME NEW l \in Loop, NEW r \in Rtc
    PROVE  WithRow(l, r) \in Loop
BY DEF WithRow, RetryResult, Loop, Result

LEMMA BecomeTypes ==
    ASSUME TypeOK, NEW t \in Tab, NEW l \in Loop, Become(t, l)
    PROVE  /\ loop' \in [Tab -> Loop]
           /\ loop'[t] = l
           /\ \A u \in Tab \ {t} : loop'[u] = loop[u]
BY DEF TypeOK, Become

\* Init is well typed.
LEMMA TypeInit == Init => TypeOK
<1> SUFFICES ASSUME Init PROVE TypeOK
  OBVIOUS
<1>1. row \in [Rtc -> Row \cup {None}] /\ told \in [Rtc -> SUBSET Result] /\ news = told
  BY DEF Init
<1>2. loop \in [Tab -> Loop]
  BY LoopTypes DEF Init
<1>3. retryCount \in [Tab -> [Rtc -> 0..MaxRetry]]
  BY BoundAssumption DEF Init, NoRetries
<1>4. made \in [Rtc -> SUBSET Result] /\ runs \in [Rtc -> 0..2] /\ excused \subseteq Rtc
  BY DEF Init
<1>5. online \in BOOLEAN /\ holder \in Tab \cup {None} /\ waiting \subseteq Tab
  BY DEF Init
<1>6. faults \in 0..MaxFaults /\ inbox \subseteq Tab /\ unheard \subseteq SmallFills
  BY BoundAssumption DEF Init
<1>7. QED
  BY <1>1, <1>2, <1>3, <1>4, <1>5, <1>6 DEF TypeOK

\* A change of a row, told or not, leaves the bus well typed.
LEMMA BusTypes ==
    ASSUME TypeOK
    PROVE  /\ TellAll => inbox' \subseteq Tab /\ unheard' \subseteq SmallFills
           /\ \A r \in Rtc : Announce(r) => inbox' \subseteq Tab /\ unheard' \subseteq SmallFills
BY DEF TypeOK, Announce, TellAll, Live

LEMMA FaultTypes ==
    ASSUME TypeOK, NEW kind, Fault(kind)
    PROVE  faults' \in 0..MaxFaults
BY BoundAssumption DEF TypeOK, Fault

LEMMA ReportedTypes ==
    ASSUME TypeOK, NEW r \in Rtc, NEW result \in Result, Reported(r, result)
    PROVE  told' \in [Rtc -> SUBSET Result] /\ news' \in [Rtc -> SUBSET Result]
BY DEF TypeOK, Reported

LEMMA CountTypes ==
    ASSUME TypeOK, NEW t \in Tab, NEW r \in Rtc, NEW n \in 0..MaxRetry
    PROVE  [retryCount EXCEPT ![t][r] = n] \in [Tab -> [Rtc -> 0..MaxRetry]]
BY DEF TypeOK

\* Updates arrive.
LEMMA TypeServer ==
    ASSUME TypeOK, NEW r \in Rtc, Push(r) \/ Echo(r) \/ Replay(r)
    PROVE  TypeOK'
<1> USE DEF Fault, ghosts, server, tabVars, bus
<1>1. inbox' \subseteq Tab /\ unheard' \subseteq SmallFills
  <2>1. Announce(r) \/ UNCHANGED <<inbox, unheard>>
    BY DEF Push, Echo, Replay
  <2>2. QED
    BY <2>1, BusTypes DEF TypeOK
<1>2. CASE Push(r)
  BY <1>1, <1>2 DEF Push, Row, TypeOK
<1>3. CASE Echo(r)
  BY <1>1, <1>3 DEF Echo, Row, TypeOK
<1>4. CASE Replay(r)
  BY <1>1, <1>4, BoundAssumption DEF Replay, Row, TypeOK
<1>5. QED
  BY <1>2, <1>3, <1>4

\* The connection is lost and restored.
LEMMA TypeConnection ==
    ASSUME TypeOK, Disconnect \/ Connect
    PROVE  TypeOK'
<1> USE DEF ghosts, server, tabVars, bus
<1>1. CASE Disconnect
  <2>1. faults' \in 0..MaxFaults
    BY <1>1, FaultTypes DEF Disconnect
  <2>2. online' \in BOOLEAN
    BY <1>1, Zenon DEF Disconnect
  <2>3. UNCHANGED <<row, told, news, holder, waiting, inbox, unheard, loop, retryCount, made, runs, excused>>
    BY <1>1, Zenon DEF Disconnect
  <2>4. QED
    BY <2>1, <2>2, <2>3 DEF TypeOK
<1>2. CASE Connect
  BY <1>2, BusTypes DEF Connect, TypeOK
<1>3. QED
  BY <1>1, <1>2

\* A step of the loop that changes neither row nor counters.
LEMMA TypeLoop ==
    ASSUME TypeOK, NEW t \in Tab,
           \/ OnRtcUpdate(t) \/ QueryFailed(t) \/ QueryNew(t) \/ NothingToDo(t) \/ NoProgress(t)
           \/ TakeRetry(t) \/ TakeNew(t) \/ BackoffEnds(t) \/ SleepEnds(t)
    PROVE  TypeOK'
<1> USE DEF ghosts, server, tabVars, bus
<1>1. loop[t] \in Loop
  BY DEF TypeOK
<1>2. PICK l \in Loop : Become(t, l)
  <2>1. CASE OnRtcUpdate(t)
    <3>1. [loop[t] EXCEPT !.pendingCheck = TRUE] \in Loop
      BY <1>1 DEF Loop
    <3>2. Woken(t) \in Loop
      BY <1>1, <3>1, LoopTypes DEF Woken
    <3>3. QED
      BY <1>1, <2>1, <3>2 DEF OnRtcUpdate
  <2>2. CASE QueryFailed(t) \/ QueryNew(t)
    BY <1>1, <2>2, PcTypes, WithRowTypes DEF GoTo, QueryFailed, QueryNew, Lowest, Retriable, Unexecuted
  <2>3. CASE NothingToDo(t) \/ NoProgress(t) \/ SleepEnds(t)
    BY <1>1, <2>3, LoopTypes DEF NothingToDo, NoProgress, SleepEnds
  <2>4. CASE TakeRetry(t) \/ TakeNew(t) \/ BackoffEnds(t)
    BY <1>1, <2>4, LoopTypes, PcTypes DEF GoTo, TakeRetry, TakeNew, BackoffEnds
  <2>5. QED
    BY <2>1, <2>2, <2>3, <2>4
<1>3. loop' \in [Tab -> Loop]
  BY <1>2, BecomeTypes
<1>4. loop[t].rtc \in Rtc \cup {None}
  BY <1>1 DEF Loop
<1>5. inbox' \subseteq Tab /\ unheard' \subseteq SmallFills /\ excused' \subseteq Rtc
  BY <1>4 DEF TypeOK, OnRtcUpdate, QueryFailed, QueryNew, NothingToDo, NoProgress, TakeRetry,
              TakeNew, BackoffEnds, SleepEnds, Takes
<1>6. UNCHANGED <<row, told, news, online, holder, waiting, retryCount, made, runs, faults>>
  BY DEF OnRtcUpdate, QueryFailed, QueryNew, NothingToDo, NoProgress, TakeRetry,
         TakeNew, BackoffEnds, SleepEnds, Takes
<1>7. QED
  BY <1>3, <1>5, <1>6 DEF TypeOK

\* The RTC in hand, and its row.
LEMMA InHandTypes ==
    ASSUME TypeOK, NEW t \in Tab, HoldsRow(t), loop[t].pc \in Working
    PROVE  /\ loop[t] \in Loop /\ loop[t].rtc \in Rtc /\ loop[t].result \in Result
           /\ row[loop[t].rtc] \in Row
BY DEF TypeOK, HoldsRow, Loop, Stored

\* A step of the loop that runs the tool or decides the result.
LEMMA TypeTool ==
    ASSUME TypeOK, NEW t \in Tab, HoldsRow(t),
           SkipRetry(t) \/ Deny(t) \/ Execute(t) \/ \E result \in Result : ToolEnds(t, result)
    PROVE  TypeOK'
<1> USE DEF ghosts, server, tabVars, bus
<1>1. loop[t] \in Loop /\ loop[t].rtc \in Rtc \cup {None}
  BY DEF TypeOK, Loop
<1>2. CASE SkipRetry(t)
  <2>1. [loop[t] EXCEPT !.skipped = loop[t].rtc] \in Loop
    BY <1>1 DEF Loop
  <2>2. loop' \in [Tab -> Loop]
    BY <1>2, <2>1, LoopTypes, BecomeTypes DEF SkipRetry
  <2>3. retryCount' \in [Tab -> [Rtc -> 0..MaxRetry]]
    BY <1>1, <1>2, BoundAssumption DEF SkipRetry, Takes, TypeOK
  <2>4. QED
    BY <1>2, <2>2, <2>3 DEF SkipRetry, Takes, TypeOK
<1>3. CASE Deny(t)
  <2>1. [loop[t] EXCEPT !.pc = "record", !.kind = "deny", !.result = "failed"] \in Loop
    BY <1>1 DEF Loop, Result
  <2>2. loop' \in [Tab -> Loop]
    BY <1>3, <2>1, BecomeTypes DEF Deny
  <2>3. QED
    BY <1>1, <1>3, <2>2 DEF Deny, TypeOK, Result
<1>4. CASE Execute(t)
  <2>1. loop' \in [Tab -> Loop]
    BY <1>1, <1>4, PcTypes, BecomeTypes DEF GoTo, Execute
  <2>2. runs' \in [Rtc -> 0..2]
    <3>1. loop[t].rtc \in Rtc
      BY <1>4, InHandTypes DEF Execute, At, Working
    <3>2. \A n \in 0..2 : (IF n = 2 THEN 2 ELSE n + 1) \in 0..2
      OBVIOUS
    <3>3. runs' = [runs EXCEPT ![loop[t].rtc] = IF runs[loop[t].rtc] = 2 THEN 2
                                               ELSE runs[loop[t].rtc] + 1]
      BY <1>4 DEF Execute
    <3>4. QED
      BY <3>1, <3>2, <3>3 DEF TypeOK
  <2>3. QED
    BY <1>4, <2>1, <2>2 DEF Execute, TypeOK
<1>5. CASE \E result \in Result : ToolEnds(t, result)
  <2>1. PICK result \in Result : ToolEnds(t, result)
    BY <1>5
  <2>2. [loop[t] EXCEPT !.pc = "record", !.result = result] \in Loop
    BY <1>1 DEF Loop, Result
  <2>3. loop' \in [Tab -> Loop]
    BY <2>1, <2>2, BecomeTypes DEF ToolEnds
  <2>4. QED
    BY <1>1, <2>1, <2>3 DEF ToolEnds, TypeOK, Result
<1>6. QED
  BY <1>2, <1>3, <1>4, <1>5

BusRowTypes ==
    row' \in [Rtc -> Row \cup {None}] /\ inbox' \subseteq Tab /\ unheard' \subseteq SmallFills

\* How a sync status or a failed write changes row, bus and faults.
LEMMA SyncTypes ==
    ASSUME TypeOK, NEW r \in Rtc, Stored(r), NEW sync \in {"pending", "failed", "synced"}
    PROVE  /\ Sync(r, sync) => BusRowTypes
           /\ WriteFails => row' = row /\ UNCHANGED bus /\ faults' \in 0..MaxFaults
<1>1. ASSUME Sync(r, sync) PROVE BusRowTypes
  <2>1. [row[r] EXCEPT !.sync = sync] \in Row
    BY DEF TypeOK, Stored, Row
  <2>2. row' = [row EXCEPT ![r] = [row[r] EXCEPT !.sync = sync]]
    BY <1>1 DEF Sync
  <2>3. QED
    BY <1>1, <2>1, <2>2, BusTypes DEF Sync, TypeOK, bus, BusRowTypes
<1>2. ASSUME WriteFails PROVE row' = row /\ UNCHANGED bus /\ faults' \in 0..MaxFaults
  BY <1>2, BoundAssumption DEF WriteFails, Fault, TypeOK
<1>3. QED
  BY <1>1, <1>2

\* submitRtcResult, up to the marking of the row.
LEMMA TypeSubmit ==
    ASSUME TypeOK, NEW t \in Tab, HoldsRow(t), RecordResult(t) \/ Submit(t) \/ MarkSynced(t)
    PROVE  TypeOK'
<1> USE DEF ghosts, server, tabVars, bus
<1>1. /\ loop[t] \in Loop /\ loop[t].rtc \in Rtc /\ loop[t].result \in Result
      /\ row[loop[t].rtc] \in Row /\ Stored(loop[t].rtc)
  BY InHandTypes DEF RecordResult, Submit, MarkSynced, At, Working, HoldsRow
<1>2. \A conn \in BOOLEAN : [loop[t] EXCEPT !.pc = "fail", !.conn = conn] \in Loop
  BY <1>1 DEF Loop
<1>3. \A conn \in BOOLEAN : Errs(t, conn) => loop' \in [Tab -> Loop]
  BY <1>2, BecomeTypes DEF Errs
<1>4. CASE RecordResult(t)
  <2>1. [status |-> loop[t].result, sync |-> "pending"] \in Row
    BY <1>1 DEF Row
  <2>2. loop' \in [Tab -> Loop]
    BY <1>1, <1>3, <1>4, PcTypes, BecomeTypes DEF GoTo, RecordResult
  <2>3. BusRowTypes
    BY <1>1, <1>4, <2>1 DEF RecordResult, WriteFails, TypeOK, BusRowTypes
  <2>4. faults' \in 0..MaxFaults
    <3>1. faults' = faults \/ Fault("write")
      BY <1>4 DEF RecordResult, WriteFails
    <3>2. QED
      BY <3>1, FaultTypes DEF TypeOK
  <2>5. excused' \subseteq Rtc
    BY <1>1, <1>4 DEF RecordResult, TypeOK
  <2>6. UNCHANGED <<told, news, online, holder, waiting, retryCount, made, runs>>
    BY <1>4 DEF RecordResult
  <2>7. QED
    BY <2>2, <2>3, <2>4, <2>5, <2>6 DEF TypeOK, BusRowTypes
<1>5. CASE Submit(t)
  <2>1. loop' \in [Tab -> Loop]
    BY <1>1, <1>3, <1>5, PcTypes, BecomeTypes DEF GoTo, Submit
  <2>2. told' \in [Rtc -> SUBSET Result] /\ news' \in [Rtc -> SUBSET Result]
    <3>1. UNCHANGED <<told, news>> \/ Reported(loop[t].rtc, loop[t].result)
      BY <1>5 DEF Submit
    <3>2. QED
      BY <1>1, <3>1, ReportedTypes DEF TypeOK
  <2>3. faults' \in 0..MaxFaults
    <3>1. faults' = faults \/ Fault("conn") \/ Fault("rpc")
      BY <1>5 DEF Submit
    <3>2. QED
      BY <3>1, FaultTypes DEF TypeOK
  <2>4. online' \in BOOLEAN
    BY <1>5, Zenon DEF Submit, TypeOK
  <2>5. UNCHANGED <<row, holder, waiting, inbox, unheard, retryCount, made, runs, excused>>
    BY <1>5, Zenon DEF Submit
  <2>6. QED
    BY <2>1, <2>2, <2>3, <2>4, <2>5 DEF TypeOK
<1>6. CASE MarkSynced(t)
  <2>1. loop' \in [Tab -> Loop]
    BY <1>1, <1>3, <1>6, LoopTypes, BecomeTypes DEF MarkSynced
  <2>2. BusRowTypes /\ faults' \in 0..MaxFaults
    BY <1>1, <1>6, SyncTypes DEF MarkSynced, TypeOK, BusRowTypes
  <2>3. retryCount' \in [Tab -> [Rtc -> 0..MaxRetry]]
    <3>1. retryCount' = retryCount \/ retryCount' = [retryCount EXCEPT ![t][loop[t].rtc] = 0]
      BY <1>6 DEF MarkSynced
    <3>2. QED
      <4>1. 0 \in 0..MaxRetry
        BY BoundAssumption
      <4>2. [retryCount EXCEPT ![t][loop[t].rtc] = 0] \in [Tab -> [Rtc -> 0..MaxRetry]]
        BY <1>1, <4>1, CountTypes
      <4>3. QED
        BY <3>1, <4>2 DEF TypeOK
  <2>4. UNCHANGED <<told, news, online, holder, waiting, made, runs, excused>>
    BY <1>6 DEF MarkSynced
  <2>5. QED
    BY <2>1, <2>2, <2>3, <2>4 DEF TypeOK, BusRowTypes
<1>7. QED
  BY <1>4, <1>5, <1>6

\* The catch of submitRtcResult and those above it.
LEMMA TypeFailure ==
    ASSUME TypeOK, NEW t \in Tab, HoldsRow(t), HasRetry(t), MarkFailed(t) \/ SettleDenial(t)
    PROVE  TypeOK'
<1> USE DEF ghosts, server, tabVars, bus
<1>1. /\ loop[t] \in Loop /\ loop[t].rtc \in Rtc
      /\ row[loop[t].rtc] \in Row /\ Stored(loop[t].rtc)
  BY InHandTypes DEF MarkFailed, SettleDenial, At, Working, HoldsRow
<1>2. CASE MarkFailed(t)
  <2>1. PICK conn \in BOOLEAN : Thrown(t, conn)
    <3>1. loop[t].conn \in BOOLEAN
      BY <1>1 DEF Loop
    <3>2. QED
      BY <1>2, <3>1, Zenon DEF MarkFailed
  <2>2. loop' \in [Tab -> Loop] /\ retryCount' \in [Tab -> [Rtc -> 0..MaxRetry]]
    <3>1. CASE loop[t].kind = "retry"
      <4>1. PICK l \in Loop : Become(t, l)
        BY <1>1, <2>1, <3>1, LoopTypes, PcTypes DEF GoTo, Thrown
      <4>2. retryCount[t][loop[t].rtc] + 1 \in 0..MaxRetry
        BY <1>1, <1>2, <3>1, BoundAssumption DEF HasRetry, MarkFailed, At, TypeOK
      <4>3. retryCount' = [retryCount EXCEPT ![t][loop[t].rtc] = retryCount[t][loop[t].rtc] + 1]
        BY <2>1, <3>1 DEF Thrown
      <4>4. QED
        BY <1>1, <4>1, <4>2, <4>3, CountTypes, BecomeTypes
    <3>2. CASE loop[t].kind = "run"
      BY <1>1, <2>1, <3>2, LoopTypes, BecomeTypes DEF Thrown, TypeOK
    <3>3. CASE loop[t].kind = "deny"
      BY <1>1, <2>1, <3>3, PcTypes, BecomeTypes DEF GoTo, Thrown, TypeOK
    <3>4. loop[t].kind \in {"run", "retry", "deny"}
      BY <1>1 DEF Loop
    <3>5. QED
      BY <3>1, <3>2, <3>3, <3>4
  <2>3. BusRowTypes /\ faults' \in 0..MaxFaults
    <3>1. (Sync(loop[t].rtc, "failed") /\ faults' = faults) \/ WriteFails
      BY <1>2 DEF MarkFailed
    <3>2. QED
      BY <1>1, <3>1, SyncTypes DEF TypeOK, BusRowTypes
  <2>4. UNCHANGED <<told, news, online, holder, waiting, made, runs, excused>>
    BY <1>2 DEF MarkFailed
  <2>5. QED
    BY <2>2, <2>3, <2>4 DEF TypeOK, BusRowTypes
<1>3. CASE SettleDenial(t)
  <2>1. loop' \in [Tab -> Loop]
    BY <1>1, <1>3, LoopTypes, BecomeTypes DEF SettleDenial
  <2>2. BusRowTypes /\ faults' \in 0..MaxFaults
    <3>1. (Sync(loop[t].rtc, "synced") /\ faults' = faults) \/ WriteFails
      BY <1>3 DEF SettleDenial
    <3>2. QED
      BY <1>1, <3>1, SyncTypes DEF TypeOK, BusRowTypes
  <2>3. retryCount' \in [Tab -> [Rtc -> 0..MaxRetry]]
    <3>1. MaxRetry \in 0..MaxRetry
      BY BoundAssumption
    <3>2. \/ retryCount' = retryCount
          \/ retryCount' = [retryCount EXCEPT ![t][loop[t].rtc] = MaxRetry]
      BY <1>3 DEF SettleDenial
    <3>3. [retryCount EXCEPT ![t][loop[t].rtc] = MaxRetry] \in [Tab -> [Rtc -> 0..MaxRetry]]
      BY <1>1, <3>1, CountTypes
    <3>4. QED
      BY <3>2, <3>3 DEF TypeOK
  <2>4. excused' \subseteq Rtc
    BY <1>1, <1>3 DEF SettleDenial, TypeOK
  <2>5. UNCHANGED <<told, news, online, holder, waiting, made, runs>>
    BY <1>3 DEF SettleDenial
  <2>6. QED
    BY <2>1, <2>2, <2>3, <2>4, <2>5 DEF TypeOK, BusRowTypes
<1>4. QED
  BY <1>2, <1>3

\* Tabs come and go.
LEMMA TypeTabs ==
    ASSUME TypeOK, NEW t \in Tab, Acquire(t) \/ Release(t) \/ Close(t) \/ Open(t)
    PROVE  TypeOK'
<1> USE DEF ghosts, server, tabVars, bus
<1>1. loop[t] \in Loop /\ InHand(t) \subseteq Rtc
  BY DEF TypeOK, Loop, InHand
<1>2. PICK l \in Loop : Become(t, l)
  <2>1. [loop[t] EXCEPT !.aborted = TRUE] \in Loop
    BY <1>1 DEF Loop
  <2>2. [NoLoop EXCEPT !.pc = "failed"] \in Loop
    BY LoopTypes, PcTypes
  <2>3. QED
    BY <2>1, <2>2, LoopTypes DEF Acquire, Release, Close, Open
<1>3. loop' \in [Tab -> Loop]
  BY <1>2, BecomeTypes
<1>4. retryCount' \in [Tab -> [Rtc -> 0..MaxRetry]]
  <2>1. NoRetries \in [Rtc -> 0..MaxRetry]
    BY BoundAssumption DEF NoRetries
  <2>2. retryCount' = retryCount \/ retryCount' = [retryCount EXCEPT ![t] = NoRetries]
    BY DEF Acquire, Release, Close, Open
  <2>3. QED
    BY <2>1, <2>2 DEF TypeOK
<1>5. faults' \in 0..MaxFaults
  <2>1. faults' = faults \/ Fault("release") \/ Fault("close")
    BY DEF Acquire, Release, Close, Open
  <2>2. QED
    BY <2>1, FaultTypes DEF TypeOK
<1>6. /\ holder' \in Tab \cup {None} /\ waiting' \subseteq Tab /\ inbox' \subseteq Tab
      /\ unheard' \subseteq SmallFills /\ excused' \subseteq Rtc
  BY <1>1 DEF Acquire, Release, Close, Open, Leaves, TypeOK
<1>7. UNCHANGED <<row, told, news, online, made, runs>>
  BY DEF Acquire, Release, Close, Open, Leaves
<1>8. QED
  BY <1>3, <1>4, <1>5, <1>6, <1>7 DEF TypeOK

LEMMA TypeStep ==
    ASSUME TypeOK, \A t \in Tab : HoldsRow(t) /\ HasRetry(t), [Next]_vars
    PROVE  TypeOK'
<1>1. CASE \E r \in Rtc : Push(r) \/ Echo(r) \/ Replay(r)
  BY <1>1, TypeServer
<1>2. CASE Disconnect \/ Connect
  <2>1. CASE Disconnect
    BY <2>1, TypeConnection
  <2>2. CASE Connect
    BY <2>2, TypeConnection
  <2>3. QED
    BY <1>2, <2>1, <2>2
<1>3. ASSUME NEW t \in Tab, Work(t) PROVE TypeOK'
  BY <1>3, TypeLoop, TypeTool, TypeSubmit, TypeFailure DEF Work
<1>4. ASSUME NEW t \in Tab, Acquire(t) \/ Release(t) \/ Close(t) \/ Open(t) PROVE TypeOK'
  BY <1>4, TypeTabs
<1>5. CASE UNCHANGED vars
  BY <1>5 DEF vars, TypeOK
<1>6. QED
  BY <1>1, <1>2, <1>3, <1>4, <1>5 DEF Next

-----------------------------------------------------------------------------
(* What a step does to the loops and to the table *)

\* The loop starts an iteration or ends: it has nothing in hand.
Drops(l) == l.rtc = None /\ l.kind = "run" /\ l.pc \in {"idle", "failed"}

LEMMA Dropping ==
    /\ Drops(NoLoop)
    /\ \A b : Drops(Exit(b))
    /\ \A t, l : Drops(Iterate(t, l))
<1>1. Drops(NoLoop) /\ Drops([NoLoop EXCEPT !.pc = "failed"])
  BY DEF NoLoop, Drops
<1>2. \A b : Drops(Exit(b))
  BY DEF Exit, NoLoop, Drops
<1>3. \A t, l : Drops(Iterate(t, l))
  BY DEF Iterate, NoLoop, Drops
<1>4. QED
  BY <1>1, <1>2, <1>3

\* The loop goes on with what it has in hand.
Keeps(l, m) == m.rtc = l.rtc /\ m.kind = l.kind /\ m.result = l.result

\* Every step of a tab's loop: it drops what it has, keeps it, reads a row, or decides a
\* result; and what it does to the rest where the two go together.
Moves(t, l, m) ==
    \/ Drops(m) /\ (l.pc \notin {"start", "run", "record"} \/ InHand(t) \subseteq excused')
    \/ Keeps(l, m) /\ m.pc = l.pc
    \/ Keeps(l, m) /\ l.pc = "failed" /\ m.pc = "new"
    \/ Keeps(l, m) /\ l.pc = "new" /\ m.pc = "found"
    \/ /\ Keeps(l, m) /\ l.rtc # None /\ l.pc = "found" /\ l.kind = "retry" /\ m.pc = "backoff"
       /\ ~Exhausted(t, l.rtc)
    \/ /\ Keeps(l, m) /\ l.rtc # None /\ l.pc = "found" /\ l.kind = "run" /\ m.pc = "start"
       /\ holder = t \/ l.rtc \in excused'
    \/ Keeps(l, m) /\ l.pc = "start" /\ m.pc = "run"
    \/ Keeps(l, m) /\ l.pc = "backoff" /\ m.pc = "record"
    \/ /\ Keeps(l, m) /\ l.pc = "record" /\ m.pc = "submit"
       /\ row' = [row EXCEPT ![l.rtc] = [status |-> l.result, sync |-> "pending"]]
    \/ Keeps(l, m) /\ l.pc = "record" /\ m.pc = "fail" /\ l.rtc \in excused'
    \/ Keeps(l, m) /\ l.pc = "submit" /\ m.pc = "mark" /\ Reported(l.rtc, l.result)
    \/ Keeps(l, m) /\ l.pc = "submit" /\ m.pc = "fail"
    \/ Keeps(l, m) /\ l.pc = "mark" /\ m.pc = "fail"
    \/ Keeps(l, m) /\ l.pc = "fail" /\ m.pc \in {"settle", "sleep"}
    \/ /\ l.pc = "start" /\ m.pc = "record" /\ m.rtc = l.rtc /\ m.kind = "deny"
       /\ made' = [made EXCEPT ![l.rtc] = @ \cup {m.result}]
    \/ /\ l.pc = "run" /\ m.pc = "record" /\ m.rtc = l.rtc /\ m.kind = l.kind
       /\ made' = [made EXCEPT ![l.rtc] = @ \cup {m.result}]
    \/ \E r \in Due : l.pc \in {"failed", "new"} /\ m = WithRow(l, r)

Acts(t) == Work(t) \/ Acquire(t) \/ Release(t) \/ Close(t) \/ Open(t)

Rest(t) == \A u \in Tab \ {t} : loop'[u] = loop[u]

LEMMA OthersRest ==
    ASSUME TypeOK, NEW t \in Tab, Acts(t)
    PROVE  Rest(t)
<1>1. \A k : Become(t, k) => Rest(t)
  BY DEF TypeOK, Become, Rest
<1>2. \A pc, b : GoTo(t, pc) \/ Errs(t, b) => Rest(t)
  BY <1>1 DEF GoTo, Errs
<1>3. OnRtcUpdate(t) => Rest(t)
  BY <1>1, <1>2 DEF OnRtcUpdate
<1>4. QueryFailed(t) => Rest(t)
  BY <1>1, <1>2 DEF QueryFailed
<1>5. QueryNew(t) => Rest(t)
  BY <1>1, <1>2 DEF QueryNew
<1>6. NothingToDo(t) => Rest(t)
  BY <1>1, <1>2 DEF NothingToDo
<1>7. NoProgress(t) => Rest(t)
  BY <1>1, <1>2 DEF NoProgress
<1>8. SkipRetry(t) => Rest(t)
  BY <1>1, <1>2 DEF SkipRetry
<1>9. TakeRetry(t) => Rest(t)
  BY <1>1, <1>2 DEF TakeRetry
<1>10. TakeNew(t) => Rest(t)
  BY <1>1, <1>2 DEF TakeNew
<1>11. Deny(t) => Rest(t)
  BY <1>1, <1>2 DEF Deny
<1>12. Execute(t) => Rest(t)
  BY <1>1, <1>2 DEF Execute
<1>13. BackoffEnds(t) => Rest(t)
  BY <1>1, <1>2 DEF BackoffEnds
<1>14. SleepEnds(t) => Rest(t)
  BY <1>1, <1>2 DEF SleepEnds
<1>15. RecordResult(t) => Rest(t)
  BY <1>1, <1>2 DEF RecordResult
<1>16. Submit(t) => Rest(t)
  BY <1>1, <1>2 DEF Submit
<1>17. MarkSynced(t) => Rest(t)
  BY <1>1, <1>2 DEF MarkSynced
<1>18. SettleDenial(t) => Rest(t)
  BY <1>1, <1>2 DEF SettleDenial
<1>19. Acquire(t) => Rest(t)
  BY <1>1, <1>2 DEF Acquire
<1>20. Release(t) => Rest(t)
  BY <1>1, <1>2 DEF Release
<1>21. Close(t) => Rest(t)
  BY <1>1, <1>2 DEF Close
<1>22. Open(t) => Rest(t)
  BY <1>1, <1>2 DEF Open
<1>23. \A result \in Result : ToolEnds(t, result) => Rest(t)
  BY <1>1 DEF ToolEnds
<1>24. ASSUME MarkFailed(t) PROVE Rest(t)
  <2>1. PICK conn : Thrown(t, conn)
    BY <1>24, Zenon DEF MarkFailed
  <2>2. loop[t].kind \in {"run", "retry", "deny"}
    BY DEF TypeOK, Loop
  <2>3. QED
    BY <1>1, <1>2, <2>1, <2>2 DEF Thrown
<1>25. QED
  BY <1>3, <1>4, <1>5, <1>6, <1>7, <1>8, <1>9, <1>10, <1>11, <1>12, <1>13, <1>14, <1>15, <1>16, <1>17, <1>18, <1>19, <1>20, <1>21, <1>22, <1>23, <1>24 DEF Acts, Work

LEMMA Moving ==
    ASSUME TypeOK, NEW t \in Tab, Queues(t), Acts(t)
    PROVE  Moves(t, loop[t], loop'[t]) /\ \A u \in Tab \ {t} : loop'[u] = loop[u]
<1>0. \A k : k = loop[t] => k \in Loop
  BY DEF TypeOK
<1> SUFFICES ASSUME NEW l \in Loop, NEW m, l = loop[t], m = loop'[t]
             PROVE  Moves(t, l, m) /\ \A u \in Tab \ {t} : loop'[u] = loop[u]
  BY <1>0
<1>1. l \in Loop
  OBVIOUS
<1>2. \A k : Become(t, k) => m = k /\ \A u \in Tab \ {t} : loop'[u] = loop[u]
  BY DEF TypeOK, Become
<1>3. \A pc : GoTo(t, pc) => Keeps(l, m) /\ m.pc = pc
  BY DEF TypeOK, GoTo, Become, Keeps, Loop
<1>4. \A b : Errs(t, b) => Keeps(l, m) /\ m.pc = "fail"
  BY DEF TypeOK, Errs, Become, Keeps, Loop
<1>5. \A k, b : Become(t, Iterate(t, k)) \/ Become(t, Exit(b)) \/ Become(t, NoLoop) => Drops(m)
  BY <1>2, Dropping
<1>6. \A u \in Tab \ {t} : loop'[u] = loop[u]
  BY OthersRest DEF Rest
<1> SUFFICES Moves(t, l, m)
  BY <1>6
<1>7. CASE OnRtcUpdate(t)
  <2>1. m = l \/ m = Woken(t)
    BY <1>2, <1>7 DEF OnRtcUpdate
  <2>2. m = l \/ (Drops(m) /\ l.pc = "idle") \/ m = [l EXCEPT !.pendingCheck = TRUE]
    <3>1. \/ Woken(t) \in {[l EXCEPT !.pendingCheck = TRUE], l}
          \/ Woken(t) = Iterate(t, NoLoop) /\ l.pc = "idle"
      BY DEF Woken, At
    <3>2. m = Iterate(t, NoLoop) => Drops(m)
      <4>1. Drops(Iterate(t, NoLoop))
        BY Dropping
      <4>2. QED
        BY <4>1
    <3>3. QED
      BY <2>1, <3>1, <3>2
  <2>3. ASSUME m = [l EXCEPT !.pendingCheck = TRUE] PROVE Keeps(l, m) /\ m.pc = l.pc
    BY <2>3 DEF Keeps, Loop
  <2>4. (Drops(m) /\ l.pc = "idle") \/ (Keeps(l, m) /\ m.pc = l.pc)
    BY <2>2, <2>3 DEF Keeps
  <2>5. QED
    BY <2>4 DEF Moves
<1>8. CASE QueryFailed(t) \/ QueryNew(t)
  <2>1. CASE \E r \in Due : l.pc \in {"failed", "new"} /\ m = WithRow(l, r)
    BY <2>1 DEF Moves
  <2>2. CASE QueryFailed(t) /\ GoTo(t, "new")
    BY <1>3, <2>2 DEF QueryFailed, At, Moves
  <2>3. CASE QueryNew(t) /\ GoTo(t, "found")
    BY <1>3, <2>3 DEF QueryNew, At, Moves
  <2>4. QED
    BY <1>2, <1>8, <2>1, <2>2, <2>3 DEF QueryFailed, QueryNew, At, Lowest, Due
<1>9. CASE NothingToDo(t) \/ NoProgress(t) \/ SkipRetry(t) \/ SleepEnds(t) \/ SettleDenial(t)
  <2>1. Drops(m) /\ l.pc \in {"found", "sleep", "settle"}
    BY <1>5, <1>9 DEF NothingToDo, NoProgress, SkipRetry, SleepEnds, SettleDenial, Takes, At
  <2>2. QED
    BY <2>1 DEF Moves
<1>10. CASE TakeRetry(t)
  BY <1>3, <1>5, <1>10 DEF TakeRetry, Takes, At, Moves
<1>11. CASE TakeNew(t)
  BY <1>3, <1>11 DEF TakeNew, Takes, At, Moves
<1>12. CASE Deny(t)
  <2>1. m = [l EXCEPT !.pc = "record", !.kind = "deny", !.result = "failed"] /\ l.pc = "start"
    BY <1>2, <1>12 DEF Deny, At
  <2>2. m.pc = "record" /\ m.kind = "deny" /\ m.rtc = l.rtc /\ m.result = "failed"
    BY <1>1, <2>1 DEF Loop
  <2>3. made' = [made EXCEPT ![l.rtc] = @ \cup {m.result}]
    BY <1>12, <2>2 DEF Deny
  <2>4. QED
    BY <2>1, <2>2, <2>3 DEF Moves
<1>13. CASE Execute(t)
  BY <1>3, <1>13 DEF Execute, At, Moves
<1>14. CASE \E result \in Result : ToolEnds(t, result)
  <2>1. PICK result \in Result : ToolEnds(t, result)
    BY <1>14
  <2>2. m = [l EXCEPT !.pc = "record", !.result = result] /\ l.pc = "run"
    BY <1>2, <2>1 DEF ToolEnds, At
  <2>3. m.pc = "record" /\ m.kind = l.kind /\ m.rtc = l.rtc /\ m.result = result
    BY <1>1, <2>2 DEF Loop
  <2>4. made' = [made EXCEPT ![l.rtc] = @ \cup {m.result}]
    BY <2>1, <2>3 DEF ToolEnds
  <2>5. QED
    BY <2>2, <2>3, <2>4 DEF Moves
<1>15. CASE BackoffEnds(t)
  BY <1>3, <1>15 DEF BackoffEnds, At, Moves
<1>16. CASE RecordResult(t)
  BY <1>3, <1>4, <1>16 DEF RecordResult, At, Moves
<1>17. CASE Submit(t)
  BY <1>3, <1>4, <1>17 DEF Submit, At, Moves
<1>18. CASE MarkSynced(t)
  BY <1>4, <1>5, <1>18 DEF MarkSynced, At, Moves
<1>19. CASE MarkFailed(t)
  <2>1. PICK conn : Thrown(t, conn)
    BY <1>19, Zenon DEF MarkFailed
  <2>2. l.pc = "fail" /\ l.kind \in {"run", "retry", "deny"}
    BY <1>1, <1>19 DEF MarkFailed, At, Loop
  <2>3. CASE l.kind = "retry"
    BY <1>3, <1>5, <2>1, <2>2, <2>3 DEF Thrown, Moves
  <2>4. CASE l.kind = "run"
    BY <1>5, <2>1, <2>2, <2>4 DEF Thrown, Moves
  <2>5. CASE l.kind = "deny"
    BY <1>3, <2>1, <2>2, <2>5 DEF Thrown, Moves
  <2>6. QED
    BY <2>2, <2>3, <2>4, <2>5
<1>20. CASE Acquire(t)
  <2>1. Drops([NoLoop EXCEPT !.pc = "failed"])
    BY DEF NoLoop, Drops
  <2>2. l.pc = "idle"
    BY <1>20 DEF Acquire, Queues, At
  <2>3. QED
    BY <1>2, <1>20, <2>1, <2>2 DEF Acquire, Moves
<1>21. CASE Release(t)
  <2>1. Become(t, Exit(TRUE)) \/ Become(t, [l EXCEPT !.aborted = TRUE])
    BY <1>21 DEF Release
  <2>2. ASSUME m = [l EXCEPT !.aborted = TRUE] PROVE Keeps(l, m) /\ m.pc = l.pc
    BY <2>2 DEF Keeps, Loop
  <2>3. Drops(m) \/ m = [l EXCEPT !.aborted = TRUE]
    BY <1>2, <1>5, <2>1
  <2>4. InHand(t) \subseteq excused'
    BY <1>21 DEF Release, Leaves
  <2>5. QED
    BY <2>2, <2>3, <2>4 DEF Moves
<1>22. CASE Close(t) \/ Open(t)
  <2>1. Become(t, NoLoop)
    BY <1>22 DEF Close, Open
  <2>2. Drops(m)
    BY <1>2, <2>1 DEF Drops, NoLoop
  <2>3. l.pc = "idle" \/ InHand(t) \subseteq excused'
    BY <1>22 DEF Close, Open, Leaves, At
  <2>4. QED
    BY <2>2, <2>3 DEF Moves
<1>23. QED
  BY <1>6, <1>7, <1>8, <1>9, <1>10, <1>11, <1>12, <1>13, <1>14, <1>15, <1>16, <1>17, <1>18, <1>19,
     <1>20, <1>21, <1>22 DEF Acts, Work

\* What a step of a tab does to the server, ...
Tells(t, r) ==
    \/ told'[r] = told[r] /\ news'[r] = news[r]
    \/ /\ At(t, "submit") /\ loop[t].rtc = r
       /\ told'[r] = told[r] \cup {loop[t].result} /\ news'[r] = news[r] \cup {loop[t].result}

LEMMA Telling ==
    ASSUME TypeOK, NEW t \in Tab, Acts(t), NEW r \in Rtc
    PROVE  Tells(t, r)
<1> USE DEF server, Leaves
<1>1. CASE Submit(t)
  <2>1. UNCHANGED server \/ Reported(loop[t].rtc, loop[t].result)
    BY <1>1 DEF Submit
  <2>2. At(t, "submit")
    BY <1>1 DEF Submit
  <2>3. QED
    BY <2>1, <2>2 DEF Reported, Tells, TypeOK
<1>2. CASE RecordResult(t) \/ MarkSynced(t) \/ MarkFailed(t) \/ SettleDenial(t)
  BY <1>2 DEF RecordResult, MarkSynced, MarkFailed, SettleDenial, Tells
<1>3. CASE \/ OnRtcUpdate(t) \/ QueryFailed(t) \/ QueryNew(t) \/ NothingToDo(t) \/ NoProgress(t)
           \/ SkipRetry(t) \/ TakeRetry(t) \/ TakeNew(t) \/ BackoffEnds(t) \/ SleepEnds(t)
  BY <1>3 DEF OnRtcUpdate, QueryFailed, QueryNew, NothingToDo, NoProgress, SkipRetry, TakeRetry,
              TakeNew, BackoffEnds, SleepEnds, Takes, Tells
<1>4. CASE Deny(t) \/ Execute(t) \/ \E result \in Result : ToolEnds(t, result)
  BY <1>4 DEF Deny, Execute, ToolEnds, Tells
<1>5. CASE Acquire(t) \/ Release(t) \/ Close(t) \/ Open(t)
  BY <1>5 DEF Acquire, Release, Close, Open, Tells
<1>6. QED
  BY <1>1, <1>2, <1>3, <1>4, <1>5 DEF Acts, Work

\* ... to the tools, ...
Makes(t, r) == made[r] \subseteq made'[r]
Runs(t, r) ==
    \/ runs'[r] = runs[r]
    \/ /\ At(t, "start") /\ loop[t].rtc = r /\ loop'[t].pc = "run"
       /\ runs'[r] = IF runs[r] = 2 THEN 2 ELSE runs[r] + 1

LEMMA Running ==
    ASSUME TypeOK, NEW t \in Tab, Acts(t), NEW r \in Rtc
    PROVE  Makes(t, r) /\ Runs(t, r)
<1> USE DEF ghosts, Leaves
<1>1. CASE Execute(t)
  <2>1. loop'[t].pc = "run"
    BY <1>1 DEF Execute, GoTo, Become, TypeOK, Loop
  <2>2. runs' = [runs EXCEPT ![loop[t].rtc] = IF runs[loop[t].rtc] = 2 THEN 2
                                             ELSE runs[loop[t].rtc] + 1]
    BY <1>1 DEF Execute
  <2>3. \/ runs'[r] = runs[r]
        \/ loop[t].rtc = r /\ runs'[r] = IF runs[r] = 2 THEN 2 ELSE runs[r] + 1
    BY <2>2 DEF TypeOK
  <2>4. QED
    BY <1>1, <2>1, <2>3 DEF Execute, Makes, Runs
<1>2. CASE Deny(t) \/ \E result \in Result : ToolEnds(t, result)
  BY <1>2 DEF Deny, ToolEnds, Makes, Runs, TypeOK
<1>3. CASE RecordResult(t) \/ Submit(t) \/ MarkSynced(t) \/ MarkFailed(t) \/ SettleDenial(t)
  BY <1>3 DEF RecordResult, Submit, MarkSynced, MarkFailed, SettleDenial, Makes, Runs
<1>4. CASE \/ OnRtcUpdate(t) \/ QueryFailed(t) \/ QueryNew(t) \/ NothingToDo(t) \/ NoProgress(t)
           \/ SkipRetry(t) \/ TakeRetry(t) \/ TakeNew(t) \/ BackoffEnds(t) \/ SleepEnds(t)
  BY <1>4 DEF OnRtcUpdate, QueryFailed, QueryNew, NothingToDo, NoProgress, SkipRetry, TakeRetry,
              TakeNew, BackoffEnds, SleepEnds, Takes, Makes, Runs
<1>5. CASE Acquire(t) \/ Release(t) \/ Close(t) \/ Open(t)
  BY <1>5 DEF Acquire, Release, Close, Open, Makes, Runs
<1>6. QED
  BY <1>1, <1>2, <1>3, <1>4, <1>5 DEF Acts, Work

\* ... to the table, ...
Marks(t, r, pc, sync) ==
    /\ At(t, pc) /\ loop[t].rtc = r
    /\ row'[r].status = row[r].status /\ row'[r].sync = sync /\ Stored(r)'

Writes(t, r) ==
    \/ row'[r] = row[r]
    \/ /\ At(t, "record") /\ loop[t].rtc = r
       /\ row'[r].status = loop[t].result /\ row'[r].sync = "pending" /\ Stored(r)'
    \/ Marks(t, r, "mark", "synced") \/ Marks(t, r, "fail", "failed")
    \/ Marks(t, r, "settle", "synced") /\ r \in excused'

LEMMA Writing ==
    ASSUME TypeOK, NEW t \in Tab, HoldsRow(t), Acts(t), NEW r \in Rtc
    PROVE  Writes(t, r)
<1>1. \A q \in Row : q # None
  BY NoneAssumption
<1>2. ASSUME NEW q \in Rtc, Stored(q), NEW sync \in {"pending", "failed", "synced"}, Sync(q, sync)
      PROVE  \/ row'[r] = row[r]
             \/ q = r /\ row'[r].status = row[r].status /\ row'[r].sync = sync /\ Stored(r)'
  <2>1. row[q] \in Row /\ [row[q] EXCEPT !.sync = sync] \in Row
    BY <1>2 DEF TypeOK, Stored, Row
  <2>2. row' = [row EXCEPT ![q] = [row[q] EXCEPT !.sync = sync]]
    BY <1>2 DEF Sync
  <2>3. row'[r] = IF r = q THEN [row[q] EXCEPT !.sync = sync] ELSE row[r]
    BY <2>2 DEF TypeOK
  <2>4. [row[q] EXCEPT !.sync = sync].sync = sync
    BY <2>1 DEF Row
  <2>5. [row[q] EXCEPT !.sync = sync].status = row[q].status
    BY <2>1 DEF Row
  <2>6. QED
    BY <1>1, <2>1, <2>3, <2>4, <2>5 DEF Stored
<1>3. loop[t].pc \in Working => loop[t].rtc \in Rtc /\ Stored(loop[t].rtc) /\ loop[t].result \in Result
  BY InHandTypes DEF HoldsRow
<1>4. CASE RecordResult(t)
  <2>1. loop[t].rtc \in Rtc /\ loop[t].result \in Result /\ At(t, "record")
    BY <1>3, <1>4 DEF RecordResult, At, Working
  <2>2. [status |-> loop[t].result, sync |-> "pending"] \in Row
    BY <2>1 DEF Row
  <2>3. \/ row' = row
        \/ row' = [row EXCEPT ![loop[t].rtc] = [status |-> loop[t].result, sync |-> "pending"]]
    BY <1>4 DEF RecordResult, WriteFails
  <2>4. row'[r] = row[r] \/ (r = loop[t].rtc /\ row'[r] = [status |-> loop[t].result, sync |-> "pending"])
    BY <2>1, <2>3 DEF TypeOK
  <2>5. QED
    BY <1>1, <2>1, <2>2, <2>4 DEF Writes, Stored
<1>5. CASE MarkSynced(t)
  <2>1. Sync(loop[t].rtc, "synced") \/ row' = row
    BY <1>5 DEF MarkSynced, WriteFails
  <2>2. loop[t].rtc \in Rtc /\ Stored(loop[t].rtc) /\ At(t, "mark")
    BY <1>3, <1>5 DEF MarkSynced, At, Working
  <2>3. QED
    BY <1>2, <2>1, <2>2 DEF Writes, Marks
<1>6. CASE MarkFailed(t)
  <2>1. Sync(loop[t].rtc, "failed") \/ row' = row
    BY <1>6 DEF MarkFailed, WriteFails
  <2>2. loop[t].rtc \in Rtc /\ Stored(loop[t].rtc) /\ At(t, "fail")
    BY <1>3, <1>6 DEF MarkFailed, At, Working
  <2>3. QED
    BY <1>2, <2>1, <2>2 DEF Writes, Marks
<1>7. CASE SettleDenial(t)
  <2>1. Sync(loop[t].rtc, "synced") \/ row' = row
    BY <1>7 DEF SettleDenial, WriteFails
  <2>2. loop[t].rtc \in Rtc /\ Stored(loop[t].rtc) /\ At(t, "settle")
    BY <1>3, <1>7 DEF SettleDenial, At, Working
  <2>3. loop[t].rtc \in excused'
    BY <1>7 DEF SettleDenial
  <2>4. QED
    BY <1>2, <2>1, <2>2, <2>3 DEF Writes, Marks
<1>8. CASE \/ OnRtcUpdate(t) \/ QueryFailed(t) \/ QueryNew(t) \/ NothingToDo(t) \/ NoProgress(t)
           \/ SkipRetry(t) \/ TakeRetry(t) \/ TakeNew(t) \/ BackoffEnds(t) \/ SleepEnds(t)
  BY <1>8 DEF OnRtcUpdate, QueryFailed, QueryNew, NothingToDo, NoProgress, SkipRetry, TakeRetry,
              TakeNew, BackoffEnds, SleepEnds, Takes, Writes
<1>9. CASE Deny(t) \/ Execute(t) \/ Submit(t) \/ \E result \in Result : ToolEnds(t, result)
  BY <1>9 DEF Deny, Execute, ToolEnds, Submit, Writes
<1>10. CASE Acquire(t) \/ Release(t) \/ Close(t) \/ Open(t)
  BY <1>10 DEF Acquire, Release, Close, Open, Leaves, Writes
<1>11. QED
  BY <1>4, <1>5, <1>6, <1>7, <1>8, <1>9, <1>10 DEF Acts, Work

\* ... to the counters: they move where the RTC is put down or its failure was seen, ...
Counts(t) ==
    /\ \A u \in Tab \ {t} : retryCount'[u] = retryCount[u]
    /\ \/ retryCount' = retryCount
       \/ loop'[t].pc \notin {"backoff", "record", "submit", "mark", "fail"}

LEMMA Counting ==
    ASSUME TypeOK, NEW t \in Tab, Acts(t)
    PROVE  Counts(t)
<1>1. \A l : Become(t, l) => loop'[t] = l
  BY DEF TypeOK, Become
<1>2. \A l : Drops(l) => l.pc \notin {"backoff", "record", "submit", "mark", "fail"}
  BY DEF Drops
<1>3. CASE SkipRetry(t)
  <2>1. loop'[t] = Iterate(t, [loop[t] EXCEPT !.skipped = loop[t].rtc])
    BY <1>1, <1>3 DEF SkipRetry
  <2>2. Drops(loop'[t])
    BY <2>1, Dropping
  <2>3. QED
    BY <1>2, <1>3, <2>2 DEF SkipRetry, Counts, TypeOK
<1>4. CASE MarkSynced(t)
  <2>1. CASE retryCount' = retryCount
    BY <2>1 DEF Counts
  <2>2. CASE retryCount' # retryCount
    <3>1. /\ Become(t, Iterate(t, loop[t]))
          /\ retryCount' = [retryCount EXCEPT ![t][loop[t].rtc] = 0]
      BY <1>4, <2>2 DEF MarkSynced
    <3>2. loop'[t] = Iterate(t, loop[t])
      BY <1>1, <3>1
    <3>3. Drops(loop'[t])
      BY <3>2, Dropping
    <3>4. QED
      BY <1>2, <3>1, <3>3 DEF Counts, TypeOK
  <2>3. QED
    BY <2>1, <2>2
<1>5. CASE MarkFailed(t)
  <2>1. PICK conn : Thrown(t, conn)
    BY <1>5, Zenon DEF MarkFailed
  <2>2. loop[t].kind \in {"run", "retry", "deny"}
    BY DEF TypeOK, Loop
  <2>3. CASE retryCount' = retryCount
    BY <2>3 DEF Counts
  <2>4. CASE retryCount' # retryCount
    <3>1. /\ retryCount' = [retryCount EXCEPT ![t][loop[t].rtc] = @ + 1]
          /\ IF conn THEN Become(t, Exit(TRUE)) ELSE GoTo(t, "sleep")
      BY <2>1, <2>2, <2>4 DEF Thrown
    <3>2. loop'[t] = Exit(TRUE) \/ GoTo(t, "sleep")
      BY <1>1, <3>1
    <3>3. loop'[t].pc \in {"idle", "sleep"}
      BY <3>2 DEF Exit, NoLoop, GoTo, Become, TypeOK, Loop
    <3>4. QED
      BY <3>1, <3>3 DEF Counts, TypeOK
  <2>5. QED
    BY <2>3, <2>4
<1>6. CASE SettleDenial(t)
  <2>1. loop'[t] = Iterate(t, loop[t])
    BY <1>1, <1>6 DEF SettleDenial
  <2>2. Drops(loop'[t])
    BY <2>1, Dropping
  <2>3. retryCount' = retryCount \/ retryCount' = [retryCount EXCEPT ![t][loop[t].rtc] = MaxRetry]
    BY <1>6 DEF SettleDenial
  <2>4. QED
    BY <1>2, <2>2, <2>3 DEF Counts, TypeOK
<1>7. CASE \/ OnRtcUpdate(t) \/ QueryFailed(t) \/ QueryNew(t) \/ NothingToDo(t) \/ NoProgress(t)
           \/ TakeRetry(t) \/ TakeNew(t) \/ BackoffEnds(t) \/ SleepEnds(t)
  BY <1>7 DEF OnRtcUpdate, QueryFailed, QueryNew, NothingToDo, NoProgress, TakeRetry,
              TakeNew, BackoffEnds, SleepEnds, Counts
<1>8. CASE \/ Deny(t) \/ Execute(t) \/ RecordResult(t) \/ Submit(t) \/ Acquire(t) \/ Release(t)
           \/ \E result \in Result : ToolEnds(t, result)
  BY <1>8 DEF Deny, Execute, RecordResult, Submit, ToolEnds, Acquire, Release, Counts
<1>9. CASE Close(t) \/ Open(t)
  <2>1. loop'[t] = NoLoop
    BY <1>1, <1>9 DEF Close, Open
  <2>2. loop'[t].pc = "idle"
    BY <2>1 DEF NoLoop
  <2>3. QED
    BY <1>9, <2>2 DEF Close, Open, Counts, TypeOK
<1>10. QED
  BY <1>3, <1>4, <1>5, <1>6, <1>7, <1>8, <1>9 DEF Acts, Work

\* ... and to the lock and the queue for it.
Holds(t) ==
    /\ excused \subseteq excused'
    /\ \A u \in Tab \ {t} : (holder' = u <=> holder = u) /\ (u \in waiting' <=> u \in waiting)
    /\ \/ holder' = t <=> holder = t
       \/ holder = t /\ holder' = None /\ InHand(t) \subseteq excused'
       \/ holder' = t /\ Drops(loop'[t])
    /\ \/ t \notin waiting'
       \/ t \in waiting /\ holder' = holder /\ (At(t, "idle") => At(t, "idle")' \/ holder = t)
       \/ holder' = holder /\ holder # t /\ At(t, "idle")'

LEMMA Holding ==
    ASSUME TypeOK, NEW t \in Tab, Acts(t)
    PROVE  Holds(t)
<1> USE DEF tabVars, bus, ghosts
<1>1. \A l : Become(t, l) => loop'[t] = l
  BY DEF TypeOK, Become
<1>2. None \notin Tab
  BY NoneAssumption
<1>3. Drops([NoLoop EXCEPT !.pc = "failed"]) /\ NoLoop.pc = "idle"
  BY DEF NoLoop, Drops
<1>4. CASE Acquire(t)
  <2>1. Drops(loop'[t])
    BY <1>1, <1>3, <1>4 DEF Acquire
  <2>2. QED
    BY <1>2, <1>4, <2>1 DEF Acquire, Holds
<1>5. CASE Release(t) \/ Close(t)
  BY <1>2, <1>5 DEF Release, Close, Leaves, Holds
<1>6. CASE Open(t)
  <2>1. At(t, "idle")'
    BY <1>1, <1>3, <1>6 DEF Open, At
  <2>2. holder # t
    BY <1>2, <1>6 DEF Open, Live
  <2>3. QED
    BY <1>6, <2>1, <2>2 DEF Open, Holds
<1>7. CASE OnRtcUpdate(t)
  <2>1. holder # t => loop'[t] = loop[t]
    BY <1>1, <1>7 DEF OnRtcUpdate
  <2>2. QED
    BY <1>7, <2>1 DEF OnRtcUpdate, Holds, At
<1>8. CASE \/ QueryFailed(t) \/ QueryNew(t) \/ NothingToDo(t) \/ NoProgress(t)
           \/ SkipRetry(t) \/ TakeRetry(t) \/ TakeNew(t) \/ BackoffEnds(t) \/ SleepEnds(t)
  BY <1>8 DEF QueryFailed, QueryNew, NothingToDo, NoProgress, SkipRetry, TakeRetry,
              TakeNew, BackoffEnds, SleepEnds, Takes, Holds, At
<1>9. CASE \/ Deny(t) \/ Execute(t) \/ RecordResult(t) \/ Submit(t) \/ MarkSynced(t)
           \/ MarkFailed(t) \/ SettleDenial(t) \/ \E result \in Result : ToolEnds(t, result)
  BY <1>9 DEF Deny, Execute, RecordResult, Submit, ToolEnds, MarkSynced, MarkFailed, SettleDenial,
              Holds, At
<1>10. QED
  BY <1>4, <1>5, <1>6, <1>7, <1>8, <1>9 DEF Acts, Work

-----------------------------------------------------------------------------
(* The loops hold what they should *)

Hands(t) == HoldsRow(t) /\ HasRetry(t) /\ Queues(t)

\* A row that is stored stays.
LEMMA RowStays ==
    ASSUME TypeOK, \A t \in Tab : HoldsRow(t), [Next]_vars, NEW r \in Rtc, Stored(r)
    PROVE  Stored(r)'
<1>1. \A q \in Row : q # None
  BY NoneAssumption
<1>2. CASE \E q \in Rtc : Push(q) \/ Echo(q) \/ Replay(q)
  <2>1. PICK q \in Rtc : Push(q) \/ Echo(q) \/ Replay(q)
    BY <1>2
  <2>2. PICK x \in Row : row' = [row EXCEPT ![q] = x]
    <3>1. CASE Push(q)
      BY <3>1 DEF Push, Row
    <3>2. CASE Replay(q)
      BY <3>2 DEF Replay, Row
    <3>3. CASE Echo(q)
      BY <3>3 DEF Echo, Row, TypeOK
    <3>4. QED
      BY <2>1, <3>1, <3>2, <3>3
  <2>3. QED
    BY <1>1, <2>2 DEF Stored, TypeOK
<1>3. CASE Disconnect \/ Connect \/ UNCHANGED vars
  BY <1>3 DEF Disconnect, Connect, vars, Stored
<1>4. ASSUME NEW t \in Tab, Acts(t) PROVE Stored(r)'
  <2>1. Writes(t, r)
    BY <1>4, Writing
  <2>2. QED
    BY <2>1 DEF Writes, Marks, Stored
<1>5. QED
  BY <1>2, <1>3, <1>4 DEF Next, Acts

\* A step of a tab's own.
LEMMA HandsOwn ==
    ASSUME TypeOK, NEW t \in Tab, Hands(t), Acts(t), \A r \in Rtc : Stored(r) => Stored(r)'
    PROVE  Hands(t)'
<1>1. Moves(t, loop[t], loop'[t])
  BY Moving DEF Hands
<1>2. loop[t] \in Loop
  BY DEF TypeOK
<1>3. \A r \in Due : r \in Rtc /\ Stored(r)
  BY DEF Due, Retriable, Unexecuted
<1>4. \A r \in Due : LET m == WithRow(loop[t], r) IN
                     m.pc = "found" /\ m.rtc = r /\ m.kind \in {"run", "retry"}
  BY <1>2, <1>3 DEF WithRow, Loop
<1>5. None \notin Rtc
  BY NoneAssumption
<1>6. HoldsRow(t)'
  <2>1. HoldsRow(t)
    BY DEF Hands
  <2>2. loop'[t].rtc = None \/ (loop'[t].rtc = loop[t].rtc /\ Stored(loop[t].rtc))
        \/ loop'[t].rtc \in Due
    BY <1>1, <1>4, <2>1 DEF Moves, Drops, Keeps, HoldsRow
  <2>3. loop[t].rtc \in Rtc \cup {None}
    BY <1>2 DEF Loop
  <2>4. loop'[t].rtc # None => row'[loop'[t].rtc] # None
    BY <1>3, <2>2, <2>3 DEF Stored
  <2>5. loop'[t].pc \in Working => loop'[t].rtc # None
    BY <1>1, <1>4, <2>1 DEF Moves, Drops, Keeps, HoldsRow, Working
  <2>6. loop'[t].pc \in {"failed", "new"} => loop'[t].rtc = None
    BY <1>1, <1>4, <2>1 DEF Moves, Drops, Keeps, HoldsRow
  <2>7. loop'[t].pc \in {"start", "run"} => loop'[t].kind = "run"
    BY <1>1, <1>4, <2>1 DEF Moves, Drops, Keeps, HoldsRow
  <2>8. loop'[t].pc = "backoff" => loop'[t].kind = "retry"
    BY <1>1, <1>4, <2>1 DEF Moves, Drops, Keeps, HoldsRow
  <2>9. QED
    BY <2>4, <2>5, <2>6, <2>7, <2>8 DEF HoldsRow, Stored
<1>7. HasRetry(t)'
  <2>1. Counts(t)
    BY Counting
  <2>2. SUFFICES ASSUME loop'[t].kind = "retry",
                        loop'[t].pc \in {"backoff", "record", "submit", "mark", "fail"}
                 PROVE  retryCount[t][loop'[t].rtc] < MaxRetry
    BY <2>1 DEF HasRetry, Counts
  <2>3. loop'[t].rtc = loop[t].rtc /\ loop[t].kind = "retry"
    BY <1>1, <1>2, <1>4, <2>2 DEF Moves, Drops, Keeps, Hands, HoldsRow
  <2>4. \/ loop[t].pc \in {"backoff", "record", "submit", "mark", "fail"}
        \/ loop[t].rtc # None /\ ~Exhausted(t, loop[t].rtc)
    BY <1>1, <1>2, <1>4, <2>2, <2>3 DEF Moves, Drops, Keeps, Hands, HoldsRow
  <2>5. CASE loop[t].rtc # None /\ ~Exhausted(t, loop[t].rtc)
    <3>1. retryCount[t][loop[t].rtc] \in Nat
      BY <1>2, <2>5 DEF TypeOK, Loop
    <3>2. QED
      BY <2>3, <2>5, <3>1, BoundAssumption DEF Exhausted
  <2>6. QED
    BY <2>3, <2>4, <2>5 DEF Hands, HasRetry
<1>8. Queues(t)'
  <2>1. Holds(t)
    BY Holding
  <2>2. QED
    BY <2>1 DEF Holds, Hands, Queues, At
<1>9. QED
  BY <1>6, <1>7, <1>8 DEF Hands

LEMMA HandsStep ==
    ASSUME TypeOK, \A t \in Tab : Hands(t), [Next]_vars
    PROVE  \A t \in Tab : Hands(t)'
<1>1. \A r \in Rtc : Stored(r) => Stored(r)'
  BY RowStays DEF Hands
<1>2. ASSUME NEW u \in Tab, loop'[u] = loop[u], retryCount'[u] = retryCount[u],
             u \in waiting' => u \in waiting, holder' = u => holder = u
      PROVE  Hands(u)'
  <2>1. loop[u].rtc # None => loop[u].rtc \in Rtc
    BY DEF TypeOK, Loop
  <2>2. HoldsRow(u)'
    <3>1. loop[u].rtc # None => row'[loop[u].rtc] # None
      BY <1>1, <2>1 DEF Hands, HoldsRow, Stored
    <3>2. QED
      BY <1>2, <3>1 DEF Hands, HoldsRow, Stored
  <2>3. QED
    BY <1>2, <2>2 DEF Hands, HasRetry, Queues, At
<1>3. CASE \/ \E r \in Rtc : Push(r) \/ Echo(r) \/ Replay(r)
           \/ Disconnect \/ Connect \/ UNCHANGED vars
  <2>1. UNCHANGED <<loop, retryCount, holder, waiting>>
    BY <1>3 DEF Push, Echo, Replay, Disconnect, Connect, vars, tabVars, bus
  <2>2. QED
    BY <1>2, <2>1
<1>4. ASSUME NEW t \in Tab, Acts(t) PROVE \A u \in Tab : Hands(u)'
  <2>1. Hands(t)'
    BY <1>1, <1>4, HandsOwn
  <2>2. \A u \in Tab \ {t} : loop'[u] = loop[u] /\ retryCount'[u] = retryCount[u]
    BY <1>4, Counting, OthersRest DEF Counts, Rest
  <2>3. \A u \in Tab \ {t} : (u \in waiting' => u \in waiting) /\ (holder' = u => holder = u)
    BY <1>4, Holding DEF Holds
  <2>4. \A u \in Tab \ {t} : Hands(u)'
    BY <1>2, <2>2, <2>3
  <2>5. QED
    BY <2>1, <2>4
<1>5. QED
  BY <1>3, <1>4 DEF Next, Acts

-----------------------------------------------------------------------------
(* What is reported is true *)

Truth(r) == RowTrue(r) /\ \A t \in Tab : LoopTrue(t, r)

LEMMA TruthServer ==
    ASSUME TypeOK, \A t \in Tab : Hands(t), NEW r \in Rtc \ excused', Truth(r),
           NEW q \in Rtc, Push(q) \/ Echo(q) \/ Replay(q)
    PROVE  Truth(r)'
<1> USE DEF server, ghosts
<1>1. UNCHANGED <<told, made, loop>> /\ news'[r] \subseteq news[r]
  BY DEF Push, Echo, Replay, TypeOK
<1>2. ASSUME NEW t \in Tab, loop[t].rtc = r PROVE Stored(r)
  <2>1. r # None
    BY NoneAssumption
  <2>2. QED
    BY <1>2, <2>1 DEF Hands, HoldsRow
<1>3. CASE row'[r] = row[r]
  BY <1>1, <1>3 DEF Truth, RowTrue, LoopTrue, Stored
<1>4. CASE q = r /\ Push(q)
  <2>1. row'[r] = [status |-> "pending", sync |-> "pending"] /\ ~Stored(r)
    BY <1>4 DEF Push, Stored, TypeOK
  <2>2. \A t \in Tab : loop[t].rtc # r
    BY <1>2, <2>1
  <2>3. RowTrue(r)'
    BY <1>1, <2>1 DEF Truth, RowTrue
  <2>4. \A t \in Tab : LoopTrue(t, r)'
    BY <1>1, <2>2 DEF LoopTrue
  <2>5. QED
    BY <2>3, <2>4 DEF Truth
<1>5. CASE q = r /\ Echo(q)
  <2>1. PICK result \in news[r] : row'[r] = [status |-> result, sync |-> "pending"]
    BY <1>5 DEF Echo, TypeOK
  <2>2. result \in Result /\ result \in made[r]
    BY <2>1 DEF TypeOK, Truth, RowTrue
  <2>3. row'[r].status = result /\ row'[r].sync = "pending" /\ result # "pending"
    BY <2>1, <2>2 DEF Result
  <2>4. RowTrue(r)'
    BY <1>1, <2>2, <2>3 DEF Truth, RowTrue
  <2>5. \A t \in Tab : LoopTrue(t, r)'
    BY <1>1, <2>3 DEF Truth, LoopTrue
  <2>6. QED
    BY <2>4, <2>5 DEF Truth
<1>6. row'[r] = row[r] \/ (q = r /\ ~Replay(q))
  BY DEF Push, Echo, Replay, TypeOK
<1>7. QED
  BY <1>3, <1>4, <1>5, <1>6

LEMMA TruthOwn ==
    ASSUME TypeOK, NEW t \in Tab, Hands(t), Acts(t), NEW r \in Rtc \ excused', Truth(r)
    PROVE  Truth(r)'
<1>1. Moves(t, loop[t], loop'[t]) /\ Tells(t, r) /\ Makes(t, r) /\ Writes(t, r)
  BY Moving, Telling, Running, Writing DEF Hands
<1>2. loop[t] \in Loop /\ loop[t].result \in Result
  BY DEF TypeOK, Loop
<1>3. LoopTrue(t, r) /\ RowTrue(r)
  BY DEF Truth
<1>4. loop[t].rtc = r => Stored(r)
  BY NoneAssumption DEF Hands, HoldsRow
<1>5. told[r] \subseteq told'[r] /\ made[r] \subseteq made'[r]
  BY <1>1 DEF Tells, Makes
<1>6. told'[r] \subseteq made'[r] /\ news'[r] \subseteq made'[r]
  BY <1>1, <1>3, <1>5 DEF Tells, LoopTrue, RowTrue, At
<1>7. row[r].status # "pending" => row'[r].status # "pending"
  BY <1>1, <1>2 DEF Writes, Marks, Result
<1>8. RowTrue(r)'
  <2>1. CASE row'[r] = row[r]
    BY <1>3, <1>5, <1>6, <2>1 DEF RowTrue, Stored
  <2>2. CASE /\ At(t, "record") /\ loop[t].rtc = r
             /\ row'[r].status = loop[t].result /\ row'[r].sync = "pending"
    BY <1>3, <1>5, <1>6, <2>2 DEF RowTrue, LoopTrue, At
  <2>3. CASE Marks(t, r, "mark", "synced") \/ Marks(t, r, "fail", "failed")
    BY <1>3, <1>4, <1>5, <1>6, <2>3 DEF Marks, RowTrue, LoopTrue, At
  <2>4. QED
    BY <1>1, <2>1, <2>2, <2>3 DEF Writes
<1>9. ASSUME NEW u \in Tab \ {t} PROVE LoopTrue(u, r)'
  <2>1. loop'[u] = loop[u]
    BY OthersRest DEF Rest
  <2>2. LoopTrue(u, r)
    BY DEF Truth
  <2>3. QED
    BY <1>5, <1>7, <2>1, <2>2 DEF LoopTrue
<1>10. ASSUME loop'[t].rtc = r PROVE LoopTrue(t, r)'
  <2>1. r # None
    BY NoneAssumption
  <2>2. CASE Drops(loop'[t])
    BY <1>10, <2>1, <2>2 DEF Drops
  <2>3. CASE \E q \in Due : loop'[t] = WithRow(loop[t], q)
    <3>1. PICK q \in Due : loop'[t] = WithRow(loop[t], q)
      BY <2>3
    <3>2. /\ loop'[t].pc = "found" /\ loop'[t].rtc = q /\ loop'[t].result = RetryResult(q)
          /\ loop'[t].kind = "retry" => row[q].sync = "failed"
      BY <1>2, <3>1 DEF WithRow, Loop
    <3>3. q = r /\ row[r] \in Row
      BY <1>10, <3>1, <3>2 DEF TypeOK, Due, Retriable, Unexecuted, Stored
    <3>4. row[r].sync = "failed" => RetryResult(r) \in made[r]
      BY <1>3, <3>1, <3>3 DEF RetryResult, RowTrue, Row, Result, Due, Retriable, Unexecuted
    <3>5. QED
      BY <1>5, <3>2, <3>3, <3>4 DEF LoopTrue
  <2>4. CASE /\ loop[t].pc = "record" /\ loop'[t].pc = "submit" /\ Keeps(loop[t], loop'[t])
             /\ row' = [row EXCEPT ![loop[t].rtc] = [status |-> loop[t].result, sync |-> "pending"]]
    <3>1. loop[t].rtc = r /\ loop'[t].result = loop[t].result
      BY <1>10, <2>4 DEF Keeps
    <3>2. row'[r].status = loop[t].result
      BY <2>4, <3>1 DEF TypeOK
    <3>3. loop[t].result \in made[r]
      BY <1>3, <2>4, <3>1 DEF LoopTrue
    <3>4. QED
      BY <1>2, <1>5, <2>4, <3>1, <3>2, <3>3 DEF LoopTrue, Result
  <2>5. CASE /\ loop[t].pc = "submit" /\ loop'[t].pc = "mark" /\ Keeps(loop[t], loop'[t])
             /\ Reported(loop[t].rtc, loop[t].result)
    <3>1. loop[t].rtc = r
      BY <1>10, <2>5 DEF Keeps
    <3>2. told'[r] # {}
      BY <2>5, <3>1 DEF Reported, TypeOK
    <3>3. QED
      BY <1>3, <1>7, <2>5, <3>1, <3>2 DEF LoopTrue
  <2>6. CASE /\ loop'[t].pc = "record" /\ loop'[t].rtc = loop[t].rtc
             /\ made' = [made EXCEPT ![loop[t].rtc] = @ \cup {loop'[t].result}]
    <3>1. loop'[t].result \in made'[r]
      BY <1>10, <2>6 DEF TypeOK
    <3>2. QED
      BY <2>6, <3>1 DEF LoopTrue
  <2>7. CASE Keeps(loop[t], loop'[t]) /\ loop'[t].pc = loop[t].pc
    BY <1>3, <1>5, <1>7, <1>10, <2>7 DEF Keeps, LoopTrue
  <2>8. CASE Keeps(loop[t], loop'[t]) /\ loop[t].pc \in {"failed", "new"}
    BY <1>10, <2>1, <2>8 DEF Keeps, Hands, HoldsRow
  <2>9. CASE /\ Keeps(loop[t], loop'[t])
             /\ \/ loop[t].pc = "found" /\ loop'[t].pc \in {"backoff", "start"}
                \/ loop[t].pc = "start" /\ loop'[t].pc = "run"
                \/ loop[t].pc = "backoff" /\ loop'[t].pc = "record"
    BY <1>3, <1>5, <1>10, <2>9 DEF Keeps, LoopTrue, Hands, HoldsRow
  <2>10. CASE /\ Keeps(loop[t], loop'[t])
              /\ loop[t].pc \in {"submit", "mark", "fail"} /\ loop'[t].pc \in {"fail", "settle", "sleep"}
    BY <1>3, <1>5, <1>7, <1>10, <2>10 DEF Keeps, LoopTrue
  <2>11. CASE Keeps(loop[t], loop'[t]) /\ loop[t].rtc \in excused'
    BY <1>10, <2>11 DEF Keeps
  <2>12. QED
    BY <1>1, <2>2, <2>3, <2>4, <2>5, <2>6, <2>7, <2>8, <2>9, <2>10, <2>11 DEF Moves
<1>11. QED
  BY <1>8, <1>9, <1>10 DEF Truth, LoopTrue

LEMMA TruthStep ==
    ASSUME TypeOK, \A t \in Tab : Hands(t), [Next]_vars, NEW r \in Rtc \ excused', Truth(r)
    PROVE  Truth(r)'
<1>1. CASE \E q \in Rtc : Push(q) \/ Echo(q) \/ Replay(q)
  BY <1>1, TruthServer
<1>2. ASSUME NEW t \in Tab, Acts(t) PROVE Truth(r)'
  BY <1>2, TruthOwn
<1>3. CASE Disconnect \/ Connect \/ UNCHANGED vars
  <2>1. UNCHANGED <<row, told, news, made, loop>>
    BY <1>3 DEF Disconnect, Connect, vars, server, ghosts
  <2>2. QED
    BY <2>1 DEF Truth, RowTrue, LoopTrue, Stored
<1>4. QED
  BY <1>1, <1>2, <1>3 DEF Next, Acts

-----------------------------------------------------------------------------
(* No tool runs twice *)

Once(r) == RowOnce(r) /\ \A t \in Tab : LoopOnce(t, r)

LEMMA OnceServer ==
    ASSUME TypeOK, NEW r \in Rtc \ excused', Once(r),
           NEW q \in Rtc, Push(q) \/ Echo(q) \/ Replay(q)
    PROVE  Once(r)'
<1>1. UNCHANGED <<loop, holder, runs>>
  BY DEF Push, Echo, Replay, tabVars, bus, ghosts
<1>2. \A t \in Tab : (Claims(t, r)' <=> Claims(t, r)) /\ LoopOnce(t, r)'
  BY <1>1 DEF Once, LoopOnce, Claims
<1>3. RowOnce(r)'
  <2>1. CASE row'[r] = row[r]
    BY <1>1, <1>2, <2>1 DEF Once, RowOnce, Stored
  <2>2. CASE ~Stored(r)
    BY <1>1, <2>2 DEF Once, RowOnce
  <2>3. CASE Echo(r)
    <3>1. PICK result \in news[r] : row'[r] = [status |-> result, sync |-> "pending"]
      BY <2>3 DEF Echo, TypeOK
    <3>2. [status |-> result, sync |-> "pending"] \in Row /\ result # "pending"
      BY <3>1 DEF TypeOK, Row, Result
    <3>3. row'[r] # None /\ row'[r].status # "pending"
      BY <3>1, <3>2, NoneAssumption
    <3>4. QED
      BY <1>1, <3>3 DEF Once, RowOnce, Stored
  <2>4. row'[r] = row[r] \/ ~Stored(r) \/ Echo(r)
    BY DEF Push, Echo, Replay, TypeOK, Stored
  <2>5. QED
    BY <2>1, <2>2, <2>3, <2>4
<1>4. QED
  BY <1>2, <1>3 DEF Once

LEMMA OnceOwn ==
    ASSUME TypeOK, NEW t \in Tab, \A u \in Tab : Hands(u), Acts(t),
           NEW r \in Rtc \ excused', Once(r)
    PROVE  Once(r)'
<1>1. Moves(t, loop[t], loop'[t]) /\ Runs(t, r) /\ Writes(t, r) /\ Holds(t)
  BY Moving, Running, Writing, Holding DEF Hands
<1>2. loop[t] \in Loop /\ loop[t].result \in Result /\ loop[t].kind \in {"run", "retry", "deny"}
  BY DEF TypeOK, Loop
<1>3. r # None /\ None \notin Tab
  BY NoneAssumption
<1>4. \A u \in Tab \ {t} : loop'[u] = loop[u] /\ (holder' = u <=> holder = u)
  BY <1>1, OthersRest DEF Rest, Holds
<1>5. HoldsRow(t) /\ LoopOnce(t, r) /\ RowOnce(r)
  BY DEF Hands, Once
\* The master keeps the lock with r in hand.
<1>6. ASSUME loop[t].rtc = r, loop[t].kind # "retry", holder = t PROVE holder' = t
  <2>1. InHand(t) = {r}
    BY <1>3, <1>6 DEF InHand
  <2>2. QED
    BY <1>1, <1>6, <2>1 DEF Holds
<1>7. \A q \in Due : /\ WithRow(loop[t], q).pc = "found" /\ WithRow(loop[t], q).rtc = q
                     /\ WithRow(loop[t], q).kind = IF row[q].sync = "failed" THEN "retry" ELSE "run"
  BY <1>2 DEF WithRow, Loop
<1>8. Claims(t, r)' => Claims(t, r) \/ (loop[t].rtc = r /\ loop[t].kind = "run" /\ holder = t)
  BY <1>1, <1>2, <1>3, <1>5, <1>7 DEF Moves, Drops, Keeps, Claims, HoldsRow
<1>9. Claims(t, r)' => holder' = t
  BY <1>5, <1>6, <1>8 DEF LoopOnce, Claims
<1>10. \A u \in Tab \ {t} : Claims(u, r)' <=> Claims(u, r)
  BY <1>4 DEF Claims
\* Only the holder of the lock starts the tool of r.
<1>11. runs'[r] # runs[r] => holder = t /\ runs[r] = 0 /\ runs'[r] = 1
  BY <1>1, <1>5 DEF Runs, LoopOnce, Claims, At, HoldsRow
<1>12. ASSUME NEW u \in Tab \ {t} PROVE LoopOnce(u, r)'
  <2>1. LoopOnce(u, r) /\ HoldsRow(u)
    BY DEF Once, Hands
  <2>2. holder = u => runs'[r] = runs[r]
    BY <1>11
  <2>3. QED
    BY <1>4, <1>10, <2>1, <2>2 DEF LoopOnce, Claims, HoldsRow
<1>13. LoopOnce(t, r)'
  <2>1. loop'[t].rtc = r /\ loop'[t].pc = "start" => runs'[r] = 0
    <3>1. SUFFICES ASSUME loop'[t].rtc = r, loop'[t].pc = "start" PROVE runs'[r] = 0
      OBVIOUS
    <3>2. runs'[r] = runs[r]
      BY <1>1, <3>1 DEF Runs
    <3>3. /\ loop[t].rtc = r
          /\ \/ loop[t].pc = "start"
             \/ loop[t].pc = "found" /\ loop[t].kind = "run" /\ holder = t
      BY <1>1, <1>7, <3>1 DEF Moves, Drops, Keeps
    <3>4. QED
      BY <1>5, <3>2, <3>3 DEF LoopOnce
  <2>2. loop'[t].rtc = r /\ loop'[t].pc = "found" /\ loop'[t].kind = "run" /\ holder' = t
           => runs'[r] = 0
    <3>1. SUFFICES ASSUME loop'[t].rtc = r, loop'[t].pc = "found", loop'[t].kind = "run",
                          holder' = t
                   PROVE  runs'[r] = 0
      OBVIOUS
    <3>2. runs'[r] = runs[r]
      BY <1>1, <3>1 DEF Runs
    <3>3. holder = t
      BY <1>1, <1>3, <3>1 DEF Holds, Drops
    <3>4. CASE loop[t].rtc = r /\ loop[t].pc = "found" /\ loop[t].kind = "run"
      BY <1>5, <3>2, <3>3, <3>4 DEF LoopOnce
    <3>5. CASE \E q \in Due : loop[t].pc \in {"failed", "new"} /\ loop'[t] = WithRow(loop[t], q)
      <4>1. r \in Due /\ row[r].sync # "failed" /\ loop[t].pc \in {"failed", "new"}
        BY <1>7, <3>1, <3>5
      <4>2. row[r].status = "pending"
        BY <4>1 DEF Due, Retriable, Unexecuted
      <4>3. ASSUME NEW u \in Tab, Claims(u, r), loop[u].pc \in {"run", "record"} PROVE FALSE
        <5>1. holder = u
          BY <4>3 DEF Once, LoopOnce
        <5>2. QED
          BY <3>3, <4>1, <4>3, <5>1
      <4>4. QED
        BY <1>5, <3>2, <4>2, <4>3 DEF RowOnce
    <3>6. QED
      BY <1>1, <1>3, <1>5, <3>1, <3>4, <3>5 DEF Moves, Drops, Keeps, HoldsRow
  <2>3. QED
    BY <1>9, <2>1, <2>2 DEF LoopOnce
<1>14. RowOnce(r)'
  <2>1. runs'[r] <= 1
    BY <1>5, <1>11 DEF RowOnce
  <2>2. runs'[r] # 0 => Stored(r)'
    <3>1. runs[r] # 0 \/ loop[t].rtc = r => Stored(r)
      BY <1>3, <1>5 DEF RowOnce, HoldsRow
    <3>2. runs'[r] # 0 => Stored(r)
      BY <1>1, <3>1 DEF Runs
    <3>3. QED
      BY <1>1, <3>2 DEF Writes, Marks, Stored
  <2>3. ASSUME runs'[r] # 0, row'[r].status = "pending"
        PROVE  \E u \in Tab : Claims(u, r)' /\ loop'[u].pc \in {"run", "record"}
    <3>1. CASE runs'[r] # runs[r]
      <4>1. loop[t].pc = "start" /\ loop[t].rtc = r /\ loop'[t].pc = "run"
        BY <1>1, <3>1 DEF Runs, At
      <4>2. Keeps(loop[t], loop'[t]) /\ loop[t].kind = "run"
        BY <1>1, <1>5, <1>7, <4>1 DEF Moves, Drops, HoldsRow
      <4>3. QED
        BY <4>1, <4>2 DEF Keeps, Claims
    <3>2. CASE runs'[r] = runs[r]
      <4>1. row[r].status = "pending"
        BY <1>1, <1>2, <2>3 DEF Writes, Marks, Result
      <4>2. PICK u \in Tab : Claims(u, r) /\ loop[u].pc \in {"run", "record"}
        BY <1>5, <2>3, <3>2, <4>1 DEF RowOnce
      <4>3. CASE u # t
        BY <1>4, <1>10, <4>2, <4>3
      <4>4. CASE u = t
        <5>1. InHand(t) = {r} /\ r \notin excused'
          BY <1>3, <4>2, <4>4 DEF InHand, Claims
        <5>2. ~(row' = [row EXCEPT ![r] = [status |-> loop[t].result, sync |-> "pending"]])
          BY <1>2, <2>3 DEF TypeOK, Result
        <5>3. /\ loop'[t].rtc = r /\ loop'[t].kind = loop[t].kind
              /\ loop'[t].pc \in {"run", "record"}
          BY <1>1, <1>2, <1>7, <4>2, <4>4, <5>1, <5>2 DEF Moves, Keeps, Claims
        <5>4. QED
          BY <4>2, <4>4, <5>3 DEF Claims
      <4>5. QED
        BY <4>3, <4>4
    <3>3. QED
      BY <3>1, <3>2
  <2>4. QED
    BY <2>1, <2>2, <2>3 DEF RowOnce
<1>15. QED
  BY <1>12, <1>13, <1>14 DEF Once

LEMMA OnceStep ==
    ASSUME TypeOK, \A t \in Tab : Hands(t), [Next]_vars, NEW r \in Rtc \ excused', Once(r)
    PROVE  Once(r)'
<1>1. CASE \E q \in Rtc : Push(q) \/ Echo(q) \/ Replay(q)
  BY <1>1, OnceServer
<1>2. ASSUME NEW t \in Tab, Acts(t) PROVE Once(r)'
  BY <1>2, OnceOwn
<1>3. CASE Disconnect \/ Connect \/ UNCHANGED vars
  <2>1. UNCHANGED <<row, holder, runs, loop>>
    BY <1>3 DEF Disconnect, Connect, vars, tabVars, bus, ghosts
  <2>2. QED
    BY <2>1 DEF Once, RowOnce, LoopOnce, Claims, Stored
<1>4. QED
  BY <1>1, <1>2, <1>3 DEF Next, Acts

-----------------------------------------------------------------------------
(* Pushes are not missed *)

\* What the master's loop has seen: with no event on its way and no check asked for, it has
\* no work where it has looked for some but what was stored in silence since.
Seen(t) ==
    holder = t /\ t \notin inbox =>
        /\ At(t, "new") /\ ~loop[t].pendingCheck => Retriable \subseteq unheard
        /\ At(t, "found") /\ loop[t].rtc = None /\ ~loop[t].pendingCheck => Due \subseteq unheard
        /\ At(t, "idle") /\ ~loop[t].gaveUp => Due \subseteq unheard

Announced == inbox' = Live /\ holder' = holder

\* The only new work is what is stored in silence, and what is unheard stays so.
NoNewWork ==
    /\ Retriable' \subseteq Retriable \cup unheard'
    /\ Unexecuted' \subseteq Unexecuted \cup unheard'
    /\ unheard \subseteq unheard'

\* The master looks at the table.
Looks(t) == QueryFailed(t) /\ holder = t /\ holder' = t

\* A change of one row is told to every tab or kept silent.
LEMMA Silent ==
    ASSUME TypeOK, NEW r \in Rtc, Announce(r), \A q \in Rtc \ {r} : row'[q] = row[q]
    PROVE  inbox' = Live \/ (NoNewWork /\ inbox' = inbox)
BY DEF Announce, TellAll, NoNewWork, Retriable, Unexecuted, Stored

\* A tab's step that makes work tells every tab or none; the silent write of a result makes
\* no work.
LEMMA Announcing ==
    ASSUME TypeOK, NEW t \in Tab, HoldsRow(t), Acts(t)
    PROVE  Announced \/ NoNewWork \/ Looks(t)
<1>1. \A r \in Rtc : Writes(t, r)
  BY Writing
<1>2. At(t, "record") => loop[t].result # "pending"
  BY DEF TypeOK, Loop, Result
<1>3. ASSUME \A r \in Rtc : row'[r] = row[r] \/ (Stored(r) /\ row'[r].status = row[r].status
                                                 /\ row'[r].sync = row[r].sync),
             unheard' = unheard
      PROVE  NoNewWork
  BY <1>3 DEF NoNewWork, Retriable, Unexecuted, Stored
<1>4. CASE RecordResult(t)
  <2>1. At(t, "record")
    BY <1>4 DEF RecordResult
  <2>2. \A r \in Rtc : row'[r] = row[r] \/ (row'[r].status # "pending" /\ row'[r].sync = "pending")
    BY <1>1, <1>2, <2>1 DEF Writes, Marks, At
  <2>3. unheard' = unheard
    BY <1>4 DEF RecordResult, WriteFails, bus
  <2>4. QED
    BY <2>2, <2>3 DEF NoNewWork, Retriable, Unexecuted, Stored
<1>5. ASSUME NEW sync \in {"failed", "synced"}, Sync(loop[t].rtc, sync), holder' = holder,
             loop[t].pc \in Working
      PROVE  Announced \/ NoNewWork
  <2>1. loop[t].rtc \in Rtc /\ Stored(loop[t].rtc) /\ row[loop[t].rtc] \in Row
    BY <1>5, InHandTypes DEF HoldsRow
  <2>2. CASE row[loop[t].rtc].sync = sync
    <3>1. row' = [row EXCEPT ![loop[t].rtc] = [row[loop[t].rtc] EXCEPT !.sync = sync]]
      BY <1>5 DEF Sync
    <3>2. [row[loop[t].rtc] EXCEPT !.sync = sync] = row[loop[t].rtc]
      BY <2>1, <2>2 DEF Row
    <3>3. \A r \in Rtc : row'[r] = row[r]
      BY <2>1, <3>1, <3>2 DEF TypeOK
    <3>4. unheard' = unheard
      BY <1>5, <2>2 DEF Sync, bus
    <3>5. QED
      BY <1>3, <3>3, <3>4
  <2>3. CASE row[loop[t].rtc].sync # sync
    BY <1>5, <2>1, <2>3, Silent DEF Sync, Announced, TypeOK
  <2>4. QED
    BY <2>2, <2>3
<1>6. CASE MarkSynced(t) \/ MarkFailed(t) \/ SettleDenial(t)
  <2>1. loop[t].pc \in Working /\ holder' = holder
    BY <1>6 DEF MarkSynced, MarkFailed, SettleDenial, At, Working, tabVars, bus
  <2>2. (row' = row /\ unheard' = unheard) \/ \E sync \in {"failed", "synced"} : Sync(loop[t].rtc, sync)
    BY <1>6 DEF MarkSynced, MarkFailed, SettleDenial, WriteFails, bus
  <2>3. QED
    BY <1>3, <1>5, <2>1, <2>2
<1>7. CASE ~(RecordResult(t) \/ MarkSynced(t) \/ MarkFailed(t) \/ SettleDenial(t))
  <2>1. CASE \/ OnRtcUpdate(t) \/ QueryFailed(t) \/ QueryNew(t) \/ NothingToDo(t) \/ NoProgress(t)
             \/ SkipRetry(t) \/ TakeRetry(t) \/ TakeNew(t) \/ BackoffEnds(t) \/ SleepEnds(t)
    <3>1. row' = row /\ (unheard' = unheard \/ Looks(t))
      BY <2>1 DEF OnRtcUpdate, QueryFailed, QueryNew, NothingToDo, NoProgress, SkipRetry, TakeRetry,
                  TakeNew, BackoffEnds, SleepEnds, Takes, Looks, tabVars, bus
    <3>2. QED
      BY <1>3, <3>1
  <2>2. CASE Deny(t) \/ Execute(t) \/ Submit(t) \/ \E result \in Result : ToolEnds(t, result)
    <3>1. row' = row /\ unheard' = unheard
      <4>1. CASE Submit(t)
        BY <4>1, Zenon DEF Submit, bus
      <4>2. CASE Deny(t) \/ Execute(t)
        BY <4>2 DEF Deny, Execute, bus
      <4>3. ASSUME NEW result \in Result, ToolEnds(t, result) 
            PROVE  row' = row /\ unheard' = unheard
        BY <4>3 DEF ToolEnds, bus
      <4>4. QED
        BY <2>2, <4>1, <4>2, <4>3
    <3>2. QED
      BY <1>3, <3>1
  <2>3. CASE Acquire(t) \/ Release(t) \/ Close(t) \/ Open(t)
    <3>1. row' = row /\ unheard' = unheard
      BY <2>3 DEF Acquire, Release, Close, Open, Leaves, bus
    <3>2. QED
      BY <1>3, <3>1
  <2>4. QED
    BY <1>7, <2>1, <2>2, <2>3 DEF Acts, Work
<1>8. QED
  BY <1>4, <1>6, <1>7

\* Only the tab that handles an event, or leaves, takes one from the inbox or the lock.
LEMMA Delivering ==
    ASSUME TypeOK, NEW t \in Tab, Acts(t)
    PROVE  \A u \in Tab \ {t} :
              /\ u \in inbox => u \in inbox' \/ Announced
              /\ holder' = u => holder = u
<1>1. CASE \/ OnRtcUpdate(t) \/ QueryFailed(t) \/ QueryNew(t) \/ NothingToDo(t) \/ NoProgress(t)
           \/ SkipRetry(t) \/ TakeRetry(t) \/ TakeNew(t) \/ BackoffEnds(t) \/ SleepEnds(t)
  BY <1>1 DEF OnRtcUpdate, QueryFailed, QueryNew, NothingToDo, NoProgress, SkipRetry, TakeRetry,
              TakeNew, BackoffEnds, SleepEnds, Takes, tabVars, bus
<1>2. CASE Deny(t) \/ Execute(t) \/ Submit(t) \/ \E result \in Result : ToolEnds(t, result)
  <2>1. inbox' = inbox /\ holder' = holder
    <3>1. CASE Submit(t)
      BY <3>1, Zenon DEF Submit, tabVars, bus
    <3>2. CASE Deny(t) \/ Execute(t)
      BY <3>2 DEF Deny, Execute, tabVars, bus
    <3>3. ASSUME NEW result \in Result, ToolEnds(t, result)
          PROVE  inbox' = inbox /\ holder' = holder
      BY <3>3 DEF ToolEnds, tabVars, bus
    <3>4. QED
      BY <1>2, <3>1, <3>2, <3>3
  <2>2. QED
    BY <2>1
<1>3. CASE RecordResult(t) \/ MarkSynced(t) \/ MarkFailed(t) \/ SettleDenial(t)
  BY <1>3 DEF RecordResult, MarkSynced, MarkFailed, SettleDenial, WriteFails, Sync, Announce, TellAll, Announced, tabVars, bus
<1>4. CASE Acquire(t) \/ Release(t) \/ Close(t) \/ Open(t)
  BY <1>4, NoneAssumption DEF Acquire, Release, Close, Open, Leaves, Announced, tabVars, bus
<1>5. QED
  BY <1>1, <1>2, <1>3, <1>4 DEF Acts, Work

\* The loop of the acting tab looks where it says it has looked.
LEMMA SeenOwn ==
    ASSUME TypeOK, NEW t \in Tab, Hands(t), Acts(t), Seen(t)
    PROVE  Seen(t)'
<1> SUFFICES ASSUME holder' = t, t \notin inbox'
             PROVE  /\ loop'[t].pc = "new" /\ ~loop'[t].pendingCheck => Retriable' \subseteq unheard'
                    /\ loop'[t].pc = "found" /\ loop'[t].rtc = None /\ ~loop'[t].pendingCheck
                          => Due' \subseteq unheard'
                    /\ loop'[t].pc = "idle" /\ ~loop'[t].gaveUp => Due' \subseteq unheard'
  BY DEF Seen, At
<1> DEFINE l == loop[t]
           m == loop'[t]
           Starts(k) == k.pc = "failed" \/ (k.pc = "idle" /\ k.gaveUp)
           Elsewhere(k) == k.pc \notin {"idle", "new", "found"}
<1>1. l \in Loop
  BY DEF TypeOK
<1>2. \A k : Become(t, k) => m = k
  BY DEF TypeOK, Become
<1>3. \A k : Starts(Iterate(t, k))
  BY DEF Iterate, NoLoop
<1>4. Starts(Exit(TRUE)) /\ Starts([NoLoop EXCEPT !.pc = "failed"])
  BY DEF Exit, NoLoop
<1>5. \A pc : GoTo(t, pc) => /\ m.pc = pc /\ m.pendingCheck = l.pendingCheck /\ m.rtc = l.rtc
  BY <1>1, <1>2 DEF GoTo, Loop
<1>6. \A b : Errs(t, b) => m.pc = "fail"
  BY <1>1, <1>2 DEF Errs, Loop
<1>7. CASE Starts(m) \/ Elsewhere(m)
  BY <1>7
<1>8. CASE OnRtcUpdate(t)
  <2>1. m = Woken(t)
    BY <1>2, <1>8 DEF OnRtcUpdate, tabVars, bus
  <2>2. CASE At(t, "idle")
    BY <1>3, <1>7, <1>8, <2>1, <2>2 DEF Woken, OnRtcUpdate, tabVars, bus
  <2>3. CASE ~At(t, "idle")
    <3>1. m = [l EXCEPT !.pendingCheck = TRUE]
      BY <2>1, <2>3 DEF Woken
    <3>2. m.pendingCheck /\ m.pc # "idle"
      BY <1>1, <2>3, <3>1 DEF Loop, At
    <3>3. QED
      BY <3>2
  <2>4. QED
    BY <2>2, <2>3
<1>9. ASSUME UNCHANGED <<row, holder, inbox>>
      PROVE  holder = t /\ t \notin inbox /\ Retriable' = Retriable /\ Due' = Due
  BY <1>9 DEF Retriable, Unexecuted, Due, Stored
<1>10. \A r \in Rtc : WithRow(l, r).pc = "found" /\ WithRow(l, r).rtc # None
  BY <1>1, NoneAssumption DEF WithRow, Loop
<1>11. CASE QueryFailed(t)
  <2>1. Retriable' = Retriable
    BY <1>9, <1>11 DEF QueryFailed, tabVars, bus
  <2>2. CASE \E r \in Lowest(Retriable) : Become(t, WithRow(loop[t], r))
    BY <1>2, <1>10, <2>2 DEF Lowest, Retriable
  <2>3. CASE Retriable = {} /\ GoTo(t, "new")
    BY <1>5, <2>1, <2>3
  <2>4. QED
    BY <1>11, <2>2, <2>3 DEF QueryFailed
<1>12. CASE QueryNew(t)
  <2>1. holder = t /\ t \notin inbox /\ Due' = Due /\ unheard' = unheard
    BY <1>9, <1>12 DEF QueryNew, tabVars, bus
  <2>2. CASE \E r \in Lowest(Unexecuted) : Become(t, WithRow(loop[t], r))
    BY <1>2, <1>10, <2>2 DEF Lowest, Unexecuted
  <2>3. CASE Unexecuted = {} /\ GoTo(t, "found")
    <3>1. ~l.pendingCheck => Retriable \subseteq unheard
      BY <1>12, <2>1 DEF QueryNew, Seen
    <3>2. QED
      BY <1>5, <2>1, <2>3, <3>1 DEF Due
  <2>4. QED
    BY <1>12, <2>2, <2>3 DEF QueryNew
<1>13. CASE NothingToDo(t)
  <2>1. holder = t /\ t \notin inbox /\ Due' = Due /\ unheard' = unheard
    BY <1>9, <1>13 DEF NothingToDo, tabVars, bus
  <2>2. CASE l.pendingCheck
    BY <1>2, <1>3, <1>7, <1>13, <2>2 DEF NothingToDo
  <2>3. CASE ~l.pendingCheck
    <3>1. Due \subseteq unheard /\ m = Exit(FALSE)
      BY <1>2, <1>13, <2>1, <2>3 DEF NothingToDo, Seen
    <3>2. Exit(FALSE).pc = "idle"
      BY DEF Exit, NoLoop
    <3>3. QED
      BY <2>1, <3>1, <3>2
  <2>4. QED
    BY <2>2, <2>3
<1>14. CASE NoProgress(t) \/ SkipRetry(t) \/ SleepEnds(t) \/ SettleDenial(t) \/ Acquire(t)
  <2>1. Starts(m)
    BY <1>2, <1>3, <1>4, <1>14 DEF NoProgress, SkipRetry, SleepEnds, SettleDenial, Acquire
  <2>2. QED
    BY <1>7, <2>1
<1>15. CASE TakeRetry(t) \/ TakeNew(t) \/ Execute(t) \/ BackoffEnds(t)
  <2>1. Become(t, Exit(TRUE)) \/ \E pc \in {"backoff", "start", "run", "record"} : GoTo(t, pc)
    BY <1>15 DEF TakeRetry, TakeNew, Execute, BackoffEnds
  <2>2. QED
    BY <1>2, <1>4, <1>5, <1>7, <2>1
<1>16. CASE Deny(t)
  <2>1. m = [l EXCEPT !.pc = "record", !.kind = "deny", !.result = "failed"]
    BY <1>2, <1>16 DEF Deny
  <2>2. m.pc = "record"
    BY <1>1, <2>1 DEF Loop
  <2>3. QED
    BY <1>7, <2>2
<1>17. ASSUME NEW result \in Result, ToolEnds(t, result) PROVE m.pc = "record"
  <2>1. m = [l EXCEPT !.pc = "record", !.result = result]
    BY <1>2, <1>17 DEF ToolEnds
  <2>2. QED
    BY <1>1, <2>1 DEF Loop
<1>18. CASE RecordResult(t) \/ Submit(t) \/ MarkSynced(t)
  <2>1. \/ \E pc \in {"submit", "mark"} : GoTo(t, pc)
        \/ \E b \in BOOLEAN : Errs(t, b)
        \/ Become(t, Iterate(t, loop[t]))
    BY <1>18 DEF RecordResult, Submit, MarkSynced
  <2>2. QED
    BY <1>2, <1>3, <1>5, <1>6, <1>7, <2>1
<1>19. CASE MarkFailed(t)
  <2>1. l.kind \in {"run", "retry", "deny"}
    BY <1>1 DEF Loop
  <2>2. \E conn : Thrown(t, conn)
    BY <1>19 DEF MarkFailed
  <2>3. \/ Become(t, Exit(TRUE)) \/ Become(t, Iterate(t, l))
        \/ \E pc \in {"sleep", "settle"} : GoTo(t, pc)
    BY <2>1, <2>2 DEF Thrown
  <2>4. QED
    BY <1>2, <1>3, <1>4, <1>5, <1>7, <2>3
<1>20. CASE Release(t) \/ Close(t) \/ Open(t)
  <2>1. holder' # t
    BY <1>20, NoneAssumption DEF Release, Close, Open, Leaves, Live
  <2>2. QED
    BY <2>1
<1>21. QED
  BY <1>8, <1>11, <1>12, <1>13, <1>14, <1>15, <1>16, <1>17, <1>18, <1>19, <1>20 DEF Acts, Work

\* The loop of a tab that does not act: what makes work puts an event in its inbox.
LEMMA SeenRests ==
    ASSUME TypeOK, NEW t \in Tab, Seen(t), loop'[t] = loop[t], holder' = t => holder = t,
           \/ t \in Live /\ holder' = holder /\ inbox' = Live
           \/ NoNewWork /\ (t \in inbox => t \in inbox')
           \/ holder' # t
    PROVE  Seen(t)'
BY DEF Seen, At, NoNewWork, Due

LEMMA SeenStep ==
    ASSUME TypeOK, \A t \in Tab : Hands(t), [Next]_vars, NEW t \in Tab, Seen(t)
    PROVE  Seen(t)'
<1>1. holder = t => t \in Live
  BY NoneAssumption DEF Live
<1>2. CASE \E r \in Rtc : Push(r) \/ Echo(r) \/ Replay(r)
  <2>1. PICK r \in Rtc : Push(r) \/ Echo(r) \/ Replay(r)
    BY <1>2
  <2>2. /\ UNCHANGED <<holder, loop>> /\ \A q \in Rtc \ {r} : row'[q] = row[q]
        /\ Announce(r) \/ (row' = row /\ UNCHANGED <<inbox, unheard>>)
    BY <2>1 DEF Push, Echo, Replay, tabVars, bus, TypeOK
  <2>3. row' = row /\ unheard' = unheard => NoNewWork
    BY DEF NoNewWork, Retriable, Unexecuted, Stored
  <2>4. QED
    BY <1>1, <2>2, <2>3, Silent, SeenRests
<1>3. CASE Disconnect \/ Connect \/ UNCHANGED vars
  <2>1. UNCHANGED <<holder, loop, row>> /\ (inbox' = Live \/ UNCHANGED <<inbox, unheard>>)
    BY <1>3 DEF Disconnect, Connect, TellAll, vars, tabVars, bus
  <2>2. UNCHANGED unheard => NoNewWork
    BY <2>1 DEF NoNewWork, Retriable, Unexecuted, Stored
  <2>3. QED
    BY <1>1, <2>1, <2>2, SeenRests
<1>4. CASE Acts(t)
  BY <1>4, SeenOwn
<1>5. ASSUME NEW u \in Tab \ {t}, Acts(u) PROVE Seen(t)'
  <2>1. loop'[t] = loop[t]
    BY <1>5, OthersRest DEF Rest
  <2>2. /\ t \in inbox => t \in inbox' \/ Announced
        /\ holder' = t => holder = t
    BY <1>5, Delivering
  <2>3. Announced \/ NoNewWork \/ Looks(u)
    BY <1>5, Announcing DEF Hands
  <2>4. QED
    BY <1>1, <2>1, <2>2, <2>3, SeenRests DEF Announced, Looks
<1>6. QED
  BY <1>2, <1>3, <1>4, <1>5 DEF Next, Acts

-----------------------------------------------------------------------------
(* The theorems *)

LEMMA Parts ==
    IInv <=> /\ TypeOK
             /\ \A t \in Tab : Hands(t)
             /\ \A r \in Rtc \ excused : Truth(r) /\ Once(r)
BY DEF IInv, Hands, Truth, Once

LEMMA Initial == Init => IInv
<1> SUFFICES ASSUME Init PROVE IInv
  OBVIOUS
<1>1. TypeOK
  BY TypeInit
<1>2. \A t \in Tab : loop[t] = NoLoop
  BY DEF Init
<1>3. NoLoop.pc = "idle" /\ NoLoop.rtc = None /\ NoLoop.kind = "run"
  BY DEF NoLoop
<1>4. \A r \in Rtc : r # None /\ row[r] = None /\ told[r] = {} /\ news[r] = {} /\ runs[r] = 0
  BY NoneAssumption DEF Init
<1>5. holder = None /\ None \notin Tab
  BY NoneAssumption DEF Init
<1>6. \A t \in Tab : Hands(t)
  BY <1>2, <1>3, <1>5 DEF Hands, HoldsRow, HasRetry, Queues, Working, At
<1>7. \A r \in Rtc : Truth(r)
  BY <1>2, <1>3, <1>4 DEF Truth, RowTrue, LoopTrue, Stored
<1>8. \A r \in Rtc : Once(r)
  BY <1>2, <1>3, <1>4 DEF Once, RowOnce, LoopOnce, Claims
<1>9. QED
  BY <1>1, <1>6, <1>7, <1>8, Parts

\* An RTC once excused stays so.
LEMMA Excused == [Next]_vars /\ TypeOK => excused \subseteq excused'
<1> SUFFICES ASSUME [Next]_vars, TypeOK PROVE excused \subseteq excused'
  OBVIOUS
<1>1. CASE \E q \in Rtc : Push(q) \/ Echo(q) \/ Replay(q)
  BY <1>1 DEF Push, Echo, Replay, ghosts
<1>2. ASSUME NEW t \in Tab, Acts(t) PROVE excused \subseteq excused'
  BY <1>2, Holding DEF Holds
<1>3. CASE Disconnect \/ Connect \/ UNCHANGED vars
  BY <1>3 DEF Disconnect, Connect, vars, ghosts
<1>4. QED
  BY <1>1, <1>2, <1>3 DEF Next, Acts

LEMMA Inductive == IInv /\ [Next]_vars => IInv'
<1> SUFFICES ASSUME IInv, [Next]_vars PROVE IInv'
  OBVIOUS
<1>1. TypeOK /\ \A t \in Tab : Hands(t)
  BY Parts
<1>2. TypeOK'
  BY <1>1, TypeStep DEF Hands
<1>3. \A t \in Tab : Hands(t)'
  BY <1>1, HandsStep
<1>4. ASSUME NEW r \in Rtc \ excused' PROVE Truth(r)' /\ Once(r)'
  <2>1. r \in Rtc \ excused
    BY <1>1, Excused
  <2>2. Truth(r) /\ Once(r)
    BY <2>1, Parts
  <2>3. QED
    BY <1>1, <2>2, TruthStep, OnceStep
<1>5. \A r \in Rtc \ excused' : RowTrue(r)' /\ RowOnce(r)'
  BY <1>4 DEF Truth, Once
<1>6. \A r \in Rtc \ excused' : \A t \in Tab : LoopTrue(t, r)' /\ LoopOnce(t, r)'
  BY <1>4 DEF Truth, Once
<1>7. \A t \in Tab : HoldsRow(t)' /\ HasRetry(t)' /\ Queues(t)'
  BY <1>3 DEF Hands
<1>8. QED
  BY <1>2, <1>5, <1>6, <1>7 DEF IInv

(***************************************************************************)
(* The inductive invariant holds in every state: loops hold stored rows,   *)
(* counters stay in bounds, what is reported is true, the master alone has *)
(* a tool in hand.                                                         *)
(***************************************************************************)
THEOREM Invariance == Spec => []IInv
BY Initial, Inductive, PTL DEF Spec

(***************************************************************************)
(* Every variable keeps its type; the retry counter never passes           *)
(* MAX_SUBMIT_RETRY_COUNT.                                                 *)
(***************************************************************************)
THEOREM TypeCorrect == Spec => []TypeOK
<1>1. IInv => TypeOK
  BY DEF IInv
<1>2. QED
  BY <1>1, Invariance, PTL

(***************************************************************************)
(* A row that submitRtcResult marked synced was reported to the server.    *)
(***************************************************************************)
THEOREM SyncedReported == Spec => []SyncedIsReported
<1>1. IInv => SyncedIsReported
  <2>1. SUFFICES ASSUME IInv, NEW r \in Rtc \ excused, Stored(r), row[r].sync = "synced"
                 PROVE  told[r] # {}
    BY DEF SyncedIsReported
  <2>2. RowTrue(r)
    BY <2>1 DEF IInv
  <2>3. QED
    BY <2>1, <2>2 DEF RowTrue
<1>2. QED
  BY <1>1, Invariance, PTL

(***************************************************************************)
(* submitRtcResult reports only results the tool, the user or the timeout  *)
(* produced.                                                               *)
(***************************************************************************)
THEOREM TrueReports == Spec => []ReportsAreTrue
<1>1. IInv => ReportsAreTrue
  BY DEF IInv, RowTrue, ReportsAreTrue
<1>2. QED
  BY <1>1, Invariance, PTL

(***************************************************************************)
(* processOne runs the tool of an RTC at most once, with any number of     *)
(* tabs, reconnections, retries and lost answers.                          *)
(***************************************************************************)
THEOREM OnceOnly == Spec => []RunsOnce
<1>1. IInv => RunsOnce
  BY DEF IInv, RowOnce, RunsOnce
<1>2. QED
  BY <1>1, Invariance, PTL

(***************************************************************************)
(* A push of which the tabs are told is not missed, wherever in the        *)
(* master's loop it falls: a master asleep has no work but what was stored *)
(* in silence, by a small gap fill or beside one, since it last looked or  *)
(* was last told of anything.  Any tabs, fills and faults.                 *)
(***************************************************************************)
THEOREM PushesSeen == Spec => []NoMissedPush
<1>1. Init => \A t \in Tab : Seen(t)
  <2>1. SUFFICES ASSUME Init, NEW t \in Tab PROVE Seen(t)
    OBVIOUS
  <2>2. holder # t
    BY <2>1, NoneAssumption DEF Init
  <2>3. QED
    BY <2>2 DEF Seen
<1>2. IInv /\ (\A t \in Tab : Seen(t)) /\ [Next]_vars => (\A t \in Tab : Seen(t))'
  BY Parts, SeenStep
<1>3. (\A t \in Tab : Seen(t)) => NoMissedPush
  BY DEF Seen, NoMissedPush, Asleep
<1>4. QED
  BY <1>1, <1>2, <1>3, Invariance, PTL DEF Spec

-----------------------------------------------------------------------------
(* The tabs implement RemoteCall *)

\* A call is decided once: where its tool is about to be started or runs, it has no verdict.
LoopSingle(t, r) ==
    loop[t].rtc = r =>
        /\ loop[t].pc = "start" => made[r] = {}
        /\ loop[t].pc = "run" => made[r] = {} /\ runs[r] # 0
        /\ loop[t].pc = "found" /\ loop[t].kind = "run" /\ holder = t => made[r] = {}

\* A pending row has a verdict only in the hands of the tab about to record it.
RowSingle(r) ==
    /\ \A v, w \in made[r] : v = w
    /\ made[r] # {} => Stored(r)
    /\ made[r] # {} /\ row[r].status = "pending"
          => \E t \in Tab : Claims(t, r) /\ loop[t].pc = "record"

Single(r) == RowSingle(r) /\ \A t \in Tab : LoopSingle(t, r)

\* What a step does to one call: nothing, ...
Quiet(r) ==
    /\ made'[r] = made[r] /\ told'[r] = told[r] /\ runs'[r] = runs[r]
    /\ r \in excused' <=> r \in excused
    /\ Stored(r)' <=> Stored(r)

Same(r) == Stored(r) /\ Stored(r)' /\ (r \in excused' <=> r \in excused)

\* ... or the tool is started, the call decided, the verdict reported, or it is excused.
Starts(t, r) ==
    /\ At(t, "start") /\ loop'[t].pc = "run" /\ runs'[r] # 0
    /\ made'[r] = made[r] /\ told'[r] = told[r] /\ Same(r)

Decides(t, r) ==
    /\ loop'[t].pc = "record" /\ loop'[t].rtc = r /\ loop'[t].kind = IF At(t, "run") THEN loop[t].kind ELSE "deny"
    /\ At(t, "run") \/ (At(t, "start") /\ loop'[t].result = "failed")
    /\ made'[r] = made[r] \cup {loop'[t].result}
    /\ told'[r] = told[r] /\ runs'[r] = runs[r] /\ Same(r)

Reports(t, r) ==
    /\ At(t, "submit")
    /\ told'[r] = told[r] \cup {loop[t].result}
    /\ made'[r] = made[r] /\ runs'[r] = runs[r] /\ Same(r)

Excuses(r) == r \in excused' /\ Stored(r)

Effect(t, r) ==
    \/ Quiet(r)
    \/ loop[t].rtc = r /\ (Starts(t, r) \/ Decides(t, r) \/ Reports(t, r) \/ Excuses(r))

\* A step that changes the RTC in hand changes no other.
LEMMA Effects ==
    ASSUME TypeOK, NEW t \in Tab, Hands(t), Acts(t), NEW r \in Rtc
    PROVE  Effect(t, r)
<1>1. loop[t] \in Loop /\ r # None /\ HoldsRow(t)
  BY NoneAssumption DEF TypeOK, Hands
<1>2. loop[t].rtc = r => Stored(r)
  BY <1>1 DEF HoldsRow
<1>3. Stored(r)' <=> Stored(r)
  <2>1. Writes(t, r)
    BY <1>1, Writing
  <2>2. QED
    BY <1>2, <2>1 DEF Writes, Marks, Stored
<1>4. \A l : Become(t, l) => loop'[t] = l
  BY DEF TypeOK, Become
<1>5. ASSUME UNCHANGED <<made, told, runs>>, excused' = excused \/ excused' = excused \cup {loop[t].rtc}
             \/ excused' = excused \cup InHand(t)
      PROVE  Effect(t, r)
  BY <1>1, <1>2, <1>3, <1>5 DEF Effect, Quiet, Excuses, InHand
<1>6. CASE Execute(t)
  <2>1. At(t, "start") /\ loop'[t].pc = "run"
    BY <1>1, <1>4, <1>6 DEF Execute, GoTo, Loop
  <2>2. UNCHANGED <<made, told, excused>>
    BY <1>6 DEF Execute, server
  <2>3. loop[t].rtc # r => runs'[r] = runs[r]
    BY <1>6 DEF Execute, TypeOK
  <2>4. loop[t].rtc = r => runs'[r] # 0
    <3>1. runs[r] \in 0..2
      BY DEF TypeOK
    <3>2. loop[t].rtc = r => runs'[r] = IF runs[r] = 2 THEN 2 ELSE runs[r] + 1
      BY <1>6 DEF Execute, TypeOK
    <3>3. QED
      BY <3>1, <3>2
  <2>5. QED
    BY <1>2, <1>3, <2>1, <2>2, <2>3, <2>4 DEF Effect, Quiet, Starts, Same
<1>7. ASSUME NEW m \in Loop, NEW v \in Result, Become(t, m), m.pc = "record", m.rtc = loop[t].rtc,
             m.kind = IF At(t, "run") THEN loop[t].kind ELSE "deny",
             m.result = v, made' = [made EXCEPT ![loop[t].rtc] = @ \cup {v}],
             At(t, "run") \/ (At(t, "start") /\ v = "failed"), UNCHANGED <<told, runs, excused>>
      PROVE  Effect(t, r)
  <2>1. loop'[t] = m
    BY <1>4, <1>7
  <2>2. loop[t].rtc # r => made'[r] = made[r]
    BY <1>7 DEF TypeOK
  <2>3. loop[t].rtc = r => made'[r] = made[r] \cup {v}
    BY <1>7 DEF TypeOK
  <2>4. QED
    BY <1>2, <1>3, <1>7, <2>1, <2>2, <2>3 DEF Effect, Quiet, Decides, Same
<1>8. CASE Deny(t)
  <2>1. PICK m : m = [loop[t] EXCEPT !.pc = "record", !.kind = "deny", !.result = "failed"]
    OBVIOUS
  <2>2. m \in Loop /\ m.pc = "record" /\ m.rtc = loop[t].rtc /\ m.kind = "deny" /\ m.result = "failed"
    BY <1>1, <2>1 DEF Loop, Result
  <2>3. Become(t, m) /\ At(t, "start") /\ made' = [made EXCEPT ![loop[t].rtc] = @ \cup {"failed"}]
    BY <1>8, <2>1 DEF Deny
  <2>4. UNCHANGED <<told, runs, excused>>
    BY <1>8 DEF Deny, server
  <2>5. QED
    BY <1>7, <2>2, <2>3, <2>4 DEF At, Result
<1>9. ASSUME NEW v \in Result, ToolEnds(t, v) PROVE Effect(t, r)
  <2>1. PICK m : m = [loop[t] EXCEPT !.pc = "record", !.result = v]
    OBVIOUS
  <2>2. m \in Loop /\ m.pc = "record" /\ m.rtc = loop[t].rtc /\ m.kind = loop[t].kind /\ m.result = v
    BY <1>1, <2>1 DEF Loop, Result
  <2>3. Become(t, m) /\ At(t, "run") /\ made' = [made EXCEPT ![loop[t].rtc] = @ \cup {v}]
    BY <1>9, <2>1 DEF ToolEnds
  <2>4. UNCHANGED <<told, runs, excused>>
    BY <1>9 DEF ToolEnds, server
  <2>5. QED
    BY <1>7, <2>2, <2>3, <2>4
<1>10. CASE Submit(t)
  <2>1. At(t, "submit") /\ UNCHANGED <<made, runs, excused>>
    BY <1>10, Zenon DEF Submit, ghosts
  <2>2. told' = told \/ told' = [told EXCEPT ![loop[t].rtc] = @ \cup {loop[t].result}]
    BY <1>10, Zenon DEF Submit, server, Reported
  <2>3. \/ told'[r] = told[r]
        \/ loop[t].rtc = r /\ told'[r] = told[r] \cup {loop[t].result}
    BY <2>2 DEF TypeOK
  <2>4. QED
    BY <1>2, <1>3, <2>1, <2>3 DEF Effect, Quiet, Reports, Same
<1>11. CASE RecordResult(t) \/ MarkSynced(t) \/ MarkFailed(t) \/ SettleDenial(t)
  BY <1>5, <1>11 DEF RecordResult, MarkSynced, MarkFailed, SettleDenial, server, ghosts
<1>12. CASE \/ OnRtcUpdate(t) \/ QueryFailed(t) \/ QueryNew(t) \/ NothingToDo(t) \/ NoProgress(t)
            \/ SkipRetry(t) \/ TakeRetry(t) \/ TakeNew(t) \/ BackoffEnds(t) \/ SleepEnds(t)
  BY <1>5, <1>12 DEF OnRtcUpdate, QueryFailed, QueryNew, NothingToDo, NoProgress, SkipRetry, TakeRetry,
                     TakeNew, BackoffEnds, SleepEnds, Takes, server, ghosts
<1>13. CASE Acquire(t) \/ Release(t) \/ Close(t) \/ Open(t)
  BY <1>5, <1>13 DEF Acquire, Release, Close, Open, Leaves, server, ghosts
<1>14. QED
  BY <1>6, <1>8, <1>9, <1>10, <1>11, <1>12, <1>13 DEF Acts, Work

\* Nothing but Execute takes a loop from the question to the running tool.
LEMMA Starting ==
    ASSUME TypeOK, NEW t \in Tab, Acts(t), At(t, "start"), loop'[t].pc = "run"
    PROVE  Execute(t)
<1>1. loop[t] \in Loop /\ loop[t].pc = "start"
  BY DEF TypeOK, At
<1>2. \A l : Become(t, l) => loop'[t] = l
  BY DEF TypeOK, Become
<1>3. \A l : Drops(l) => l.pc # "run"
  BY DEF Drops
<1>4. CASE OnRtcUpdate(t)
  <2>1. Woken(t) = [loop[t] EXCEPT !.pendingCheck = TRUE]
    BY <1>1 DEF Woken, At
  <2>2. loop'[t] = loop[t] \/ loop'[t] = [loop[t] EXCEPT !.pendingCheck = TRUE]
    BY <1>2, <1>4, <2>1 DEF OnRtcUpdate
  <2>3. loop'[t].pc = "start"
    BY <1>1, <2>2 DEF Loop
  <2>4. QED
    BY <2>3
<1>5. CASE Release(t)
  <2>1. loop'[t] = [loop[t] EXCEPT !.aborted = TRUE]
    BY <1>1, <1>2, <1>5 DEF Release
  <2>2. loop'[t].pc = "start"
    BY <1>1, <2>1 DEF Loop
  <2>3. QED
    BY <2>2
<1>6. CASE Acquire(t) \/ Close(t) \/ Open(t)
  <2>1. Drops(NoLoop) /\ Drops([NoLoop EXCEPT !.pc = "failed"])
    BY DEF NoLoop, Drops
  <2>2. QED
    BY <1>2, <1>3, <1>6, <2>1 DEF Acquire, Close, Open
<1>7. CASE Deny(t)
  <2>1. loop'[t] = [loop[t] EXCEPT !.pc = "record", !.kind = "deny", !.result = "failed"]
    BY <1>2, <1>7 DEF Deny
  <2>2. loop'[t].pc = "record"
    BY <1>1, <2>1 DEF Loop
  <2>3. QED
    BY <2>2
<1>8. ~(\E v \in Result : ToolEnds(t, v))
  BY <1>1 DEF ToolEnds, At
<1>9. ~(RecordResult(t) \/ Submit(t) \/ MarkSynced(t) \/ MarkFailed(t) \/ SettleDenial(t))
  BY <1>1 DEF RecordResult, Submit, MarkSynced, MarkFailed, SettleDenial, At
<1>10. ~(\/ QueryFailed(t) \/ QueryNew(t) \/ NothingToDo(t) \/ NoProgress(t) \/ SkipRetry(t)
         \/ TakeRetry(t) \/ TakeNew(t) \/ BackoffEnds(t) \/ SleepEnds(t))
  BY <1>1 DEF QueryFailed, QueryNew, NothingToDo, NoProgress, SkipRetry, TakeRetry, TakeNew,
              BackoffEnds, SleepEnds, Takes, At
<1>11. QED
  BY <1>4, <1>5, <1>6, <1>7, <1>8, <1>9, <1>10 DEF Acts, Work

LEMMA SingleServer ==
    ASSUME TypeOK, NEW r \in Rtc \ excused', Single(r),
           NEW q \in Rtc, Push(q) \/ Echo(q) \/ Replay(q)
    PROVE  Single(r)'
<1>1. UNCHANGED <<loop, holder, made, runs>>
  BY DEF Push, Echo, Replay, tabVars, bus, ghosts
<1>2. \A t \in Tab : (Claims(t, r)' <=> Claims(t, r)) /\ LoopSingle(t, r)'
  BY <1>1 DEF Single, LoopSingle, Claims
<1>3. RowSingle(r)'
  <2>1. CASE row'[r] = row[r]
    BY <1>1, <1>2, <2>1 DEF Single, RowSingle, Stored
  <2>2. CASE ~Stored(r)
    BY <1>1, <2>2 DEF Single, RowSingle
  <2>3. CASE Echo(r)
    <3>1. PICK result \in news[r] : row'[r] = [status |-> result, sync |-> "pending"]
      BY <2>3 DEF Echo, TypeOK
    <3>2. [status |-> result, sync |-> "pending"] \in Row /\ result # "pending"
      BY <3>1 DEF TypeOK, Row, Result
    <3>3. row'[r] # None /\ row'[r].status # "pending"
      BY <3>1, <3>2, NoneAssumption
    <3>4. QED
      BY <1>1, <3>3 DEF Single, RowSingle, Stored
  <2>4. row'[r] = row[r] \/ ~Stored(r) \/ Echo(r)
    BY DEF Push, Echo, Replay, TypeOK, Stored
  <2>5. QED
    BY <2>1, <2>2, <2>3, <2>4
<1>4. QED
  BY <1>2, <1>3 DEF Single

\* A loop that takes a pending row up finds it undecided: the tab that decided it would
\* have to hold the lock as well.
LEMMA Undecided ==
    ASSUME NEW t \in Tab, holder = t, loop[t].pc \in {"failed", "new"},
           NEW r \in Rtc \ excused, Truth(r), Once(r), Single(r), r \in Due, row[r].sync # "failed"
    PROVE  made[r] = {}
<1>1. row[r].status = "pending"
  BY DEF Due, Retriable, Unexecuted
<1>2. ASSUME NEW u \in Tab, Claims(u, r), loop[u].pc = "record" PROVE FALSE
  <2>1. holder = u
    BY <1>2 DEF Once, LoopOnce
  <2>2. QED
    BY <1>2, <2>1
<1>3. QED
  BY <1>1, <1>2 DEF Single, RowSingle

LEMMA SingleOwn ==
    ASSUME TypeOK, NEW t \in Tab, \A u \in Tab : Hands(u), Acts(t),
           NEW r \in Rtc \ excused', Truth(r), Once(r), Single(r)
    PROVE  Single(r)'
<1>1. Moves(t, loop[t], loop'[t]) /\ Writes(t, r) /\ Holds(t) /\ Effect(t, r)
  BY Moving, Writing, Holding, Effects DEF Hands
<1>2. loop[t] \in Loop /\ loop[t].result \in Result /\ loop[t].kind \in {"run", "retry", "deny"}
  BY DEF TypeOK, Loop
<1>3. r # None /\ None \notin Tab
  BY NoneAssumption
<1>4. \A u \in Tab \ {t} : loop'[u] = loop[u] /\ (holder' = u <=> holder = u)
  BY <1>1, OthersRest DEF Rest, Holds
<1>5. HoldsRow(t) /\ LoopOnce(t, r) /\ LoopSingle(t, r) /\ RowSingle(r) /\ r \notin excused
  BY <1>1 DEF Hands, Once, Single, Holds
<1>6. \A q \in Due : /\ WithRow(loop[t], q).pc = "found" /\ WithRow(loop[t], q).rtc = q
                     /\ WithRow(loop[t], q).kind = IF row[q].sync = "failed" THEN "retry" ELSE "run"
  BY <1>2 DEF WithRow, Loop
\* The verdict appears where the tool of r was about to run or ran, in the master's hands.
<1>7. made'[r] = made[r] \/ (loop[t].rtc = r /\ Decides(t, r))
  BY <1>1, <1>5 DEF Effect, Quiet, Starts, Reports, Excuses
<1>8. Decides(t, r) /\ loop[t].rtc = r => Claims(t, r) /\ holder = t /\ made[r] = {}
  BY <1>5 DEF Decides, HoldsRow, LoopOnce, LoopSingle, Claims, At
<1>9. runs[r] # 0 => runs'[r] # 0
  BY <1>1 DEF Effect, Quiet, Starts, Decides, Reports, Excuses
<1>10. ASSUME NEW u \in Tab \ {t} PROVE LoopSingle(u, r)'
  <2>1. LoopOnce(u, r) /\ LoopSingle(u, r) /\ HoldsRow(u)
    BY DEF Once, Single, Hands
  <2>2. holder = u => made'[r] = made[r]
    BY <1>7, <1>8
  <2>3. QED
    BY <1>4, <1>9, <2>1, <2>2 DEF LoopOnce, LoopSingle, Claims, HoldsRow
<1>11. LoopSingle(t, r)'
  <2>1. SUFFICES ASSUME loop'[t].rtc = r,
                        loop'[t].pc \in {"start", "run"} \/ (loop'[t].pc = "found" /\ loop'[t].kind = "run" /\ holder' = t)
                 PROVE  made'[r] = {} /\ (loop'[t].pc = "run" => runs'[r] # 0)
    BY DEF LoopSingle
  <2>2. made'[r] = made[r]
    BY <1>7, <2>1 DEF Decides
  <2>3. CASE loop'[t].pc = "start"
    <3>1. /\ loop[t].rtc = r
          /\ \/ loop[t].pc = "start"
             \/ loop[t].pc = "found" /\ loop[t].kind = "run" /\ holder = t
      BY <1>1, <1>6, <2>1, <2>3 DEF Moves, Drops, Keeps
    <3>2. QED
      BY <1>5, <2>2, <2>3, <3>1 DEF LoopSingle
  <2>4. CASE loop'[t].pc = "run"
    <3>1. loop[t].rtc = r /\ loop[t].pc \in {"start", "run"}
      BY <1>1, <1>6, <2>1, <2>4 DEF Moves, Drops, Keeps
    <3>2. ASSUME loop[t].pc = "start" PROVE runs'[r] # 0
      <4>1. Execute(t)
        BY <2>4, <3>2, Starting DEF At
      <4>2. runs'[r] = IF runs[r] = 2 THEN 2 ELSE runs[r] + 1
        BY <3>1, <4>1 DEF Execute, TypeOK
      <4>3. runs[r] \in 0..2
        BY DEF TypeOK
      <4>4. QED
        BY <4>2, <4>3
    <3>3. QED
      BY <1>5, <1>9, <2>2, <3>1, <3>2 DEF LoopSingle
  <2>5. CASE loop'[t].pc = "found"
    <3>1. holder = t
      BY <1>1, <1>3, <2>1, <2>5 DEF Holds, Drops
    <3>2. CASE loop[t].rtc = r /\ loop[t].pc = "found" /\ loop[t].kind = "run"
      BY <1>5, <2>2, <2>5, <3>1, <3>2 DEF LoopSingle
    <3>3. CASE \E q \in Due : loop[t].pc \in {"failed", "new"} /\ loop'[t] = WithRow(loop[t], q)
      <4>1. r \in Due /\ row[r].sync # "failed" /\ loop[t].pc \in {"failed", "new"}
        BY <1>6, <2>1, <2>5, <3>3
      <4>2. QED
        BY <1>5, <2>2, <2>5, <3>1, <4>1, Undecided
    <3>4. QED
      BY <1>1, <1>3, <1>5, <2>1, <2>5, <3>2, <3>3 DEF Moves, Drops, Keeps, HoldsRow
  <2>6. QED
    BY <2>1, <2>3, <2>4, <2>5
<1>12. RowSingle(r)'
  <2>1. \A v, w \in made'[r] : v = w
    BY <1>5, <1>7, <1>8 DEF Decides, RowSingle
  <2>2. made'[r] # {} => Stored(r)'
    BY <1>1, <1>5, <1>7 DEF Decides, Same, RowSingle, Writes, Marks, Stored
  <2>3. ASSUME made'[r] # {}, row'[r].status = "pending"
        PROVE  \E u \in Tab : Claims(u, r)' /\ loop'[u].pc = "record"
    <3>1. CASE made'[r] # made[r]
      <4>1. Decides(t, r) /\ loop[t].kind # "retry"
        BY <1>7, <1>8, <3>1 DEF Claims
      <4>2. Claims(t, r)' /\ loop'[t].pc = "record"
        BY <1>2, <4>1 DEF Decides, Claims
      <4>3. QED
        BY <4>2
    <3>2. CASE made'[r] = made[r]
      <4>1. row[r].status = "pending"
        BY <1>1, <1>2, <2>3 DEF Writes, Marks, Result
      <4>2. PICK u \in Tab : Claims(u, r) /\ loop[u].pc = "record"
        BY <1>5, <2>3, <3>2, <4>1 DEF RowSingle
      <4>3. CASE u # t
        BY <1>4, <4>2, <4>3 DEF Claims
      <4>4. CASE u = t
        <5>1. InHand(t) = {r} /\ r \notin excused'
          BY <1>3, <4>2, <4>4 DEF InHand, Claims
        <5>2. ~(row' = [row EXCEPT ![r] = [status |-> loop[t].result, sync |-> "pending"]])
          BY <1>2, <2>3 DEF TypeOK, Result
        <5>3. loop'[t].rtc = r /\ loop'[t].kind = loop[t].kind /\ loop'[t].pc = "record"
          BY <1>1, <1>2, <1>6, <4>2, <4>4, <5>1, <5>2 DEF Moves, Keeps, Claims
        <5>4. QED
          BY <4>2, <4>4, <5>3 DEF Claims
      <4>5. QED
        BY <4>3, <4>4
    <3>3. QED
      BY <3>1, <3>2
  <2>4. QED
    BY <2>1, <2>2, <2>3 DEF RowSingle
<1>13. QED
  BY <1>10, <1>11, <1>12 DEF Single

LEMMA SingleStep ==
    ASSUME IInv, [Next]_vars, \A r \in Rtc \ excused : Single(r), NEW r \in Rtc \ excused'
    PROVE  Single(r)'
<1>1. TypeOK /\ (\A t \in Tab : Hands(t)) /\ r \in Rtc \ excused
  BY Parts, Excused
<1>2. Truth(r) /\ Once(r) /\ Single(r)
  BY <1>1, Parts
<1>3. CASE \E q \in Rtc : Push(q) \/ Echo(q) \/ Replay(q)
  BY <1>1, <1>2, <1>3, SingleServer
<1>4. ASSUME NEW t \in Tab, Acts(t) PROVE Single(r)'
  BY <1>1, <1>2, <1>4, SingleOwn
<1>5. CASE Disconnect \/ Connect \/ UNCHANGED vars
  <2>1. UNCHANGED <<row, holder, made, runs, loop>>
    BY <1>5 DEF Disconnect, Connect, vars, tabVars, bus, ghosts
  <2>2. QED
    BY <1>2, <2>1 DEF Single, RowSingle, LoopSingle, Claims, Stored
<1>6. QED
  BY <1>3, <1>4, <1>5 DEF Next, Acts

\* The call r as RemoteCall sees it, and what a step may make of it.
View(r) == <<Phase(r), Kept(made)[r], Kept(told)[r]>>

Advances(r) ==
    \/ View(r)' = View(r)
    \/ Phase(r) = "unknown" /\ View(r)' = <<"pushed", Kept(made)[r], Kept(told)[r]>>
    \/ Phase(r) = "pushed" /\ View(r)' = <<"started", Kept(made)[r], Kept(told)[r]>>
    \/ \E v \in Result : /\ Phase(r) = "started" \/ (Phase(r) = "pushed" /\ v = "failed")
                         /\ View(r)' = <<"decided", {v}, Kept(told)[r]>>
    \/ Phase(r) = "decided" /\ View(r)' = <<"decided", Kept(made)[r], Kept(made)[r]>>
    \/ Phase(r) # "unknown" /\ View(r)' = <<"lost", {}, {}>>

\* A step that advances one call and leaves the others alone is a step of RemoteCall.
LEMMA Lift ==
    ASSUME NEW q \in Rtc, Advances(q), \A r \in Rtc \ {q} : View(r)' = View(r)
    PROVE  [Remote!Next]_(Remote!vars)
<1> DEFINE phase == [r \in Rtc |-> Phase(r)]
<1>1. ASSUME NEW p, NEW m, NEW s, View(q)' = <<p, m, s>>
      PROVE  /\ phase' = [phase EXCEPT ![q] = p]
             /\ Kept(made)' = [Kept(made) EXCEPT ![q] = m]
             /\ Kept(told)' = [Kept(told) EXCEPT ![q] = s]
  BY <1>1 DEF View, Kept
<1>2. /\ [Kept(made) EXCEPT ![q] = Kept(made)[q]] = Kept(made)
      /\ [Kept(told) EXCEPT ![q] = Kept(told)[q]] = Kept(told)
  BY DEF Kept
<1>3. CASE View(q)' = View(q)
  <2>1. \A r \in Rtc : Phase(r)' = Phase(r) /\ Kept(made)'[r] = Kept(made)[r] /\ Kept(told)'[r] = Kept(told)[r]
    BY <1>3 DEF View
  <2>2. phase' = phase /\ Kept(made)' = Kept(made) /\ Kept(told)' = Kept(told)
    BY <2>1 DEF Kept
  <2>3. QED
    BY <2>2 DEF Remote!vars
<1>4. CASE Phase(q) = "unknown" /\ View(q)' = <<"pushed", Kept(made)[q], Kept(told)[q]>>
  <2>1. Remote!Push(q)
    <3>1. /\ phase' = [phase EXCEPT ![q] = "pushed"]
          /\ Kept(made)' = Kept(made) /\ Kept(told)' = Kept(told)
      BY <1>1, <1>2, <1>4
    <3>2. phase[q] = "unknown"
      BY <1>4
    <3>3. QED
      BY <3>1, <3>2 DEF Remote!Push, Remote!At, Remote!GoTo
  <2>2. QED
    BY <2>1 DEF Remote!Next
<1>5. CASE Phase(q) = "pushed" /\ View(q)' = <<"started", Kept(made)[q], Kept(told)[q]>>
  <2>1. Remote!Start(q)
    <3>1. /\ phase' = [phase EXCEPT ![q] = "started"]
          /\ Kept(made)' = Kept(made) /\ Kept(told)' = Kept(told)
      BY <1>1, <1>2, <1>5
    <3>2. phase[q] = "pushed"
      BY <1>5
    <3>3. QED
      BY <3>1, <3>2 DEF Remote!Start, Remote!At, Remote!GoTo
  <2>2. QED
    BY <2>1 DEF Remote!Next
<1>6. ASSUME NEW v \in Result, Phase(q) = "started" \/ (Phase(q) = "pushed" /\ v = "failed"),
             View(q)' = <<"decided", {v}, Kept(told)[q]>>
      PROVE  [Remote!Next]_(Remote!vars)
  <2>1. Remote!Decide(q, v)
    <3>1. /\ phase' = [phase EXCEPT ![q] = "decided"]
          /\ Kept(made)' = [Kept(made) EXCEPT ![q] = {v}] /\ Kept(told)' = Kept(told)
      BY <1>1, <1>2, <1>6
    <3>2. phase[q] = Phase(q)
      OBVIOUS
    <3>3. QED
      BY <1>6, <3>1, <3>2 DEF Remote!Decide, Remote!At, Remote!GoTo
  <2>2. QED
    BY <2>1 DEF Remote!Next
<1>7. CASE Phase(q) = "decided" /\ View(q)' = <<"decided", Kept(made)[q], Kept(made)[q]>>
  <2>1. Remote!Tell(q)
    <3>1. /\ phase' = phase /\ Kept(made)' = Kept(made)
          /\ Kept(told)' = [Kept(told) EXCEPT ![q] = Kept(made)[q]]
      <4>1. phase' = [phase EXCEPT ![q] = "decided"]
        BY <1>1, <1>7
      <4>2. [phase EXCEPT ![q] = "decided"] = phase
        BY <1>7
      <4>3. QED
        BY <1>1, <1>2, <1>7, <4>1, <4>2
    <3>2. phase[q] = "decided"
      BY <1>7
    <3>3. QED
      BY <3>1, <3>2 DEF Remote!Tell, Remote!At
  <2>2. QED
    BY <2>1 DEF Remote!Next
<1>8. CASE Phase(q) # "unknown" /\ View(q)' = <<"lost", {}, {}>>
  <2>1. Remote!Lose(q)
    <3>1. /\ phase' = [phase EXCEPT ![q] = "lost"]
          /\ Kept(made)' = [Kept(made) EXCEPT ![q] = {}]
          /\ Kept(told)' = [Kept(told) EXCEPT ![q] = {}]
      <4>1. PICK none : none = {}
        OBVIOUS
      <4>2. View(q)' = <<"lost", none, none>>
        BY <1>8, <4>1
      <4>3. /\ phase' = [phase EXCEPT ![q] = "lost"]
            /\ Kept(made)' = [Kept(made) EXCEPT ![q] = none]
            /\ Kept(told)' = [Kept(told) EXCEPT ![q] = none]
        BY <1>1, <4>2
      <4>4. QED
        BY <4>1, <4>3
    <3>2. phase[q] # "unknown"
      BY <1>8
    <3>3. QED
      BY <3>1, <3>2 DEF Remote!Lose, Remote!At, Remote!GoTo
  <2>2. QED
    BY <2>1 DEF Remote!Next
<1>9. QED
  BY <1>3, <1>4, <1>5, <1>6, <1>7, <1>8 DEF Advances

LEMMA LiftStutter ==
    ASSUME \A r \in Rtc : View(r)' = View(r)
    PROVE  [Remote!Next]_(Remote!vars)
<1>1. \A r \in Rtc : Phase(r)' = Phase(r) /\ Kept(made)'[r] = Kept(made)[r] /\ Kept(told)'[r] = Kept(told)[r]
  BY DEF View
<1>2. [r \in Rtc |-> Phase(r)]' = [r \in Rtc |-> Phase(r)] /\ Kept(made)' = Kept(made) /\ Kept(told)' = Kept(told)
  BY <1>1 DEF Kept
<1>3. QED
  BY <1>2 DEF Remote!vars

LEMMA QuietView ==
    ASSUME NEW r \in Rtc, Quiet(r)
    PROVE  View(r)' = View(r)
BY DEF Quiet, View, Phase, Kept

\* An excused call stays lost; one that is excused is lost now.
LEMMA ExcusedView ==
    ASSUME NEW r \in Rtc, Stored(r), r \in excused', excused \subseteq excused'
    PROVE  Advances(r)
<1>1. View(r)' = <<"lost", {}, {}>>
  BY DEF View, Phase, Kept
<1>2. Phase(r) # "unknown"
  BY DEF Phase
<1>3. QED
  BY <1>1, <1>2 DEF Advances

\* What a tab does to the call in its hands.
LEMMA OwnView ==
    ASSUME TypeOK, TypeOK', NEW t \in Tab, Hands(t), NEW r \in Rtc, loop[t].rtc = r, Effect(t, r),
           excused \subseteq excused',
           r \notin excused => Truth(r) /\ Once(r) /\ Single(r)
    PROVE  Advances(r)
<1>1. loop[t].result \in Result /\ HoldsRow(t) /\ r # None
  BY NoneAssumption DEF TypeOK, Loop, Hands
<1>2. Stored(r)
  BY <1>1 DEF HoldsRow
<1>3. CASE Quiet(r)
  BY <1>3, QuietView DEF Advances
<1>4. CASE r \in excused'
  BY <1>2, <1>4, ExcusedView
<1> SUFFICES ASSUME r \notin excused', Starts(t, r) \/ Decides(t, r) \/ Reports(t, r)
             PROVE  Advances(r)
  BY <1>3, <1>4 DEF Effect, Excuses
<1>5. r \notin excused /\ Stored(r)'
  BY DEF Starts, Decides, Reports, Same
<1>6. /\ RowTrue(r) /\ LoopTrue(t, r) /\ RowOnce(r) /\ LoopOnce(t, r) /\ RowSingle(r) /\ LoopSingle(t, r)
  BY <1>5 DEF Truth, Once, Single
<1>7. CASE Starts(t, r)
  <2>1. made[r] = {} /\ runs[r] = 0
    BY <1>6, <1>7 DEF Starts, At, LoopSingle, LoopOnce
  <2>2. Phase(r) = "pushed"
    BY <1>2, <1>5, <2>1 DEF Phase
  <2>3. View(r)' = <<"started", Kept(made)[r], Kept(told)[r]>>
    BY <1>5, <1>7, <2>1 DEF Starts, View, Phase, Kept
  <2>4. QED
    BY <2>2, <2>3 DEF Advances
<1>8. CASE Decides(t, r)
  <2>1. PICK v : v = loop'[t].result
    OBVIOUS
  <2>2. made[r] = {} /\ made'[r] = {v}
    BY <1>6, <1>8, <2>1 DEF Decides, At, LoopSingle
  <2>3. v \in Result
    BY <2>1 DEF TypeOK, Loop
  <2>4. Phase(r) = "started" \/ (Phase(r) = "pushed" /\ v = "failed")
    BY <1>2, <1>5, <1>6, <1>8, <2>1, <2>2 DEF Decides, At, LoopSingle, LoopOnce, Phase
  <2>5. View(r)' = <<"decided", {v}, Kept(told)[r]>>
    BY <1>5, <1>8, <2>2 DEF Decides, View, Phase, Kept
  <2>6. QED
    BY <2>3, <2>4, <2>5 DEF Advances
<1>9. CASE Reports(t, r)
  <2>1. loop[t].result \in made[r] /\ told[r] \subseteq made[r] /\ \A v, w \in made[r] : v = w
    BY <1>6, <1>9 DEF Reports, At, LoopTrue, RowTrue, RowSingle
  <2>2. told'[r] = made[r]
    BY <1>9, <2>1 DEF Reports
  <2>3. Phase(r) = "decided"
    BY <1>5, <2>1 DEF Phase
  <2>4. View(r)' = <<"decided", Kept(made)[r], Kept(made)[r]>>
    BY <1>5, <1>9, <2>1, <2>2 DEF Reports, View, Phase, Kept
  <2>5. QED
    BY <2>3, <2>4 DEF Advances
<1>10. QED
  BY <1>7, <1>8, <1>9

\* The server's part: a push makes a call, a replay loses it, an echo changes nothing.
LEMMA ServerView ==
    ASSUME TypeOK, NEW q \in Rtc, Push(q) \/ Echo(q) \/ Replay(q), Stored(q)',
           q \notin excused => Once(q) /\ Single(q)
    PROVE  Advances(q) /\ \A r \in Rtc \ {q} : View(r)' = View(r)
<1>1. UNCHANGED <<made, told, runs>> \/ Echo(q)
  BY DEF Push, Replay, server, ghosts
<1>2. UNCHANGED <<made, told, runs>>
  BY <1>1 DEF Echo, ghosts
<1>3. excused' = excused \/ (excused' = excused \cup {q} /\ Stored(q))
  BY DEF Push, Echo, Replay, ghosts, Stored
<1>4. \A r \in Rtc \ {q} : Stored(r)' <=> Stored(r)
  BY DEF Push, Echo, Replay, TypeOK, Stored
<1>5. \A r \in Rtc \ {q} : Quiet(r)
  BY <1>2, <1>3, <1>4 DEF Quiet
<1>6. \A r \in Rtc \ {q} : View(r)' = View(r)
  BY <1>5, QuietView
<1> SUFFICES Advances(q)
  BY <1>6
<1>7. CASE Stored(q)
  <2>1. CASE excused' = excused
    BY <1>2, <1>7, <2>1, QuietView DEF Quiet, Advances
  <2>2. CASE excused' = excused \cup {q}
    BY <1>7, <2>2, ExcusedView
  <2>3. QED
    BY <1>3, <2>1, <2>2
<1>8. CASE ~Stored(q)
  <2>1. CASE q \in excused
    BY <1>2, <1>3, <1>8, <2>1 DEF Advances, View, Phase, Kept
  <2>2. CASE q \notin excused
    <3>1. made[q] = {} /\ runs[q] = 0
      BY <1>8, <2>2 DEF Once, Single, RowOnce, RowSingle
    <3>2. Phase(q) = "unknown"
      BY <1>8, <2>2, <3>1 DEF Phase
    <3>3. View(q)' = <<"pushed", Kept(made)[q], Kept(told)[q]>>
      BY <1>2, <1>3, <1>8, <2>2, <3>1 DEF View, Phase, Kept
    <3>4. QED
      BY <3>2, <3>3 DEF Advances
  <2>3. QED
    BY <2>1, <2>2
<1>9. QED
  BY <1>7, <1>8

LEMMA RemoteStep ==
    ASSUME IInv, \A r \in Rtc \ excused : Single(r), [Next]_vars
    PROVE  [Remote!Next]_(Remote!vars)
<1>1. TypeOK /\ (\A t \in Tab : Hands(t)) /\ \A r \in Rtc \ excused : Truth(r) /\ Once(r)
  BY Parts
<1>2. TypeOK' /\ excused \subseteq excused'
  BY <1>1, Excused, TypeStep DEF Hands
<1>3. ASSUME NEW q \in Rtc, Push(q) \/ Echo(q) \/ Replay(q) PROVE [Remote!Next]_(Remote!vars)
  <2>1. Stored(q)'
    <3>1. row'[q] # None
      <4>1. CASE Push(q) \/ Replay(q)
        <5>1. [status |-> "pending", sync |-> "pending"] \in Row
          BY DEF Row
        <5>2. row'[q] = [status |-> "pending", sync |-> "pending"]
          BY <1>1, <4>1 DEF Push, Replay, TypeOK
        <5>3. QED
          BY <5>1, <5>2, NoneAssumption
      <4>2. CASE Echo(q)
        <5>1. PICK result \in news[q] : row'[q] = [status |-> result, sync |-> "pending"]
          BY <1>1, <4>2 DEF Echo, TypeOK
        <5>2. [status |-> result, sync |-> "pending"] \in Row
          BY <1>1, <5>1 DEF TypeOK, Row
        <5>3. QED
          BY <5>1, <5>2, NoneAssumption
      <4>3. QED
        BY <1>3, <4>1, <4>2
    <3>2. QED
      BY <3>1 DEF Stored
  <2>2. Advances(q) /\ \A r \in Rtc \ {q} : View(r)' = View(r)
    BY <1>1, <1>3, <2>1, ServerView
  <2>3. QED
    BY <2>2, Lift
<1>4. ASSUME NEW t \in Tab, Acts(t) PROVE [Remote!Next]_(Remote!vars)
  <2>1. \A r \in Rtc : Effect(t, r)
    BY <1>1, <1>4, Effects
  <2>2. \A r \in Rtc : r # loop[t].rtc => View(r)' = View(r)
    BY <2>1, QuietView DEF Effect
  <2>3. CASE loop[t].rtc \in Rtc
    <3>1. Advances(loop[t].rtc)
      BY <1>1, <1>2, <2>1, <2>3, OwnView
    <3>2. QED
      BY <2>2, <2>3, <3>1, Lift
  <2>4. CASE loop[t].rtc \notin Rtc
    BY <2>2, <2>4, LiftStutter
  <2>5. QED
    BY <2>3, <2>4
<1>5. CASE Disconnect \/ Connect \/ UNCHANGED vars
  <2>1. UNCHANGED <<row, told, made, runs, excused>>
    BY <1>5 DEF Disconnect, Connect, vars, server, ghosts
  <2>2. \A r \in Rtc : Quiet(r)
    BY <2>1 DEF Quiet, Stored
  <2>3. QED
    BY <2>2, QuietView, LiftStutter
<1>6. QED
  BY <1>3, <1>4, <1>5 DEF Next, Acts

(***************************************************************************)
(* A call that no tab abandoned is decided once, in one tab, whatever the  *)
(* number of tabs, retries and faults: the state behind the refinement.    *)
(***************************************************************************)
THEOREM OneVerdict == Spec => [](\A r \in Rtc \ excused : Single(r))
<1>1. Init => \A r \in Rtc \ excused : Single(r)
  <2>1. SUFFICES ASSUME Init, NEW r \in Rtc PROVE Single(r)
    OBVIOUS
  <2>2. made[r] = {} /\ \A t \in Tab : loop[t] = NoLoop
    BY <2>1 DEF Init
  <2>3. NoLoop.pc = "idle"
    BY DEF NoLoop
  <2>4. QED
    BY <2>2, <2>3 DEF Single, RowSingle, LoopSingle
<1>2. IInv /\ (\A r \in Rtc \ excused : Single(r)) /\ [Next]_vars => (\A r \in Rtc \ excused : Single(r))'
  BY SingleStep
<1>3. QED
  BY <1>1, <1>2, Invariance, PTL DEF Spec

(***************************************************************************)
(* The tabs implement RemoteCall: the processLoops of any number of tabs   *)
(* over one table, with their retries and the lock changing hands, are one *)
(* caller that starts each tool at most once and reports one verdict.      *)
(***************************************************************************)
THEOREM OneCaller == Spec => ImplementsRemoteCall
<1>1. Init => Remote!Init
  <2>1. SUFFICES ASSUME Init PROVE Remote!Init
    OBVIOUS
  <2>2. \A r \in Rtc : Phase(r) = "unknown" /\ Kept(made)[r] = {} /\ Kept(told)[r] = {}
    BY <2>1 DEF Init, Phase, Kept, Stored
  <2>3. QED
    BY <2>2 DEF Remote!Init, Kept
<1>2. IInv /\ (\A r \in Rtc \ excused : Single(r)) /\ [Next]_vars => [Remote!Next]_(Remote!vars)
  BY RemoteStep
<1>3. QED
  BY <1>1, <1>2, Invariance, OneVerdict, PTL DEF Spec, ImplementsRemoteCall, Remote!Spec

(***************************************************************************)
(* A verdict in the table stands, whoever writes the row: all of them      *)
(* write the only one there is.                                            *)
(***************************************************************************)
THEOREM StandingVerdict == Spec => VerdictStands
<1> DEFINE Stands == \A r \in Rtc \ excused' :
                        Stored(r) /\ row[r].status # "pending" => row'[r].status = row[r].status
<1>1. IInv /\ (\A r \in Rtc \ excused : Single(r)) /\ IInv' /\ (\A r \in Rtc \ excused : Single(r))'
      /\ [Next]_vars => Stands
  <2>1. SUFFICES ASSUME IInv, \A r \in Rtc \ excused : Single(r), IInv',
                        (\A r \in Rtc \ excused : Single(r))', [Next]_vars,
                        NEW r \in Rtc \ excused', Stored(r), row[r].status # "pending"
                 PROVE  row'[r].status = row[r].status
    OBVIOUS
  <2>2. /\ TypeOK /\ r \in Rtc \ excused /\ \A t \in Tab : Hands(t)
        /\ Truth(r) /\ Truth(r)' /\ Single(r)' /\ Once(r)
    BY <2>1, Parts, Excused DEF IInv, Truth
  <2>3. row[r].status \in made[r]
    BY <2>1, <2>2 DEF Truth, RowTrue
  <2>4. made[r] \subseteq made'[r]
    <3>1. ASSUME NEW t \in Tab, Acts(t) PROVE made[r] \subseteq made'[r]
      BY <2>2, <3>1, Running DEF Makes
    <3>2. CASE ~(\E t \in Tab : Acts(t))
      BY <2>1, <3>2 DEF Next, Acts, Push, Echo, Replay, Disconnect, Connect, ghosts, vars
    <3>3. QED
      BY <3>1, <3>2
  <2>5. Stored(r)'
    BY <2>1, <2>2, RowStays DEF Hands
  <2>6. row'[r].status \in made'[r] \cup {"pending"}
    BY <2>2, <2>5 DEF Truth, RowTrue
  <2>7. row'[r].status # "pending"
    <3>1. row[r] \in Row
      BY <2>1, <2>2 DEF TypeOK, Stored
    <3>2. ASSUME NEW t \in Tab, Acts(t) PROVE row'[r].status # "pending"
      <4>1. Writes(t, r) /\ loop[t].result \in Result
        BY <2>2, <3>2, Writing DEF Hands, TypeOK, Loop
      <4>2. QED
        BY <2>1, <4>1 DEF Writes, Marks, Result
    <3>3. ASSUME NEW q \in Rtc, Echo(q) PROVE row'[r].status # "pending"
      <4>1. PICK result \in news[q] : row' = [row EXCEPT ![q] = [status |-> result, sync |-> "pending"]]
        BY <3>3 DEF Echo
      <4>2. result # "pending"
        BY <2>2, <4>1 DEF TypeOK, Result
      <4>3. QED
        BY <2>1, <2>2, <4>1, <4>2 DEF TypeOK
    <3>4. ASSUME NEW q \in Rtc, Push(q) \/ Replay(q) PROVE row'[r].status # "pending"
      BY <2>1, <2>2, <3>4 DEF Push, Replay, TypeOK, Stored
    <3>5. CASE Disconnect \/ Connect \/ UNCHANGED vars
      BY <2>1, <3>5 DEF Disconnect, Connect, vars
    <3>6. QED
      BY <2>1, <3>2, <3>3, <3>4, <3>5 DEF Next, Acts
  <2>8. QED
    BY <2>2, <2>3, <2>4, <2>6, <2>7 DEF Single, RowSingle
<1>2. QED
  BY <1>1, Invariance, OneVerdict, PTL DEF Spec, VerdictStands

-----------------------------------------------------------------------------
(* Only faults excuse *)

\* A tab that nothing has disturbed: it works only as the master, and on new RTCs.
Calm(t) ==
    /\ loop[t].pc \notin {"backoff", "fail", "settle", "sleep"}
    /\ loop[t].kind # "retry" /\ ~loop[t].aborted
    /\ ~At(t, "idle") => holder = t

NoneFailed == \A r \in Rtc : Stored(r) => row[r].sync # "failed"

Faultless == online /\ excused = {} /\ NoneFailed /\ \A t \in Tab : Calm(t)

\* The step is not a fault.
LEMMA NoFault ==
    ASSUME TypeOK, faults = 0, faults' = 0
    PROVE  \A k : ~Fault(k)
BY DEF TypeOK, Fault

LEMMA CalmIterate ==
    ASSUME NEW t \in Tab, NEW l \in Loop
    PROVE  LET m == Iterate(t, l) IN
           /\ m.pc \in {"idle", "failed"} /\ m.kind = "run" /\ ~m.aborted
           /\ m.pc # "idle" => holder = t
BY DEF Iterate, NoLoop

\* The loop of a calm master.
LEMMA CalmOwn ==
    ASSUME TypeOK, NEW t \in Tab, Acts(t), Faultless, faults = 0, faults' = 0
    PROVE  /\ online' = online /\ excused' = excused /\ Calm(t)'
           /\ \A u \in Tab : holder = u /\ u # t => holder' = u
           /\ row' = row \/ (At(t, "record") \/ At(t, "mark"))
<1>1. loop[t] \in Loop /\ loop[t].rtc \in Rtc \cup {None}
  BY DEF TypeOK, Loop
<1>2. Calm(t) /\ excused = {}
  BY DEF Faultless
<1>3. \A k : ~Fault(k)
  BY NoFault
<1>4. \A l : Become(t, l) => loop'[t] = l
  BY DEF TypeOK, Become
<1> DEFINE Fine(m) == /\ m.pc \notin {"backoff", "fail", "settle", "sleep"}
                      /\ m.kind # "retry" /\ ~m.aborted /\ (m.pc # "idle" => holder' = t)
<1>5. Fine(loop'[t]) => Calm(t)'
  BY DEF Calm, At
<1>6. ASSUME holder' = holder PROVE \A l \in Loop : Become(t, Iterate(t, l)) => Fine(loop'[t])
  <2>1. SUFFICES ASSUME NEW l \in Loop, Become(t, Iterate(t, l)) PROVE Fine(loop'[t])
    OBVIOUS
  <2>2. loop'[t] = Iterate(t, l)
    BY <1>4, <2>1
  <2>3. QED
    BY <1>6, <2>2, CalmIterate
<1>7. ASSUME holder' = holder, holder = t
      PROVE  \A pc \in {"new", "found", "start", "run", "submit", "mark"} : GoTo(t, pc) => Fine(loop'[t])
  <2>1. SUFFICES ASSUME NEW pc \in {"new", "found", "start", "run", "submit", "mark"}, GoTo(t, pc)
                 PROVE  Fine(loop'[t])
    OBVIOUS
  <2>2. loop'[t] = [loop[t] EXCEPT !.pc = pc]
    BY <1>4, <2>1 DEF GoTo
  <2>3. loop'[t].pc = pc /\ loop'[t].kind = loop[t].kind /\ loop'[t].aborted = loop[t].aborted
    BY <1>1, <2>2 DEF Loop
  <2>4. QED
    BY <1>2, <1>7, <2>3 DEF Calm
<1>8. \A b : Become(t, Exit(b)) => Fine(loop'[t])
  <2>1. \A b : Fine(Exit(b))
    BY DEF Exit, NoLoop
  <2>2. QED
    BY <1>4, <2>1
<1>9. CASE OnRtcUpdate(t)
  <2>1. UNCHANGED <<row, online, holder, excused>>
    BY <1>9, Zenon DEF OnRtcUpdate, tabVars, bus, ghosts
  <2>2. Become(t, loop[t]) \/ Become(t, [loop[t] EXCEPT !.pendingCheck = TRUE]) \/ Become(t, Iterate(t, NoLoop))
    BY <1>9 DEF OnRtcUpdate, Woken
  <2>3. ASSUME Become(t, loop[t]) PROVE Fine(loop'[t])
    BY <1>2, <1>4, <2>1, <2>3 DEF Calm, At
  <2>4. ASSUME Become(t, [loop[t] EXCEPT !.pendingCheck = TRUE]) PROVE Fine(loop'[t])
    <3>1. loop'[t] = [loop[t] EXCEPT !.pendingCheck = TRUE]
      BY <1>4, <2>4
    <3>2. loop'[t].pc = loop[t].pc /\ loop'[t].kind = loop[t].kind /\ loop'[t].aborted = loop[t].aborted
      BY <1>1, <3>1 DEF Loop
    <3>3. QED
      BY <1>2, <2>1, <3>2 DEF Calm, At
  <2>5. QED
    BY <1>5, <1>6, <2>1, <2>2, <2>3, <2>4, LoopTypes
<1>10. CASE QueryFailed(t) \/ QueryNew(t)
  <2>1. UNCHANGED <<row, online, holder, excused>> /\ holder = t
    <3>1. UNCHANGED <<row, online, holder, excused>>
      BY <1>10, Zenon DEF QueryFailed, QueryNew, tabVars, bus, ghosts
    <3>2. QED
      BY <1>2, <1>10, <3>1 DEF QueryFailed, QueryNew, Calm, At
  <2>2. Retriable = {}
    BY DEF Faultless, NoneFailed, Retriable
  <2>3. ASSUME NEW r \in Unexecuted, Become(t, WithRow(loop[t], r)) PROVE Fine(loop'[t])
    <3>1. r \in Rtc /\ row[r].sync # "failed"
      BY <2>2 DEF Unexecuted, Retriable
    <3>2. loop'[t] = WithRow(loop[t], r)
      BY <1>4, <2>3
    <3>3. loop'[t].pc = "found" /\ loop'[t].kind = "run" /\ loop'[t].aborted = loop[t].aborted
      BY <1>1, <3>1, <3>2 DEF WithRow, Loop
    <3>4. QED
      BY <1>2, <2>1, <3>3 DEF Calm
  <2>4. \/ GoTo(t, "new") \/ GoTo(t, "found")
        \/ \E r \in Unexecuted : Become(t, WithRow(loop[t], r))
    BY <1>10, <2>2 DEF QueryFailed, QueryNew, Lowest
  <2>5. QED
    BY <1>5, <1>7, <2>1, <2>3, <2>4
<1>11. CASE NothingToDo(t) \/ NoProgress(t)
  <2>1. UNCHANGED <<row, online, holder, excused>>
    BY <1>11, Zenon DEF NothingToDo, NoProgress, tabVars, bus, ghosts
  <2>2. Become(t, Iterate(t, loop[t])) \/ \E b : Become(t, Exit(b))
    BY <1>11 DEF NothingToDo, NoProgress
  <2>3. QED
    BY <1>1, <1>5, <1>6, <1>8, <2>1, <2>2
<1>12. ~(SkipRetry(t) \/ TakeRetry(t) \/ BackoffEnds(t) \/ SleepEnds(t) \/ MarkFailed(t) \/ SettleDenial(t))
  BY <1>2 DEF SkipRetry, TakeRetry, Takes, BackoffEnds, SleepEnds, MarkFailed, SettleDenial, At, Calm
<1>13. CASE TakeNew(t)
  <2>1. holder = t
    BY <1>2, <1>13 DEF TakeNew, Takes, Calm, At
  <2>2. UNCHANGED <<row, online, holder, excused>>
    BY <1>13, <2>1, Zenon DEF TakeNew, Takes, tabVars, bus
  <2>3. QED
    BY <1>5, <1>7, <1>13, <2>1, <2>2 DEF TakeNew
<1>14. CASE Execute(t)
  <2>1. holder = t
    BY <1>2, <1>14 DEF Execute, Calm, At
  <2>2. UNCHANGED <<row, online, holder, excused>>
    BY <1>14, Zenon DEF Execute, tabVars, bus
  <2>3. QED
    BY <1>5, <1>7, <1>14, <2>1, <2>2 DEF Execute
<1>15. CASE Deny(t)
  <2>1. holder = t
    BY <1>2, <1>15 DEF Deny, Calm, At
  <2>2. UNCHANGED <<row, online, holder, excused>>
    BY <1>15, Zenon DEF Deny, tabVars, bus
  <2>3. loop'[t] = [loop[t] EXCEPT !.pc = "record", !.kind = "deny", !.result = "failed"]
    BY <1>4, <1>15 DEF Deny
  <2>4. loop'[t].pc = "record" /\ loop'[t].kind = "deny" /\ loop'[t].aborted = loop[t].aborted
    BY <1>1, <2>3 DEF Loop
  <2>5. QED
    BY <1>2, <1>5, <2>1, <2>2, <2>4 DEF Calm
<1>16. ASSUME NEW v \in Result, ToolEnds(t, v)
       PROVE  /\ online' = online /\ excused' = excused /\ Calm(t)' /\ holder' = holder /\ row' = row
  <2>1. holder = t
    BY <1>2, <1>16 DEF ToolEnds, Calm, At
  <2>2. UNCHANGED <<row, online, holder, excused>>
    BY <1>16, Zenon DEF ToolEnds, tabVars, bus
  <2>3. loop'[t] = [loop[t] EXCEPT !.pc = "record", !.result = v]
    BY <1>4, <1>16 DEF ToolEnds
  <2>4. loop'[t].pc = "record" /\ loop'[t].kind = loop[t].kind /\ loop'[t].aborted = loop[t].aborted
    BY <1>1, <2>3 DEF Loop
  <2>5. QED
    BY <1>2, <1>5, <2>1, <2>2, <2>4 DEF Calm
<1>17. CASE RecordResult(t)
  <2>1. holder = t /\ At(t, "record")
    BY <1>2, <1>17 DEF RecordResult, Calm, At
  <2>2. GoTo(t, "submit") /\ UNCHANGED ghosts /\ UNCHANGED <<online, holder>>
    BY <1>3, <1>17, Zenon DEF RecordResult, WriteFails, tabVars, bus
  <2>3. QED
    BY <1>5, <1>7, <2>1, <2>2 DEF ghosts
<1>18. CASE Submit(t)
  <2>1. holder = t
    BY <1>2, <1>18 DEF Submit, Calm, At
  <2>2. online
    BY DEF Faultless
  <2>3. GoTo(t, "mark") /\ UNCHANGED <<row, online, holder, excused>>
    BY <1>3, <1>18, <2>2, Zenon DEF Submit, tabVars, bus, ghosts
  <2>4. QED
    BY <1>5, <1>7, <2>1, <2>3
<1>19. CASE MarkSynced(t)
  <2>1. Become(t, Iterate(t, loop[t])) /\ UNCHANGED <<online, holder, excused>> /\ At(t, "mark")
    BY <1>3, <1>19, Zenon DEF MarkSynced, WriteFails, tabVars, bus, ghosts
  <2>2. QED
    BY <1>1, <1>5, <1>6, <2>1
<1>20. CASE Acquire(t)
  <2>1. holder = None /\ holder' = t /\ UNCHANGED <<row, online, excused>>
    BY <1>20, Zenon DEF Acquire, ghosts
  <2>2. loop'[t] = [NoLoop EXCEPT !.pc = "failed"]
    BY <1>4, <1>20 DEF Acquire
  <2>3. Fine(loop'[t])
    BY <2>1, <2>2 DEF NoLoop
  <2>4. QED
    BY <1>5, <2>1, <2>3, NoneAssumption
<1>21. CASE Open(t)
  <2>1. UNCHANGED <<row, online, holder, excused>>
    BY <1>21, Zenon DEF Open, ghosts
  <2>2. loop'[t] = NoLoop
    BY <1>4, <1>21 DEF Open
  <2>3. Fine(loop'[t])
    BY <2>2 DEF NoLoop
  <2>4. QED
    BY <1>5, <2>1, <2>3
<1>22. ~(Release(t) \/ Close(t))
  BY <1>3 DEF Release, Close
<1>23. QED
  BY <1>9, <1>10, <1>11, <1>12, <1>13, <1>14, <1>15, <1>16, <1>17, <1>18, <1>19, <1>20, <1>21, <1>22
     DEF Acts, Work

LEMMA CalmStep ==
    ASSUME IInv, [Next]_vars, faults = 0 => Faultless, faults' = 0
    PROVE  Faultless'
<1>1. TypeOK /\ \A t \in Tab : Hands(t)
  BY Parts
<1>2. Faultless /\ faults = 0
  <2>1. faults = 0
    <3>1. faults' = faults \/ \E k : Fault(k)
      <4>1. ASSUME NEW t \in Tab, Acts(t) PROVE faults' = faults \/ \E k : Fault(k)
        <5>1. CASE OnRtcUpdate(t) \/ QueryFailed(t) \/ QueryNew(t) \/ NothingToDo(t) \/ NoProgress(t)
          BY <5>1 DEF OnRtcUpdate, QueryFailed, QueryNew, NothingToDo, NoProgress
        <5>2. CASE SkipRetry(t) \/ TakeRetry(t) \/ TakeNew(t) \/ BackoffEnds(t) \/ SleepEnds(t)
          BY <5>2 DEF SkipRetry, TakeRetry, TakeNew, Takes, BackoffEnds, SleepEnds
        <5>3. CASE Deny(t) \/ Execute(t)
          BY <5>3 DEF Deny, Execute
        <5>8. ASSUME NEW v \in Result, ToolEnds(t, v) PROVE faults' = faults
          BY <5>8 DEF ToolEnds
        <5>4. CASE RecordResult(t) \/ MarkSynced(t) \/ MarkFailed(t) \/ SettleDenial(t)
          BY <5>4 DEF RecordResult, MarkSynced, MarkFailed, SettleDenial, WriteFails
        <5>5. CASE Submit(t)
          BY <5>5, Zenon DEF Submit
        <5>6. CASE Acquire(t) \/ Release(t) \/ Close(t) \/ Open(t)
          BY <5>6 DEF Acquire, Release, Close, Open
        <5>7. QED
          BY <4>1, <5>1, <5>2, <5>3, <5>4, <5>5, <5>6, <5>8 DEF Acts, Work
      <4>2. CASE ~(\E t \in Tab : Acts(t))
        BY <4>2 DEF Next, Acts, Push, Echo, Replay, Disconnect, Connect, vars
      <4>3. QED
        BY <4>1, <4>2
    <3>2. faults \in Nat
      BY <1>1 DEF TypeOK
    <3>3. QED
      BY <3>1, <3>2 DEF Fault
  <2>2. QED
    BY <2>1
<1>3. \A k : ~Fault(k)
  BY <1>1, <1>2, NoFault
\* A row that is written is not marked failed.
<1>4. ASSUME NEW t \in Tab, Acts(t), NEW r \in Rtc, Stored(r)' PROVE row'[r].sync # "failed"
  <2>1. Writes(t, r)
    BY <1>1, <1>4, Writing DEF Hands
  <2>2. loop[t].pc \notin {"fail", "settle"}
    BY <1>2 DEF Faultless, Calm
  <2>3. QED
    BY <1>2, <1>4, <2>1, <2>2 DEF Writes, Marks, At, Faultless, NoneFailed, Stored
<1>5. ASSUME NEW t \in Tab, Acts(t) PROVE Faultless'
  <2>1. online' = online /\ excused' = excused /\ Calm(t)'
    BY <1>1, <1>2, <1>5, CalmOwn
  <2>2. \A u \in Tab : holder = u /\ u # t => holder' = u
    BY <1>1, <1>2, <1>5, CalmOwn
  <2>3. ASSUME NEW u \in Tab \ {t} PROVE Calm(u)'
    <3>1. loop'[u] = loop[u]
      BY <1>1, <1>5, OthersRest DEF Rest
    <3>2. Calm(u)
      BY <1>2 DEF Faultless
    <3>3. QED
      BY <2>2, <3>1, <3>2 DEF Calm, At
  <2>4. online' /\ excused' = {}
    BY <1>2, <2>1, Zenon DEF Faultless
  <2>5. NoneFailed'
    BY <1>4, <1>5 DEF NoneFailed
  <2>6. QED
    BY <2>1, <2>3, <2>4, <2>5 DEF Faultless
<1>6. CASE \E q \in Rtc : Push(q) \/ Echo(q) \/ Replay(q)
  <2>1. PICK q \in Rtc : Push(q) \/ Echo(q)
    BY <1>3, <1>6 DEF Replay
  <2>2. UNCHANGED <<online, excused, holder, loop>>
    BY <2>1, Zenon DEF Push, Echo, tabVars, bus, ghosts
  <2>3. \A r \in Rtc : row'[r] = row[r] \/ row'[r].sync = "pending"
    BY <1>1, <2>1 DEF Push, Echo, TypeOK
  <2>4. NoneFailed'
    BY <1>2, <2>3 DEF Faultless, NoneFailed, Stored
  <2>5. \A t \in Tab : Calm(t)'
    BY <1>2, <2>2 DEF Faultless, Calm, At
  <2>6. online' /\ excused' = {}
    BY <1>2, <2>2, Zenon DEF Faultless
  <2>7. QED
    BY <2>4, <2>5, <2>6 DEF Faultless
<1>7. CASE Connect \/ UNCHANGED vars
  <2>1. UNCHANGED <<row, excused, holder, loop>>
    BY <1>7, Zenon DEF Connect, vars, tabVars, bus, ghosts
  <2>2. online'
    BY <1>2, <1>7, Zenon DEF Connect, vars, Faultless
  <2>3. NoneFailed' /\ \A t \in Tab : Calm(t)'
    BY <1>2, <2>1 DEF Faultless, NoneFailed, Stored, Calm, At
  <2>4. QED
    BY <1>2, <2>1, <2>2, <2>3 DEF Faultless
<1>8. ~Disconnect
  BY <1>3 DEF Disconnect
<1>9. QED
  BY <1>5, <1>6, <1>7, <1>8 DEF Next, Acts

(***************************************************************************)
(* Only faults excuse: the exceptions the other theorems make are empty    *)
(* while nothing has gone wrong.                                           *)
(***************************************************************************)
THEOREM CalmWeather == Spec => []Undisturbed
<1>1. Init => Faultless
  <2>1. SUFFICES ASSUME Init PROVE Faultless
    OBVIOUS
  <2>2. online /\ excused = {}
    BY <2>1, Zenon DEF Init
  <2>3. \A t \in Tab : Calm(t)
    BY <2>1 DEF Init, Calm, NoLoop, At
  <2>4. NoneFailed
    BY <2>1 DEF Init, NoneFailed, Stored
  <2>5. QED
    BY <2>2, <2>3, <2>4 DEF Faultless
<1>2. IInv /\ (faults = 0 => Faultless) /\ [Next]_vars => (faults = 0 => Faultless)'
  BY CalmStep
<1>3. (faults = 0 => Faultless) => Undisturbed
  BY DEF Faultless, NoneFailed, Calm, Undisturbed
<1>4. QED
  BY <1>1, <1>2, <1>3, Invariance, PTL DEF Spec

=============================================================================
