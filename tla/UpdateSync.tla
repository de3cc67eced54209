----------------------------- MODULE UpdateSync -----------------------------
(***************************************************************************)
(* The topic channel of RTCAgentClient: how the numbered updates of one    *)
(* user reach the local store.  Updates come from three sides, all of them *)
(* concurrent: publications, through a buffer and an executor; responses   *)
(* to RPCs; and gap fills, which fetch history in batches.  The first two  *)
(* pass one at a time through a promise chain; a gap fill runs beside it.  *)
(*                                                                         *)
(* A step is what runs between two awaits.  The position read is served by *)
(* the OffsetManager's cache and belongs to the step that uses it; what    *)
(* the manager does beneath is the module OffsetManager.                   *)
(***************************************************************************)
EXTENDS Integers, Sequences, FiniteSets

CONSTANTS
    None,
    MaxHead,             \* bound on the updates the server publishes in one epoch
    MaxEpoch,            \* bound on the server's epochs
    MaxFaults,           \* bound on drops, rejections, failed writes, timeouts and restarts
    MaxLoops,            \* bound on the gap-fill loops running at once, left-over ones included
    BatchSize,           \* BATCH_SIZE of runGapFill
    AccumulateThreshold, \* ACCUMULATE_THRESHOLD of runGapFill
    GapOffsets,          \* offsets history answers with a placeholder of type 'gap'
    Sources,             \* subset of {"pub", "rpc"}: who delivers updates
    Faults,              \* subset of {"drop", "reject", "write", "timeout", "restart"}
    FirstTime,           \* may the store start without a position
    Recovery             \* may Centrifuge replay what a dropped subscription missed

ASSUME BoundAssumption ==
    /\ MaxHead \in Nat /\ MaxEpoch \in Nat \ {0} /\ MaxFaults \in Nat /\ MaxLoops \in Nat
    /\ BatchSize \in Nat \ {0} /\ AccumulateThreshold \in Nat \ {0}
ASSUME ChoiceAssumption ==
    /\ GapOffsets \subseteq Nat
    /\ Sources \subseteq {"pub", "rpc"}
    /\ Faults \subseteq {"drop", "reject", "write", "timeout", "restart"}
    /\ Recovery \in BOOLEAN /\ FirstTime \in BOOLEAN

VARIABLES
    head,        \* the server: offset of its newest update in this epoch
    epoch,       \* the server: its epoch (0 stands for the client's empty epoch '')
    rpcs,        \* responses on their way: the offsets they carry
    pos,         \* the stored position, None before the first
    row,         \* the update whose data the store holds (every update rewrites the entity)
    covered,     \* ghost: updates of this epoch the store has absorbed
    link,        \* "connecting", "up", or "off": disconnected, waiting for the timer
    subscription,\* this.subscriptions has the topic channel
    subscribed,  \* ... and it is live
    wire,        \* next offset the subscription delivers, 0 if it must start afresh
    timer,       \* _reconnectTimer is pending
    handler,     \* the 'subscribed' handler between its read and its write
    epochCache,
    lastOffsetCache,
    pendingUpdates,
    isUpdateProcessing,
    applyUpdatesQueue,   \* the promise chain: head runs, the others wait for it
    stage,               \* where the head of the chain is
    gapFillTask,         \* gapFillTasks.get(channel)
    isGapFillProcessing,
    loops,               \* the processGapFillQueue loops running
    faults               \* faults so far

serverVars == <<head, epoch, rpcs>>
storeVars == <<pos, row, covered>>
linkVars == <<link, subscription, subscribed, wire, timer>>
cacheVars == <<handler, epochCache, lastOffsetCache>>
queueVars == <<pendingUpdates, isUpdateProcessing, applyUpdatesQueue, stage>>
gapVars == <<gapFillTask, isGapFillProcessing, loops>>
vars == <<serverVars, storeVars, linkVars, cacheVars, queueVars, gapVars, faults>>

Offset == 0..MaxHead
Epoch == 0..MaxEpoch
Position == [off : Offset, ep : Epoch]
ASSUME NoneAssumption == None \notin Nat /\ None \notin Position
Update == [src : {"pub", "rpc"}, off : Offset, ep : Epoch]
Task == [target : 0..(MaxHead + 1), ep : Epoch]
Loops == 1..MaxLoops
Loop == [pc : {"idle", "fetch", "flush", "advance", "settle"}, live : BOOLEAN,
         target : 0..(MaxHead + 1), ep : Epoch, start : Offset, cur : Offset,
         from : Epoch, err : BOOLEAN]

TypeOK ==
    /\ head \in Offset /\ epoch \in Epoch /\ rpcs \subseteq Offset
    /\ pos \in Position \cup {None} /\ row \in Position /\ covered \subseteq Offset
    /\ link \in {"connecting", "up", "off"}
    /\ subscription \in BOOLEAN /\ subscribed \in BOOLEAN
    /\ wire \in 0..(MaxHead + 1) /\ timer \in BOOLEAN
    /\ handler \in [off : Offset, ep : Epoch, read : Position \cup {None}] \cup {None}
    /\ epochCache \in Epoch /\ lastOffsetCache \in Offset \cup {None}
    /\ pendingUpdates \in Seq(Update) /\ isUpdateProcessing \in BOOLEAN
    /\ applyUpdatesQueue \in Seq(Update)
    /\ stage \in {"start", "wait", "apply", "advance"}
    /\ gapFillTask \in Task \cup {None} /\ isGapFillProcessing \in BOOLEAN
    /\ loops \in [Loops -> Loop] /\ faults \in 0..MaxFaults

Larger(a, b) == IF a > b THEN a ELSE b
Smaller(a, b) == IF a < b THEN a ELSE b

\* The newest update up to n that carries data, 0 if none.
LatestData(n) ==
    CHOOSE k \in 0..n : /\ k = 0 \/ k \notin GapOffsets
                        /\ \A j \in (k + 1)..n : j \in GapOffsets

IdleLoop == [pc |-> "idle", live |-> FALSE, target |-> 0, ep |-> 0, start |-> 0, cur |-> 0,
             from |-> 0, err |-> FALSE]

\* Every data update up to the position is in the store; none was ever fetched without one.
Init ==
    /\ epoch = 1 /\ head \in Offset /\ rpcs = {}
    /\ \/ FirstTime /\ pos = None /\ covered = {} /\ row = [off |-> 0, ep |-> 1]
       \/ \E n \in 0..head :
             /\ pos = [off |-> n, ep |-> 1]
             /\ covered = 1..n
             /\ row = [off |-> LatestData(n), ep |-> 1]
    /\ link = "connecting" /\ subscription = FALSE /\ subscribed = FALSE
    /\ wire = 0 /\ timer = FALSE
    /\ handler = None /\ epochCache = 0 /\ lastOffsetCache = None
    /\ pendingUpdates = <<>> /\ isUpdateProcessing = FALSE
    /\ applyUpdatesQueue = <<>> /\ stage = "start"
    /\ gapFillTask = None /\ isGapFillProcessing = FALSE
    /\ loops = [l \in Loops |-> IdleLoop]
    /\ faults = 0

\* Spend one fault of the given kind.
Fault(kind) ==
    /\ kind \in Faults
    /\ faults < MaxFaults
    /\ faults' = faults + 1

-----------------------------------------------------------------------------
(* The server *)

\* Another device, or the agent, causes an update.
Publish ==
    /\ "pub" \in Sources
    /\ head < MaxHead
    /\ head' = head + 1
    /\ UNCHANGED <<epoch, rpcs, storeVars, linkVars, cacheVars, queueVars, gapVars, faults>>

\* An RPC of this client causes one: it is published, and the response carries it too.
Rpc ==
    /\ "rpc" \in Sources
    /\ link = "up"
    /\ head < MaxHead
    /\ head' = head + 1
    /\ rpcs' = rpcs \cup {head + 1}
    /\ UNCHANGED <<epoch, storeVars, linkVars, cacheVars, queueVars, gapVars, faults>>

\* The connection is lost; Centrifuge reconnects by itself.
Drop ==
    /\ link = "up"
    /\ Fault("drop")
    /\ link' = "connecting"
    /\ subscribed' = FALSE
    /\ rpcs' = {}
    /\ UNCHANGED <<head, epoch, subscription, wire, timer, storeVars, cacheVars, queueVars,
                   gapVars>>

\* The server restarts with an empty stream.
NewEpoch ==
    /\ epoch < MaxEpoch
    /\ epoch' = epoch + 1
    /\ head' = 0
    /\ rpcs' = {}
    /\ covered' = {}
    /\ link' = IF link = "up" THEN "connecting" ELSE link
    /\ subscribed' = FALSE
    /\ wire' = 0
    /\ UNCHANGED <<pos, row, subscription, timer, cacheVars, queueVars, gapVars, faults>>

\* The server ends the connection for good ('message size limit exceeded'; 'invalid token'
\* does the same after a token refresh): no automatic reconnection, a timer instead.
Reject ==
    /\ link = "up"
    /\ Fault("reject")
    /\ link' = "off"
    /\ subscribed' = FALSE
    /\ timer' = TRUE
    /\ rpcs' = {}
    /\ UNCHANGED <<head, epoch, subscription, wire, storeVars, cacheVars, queueVars, gapVars>>

\* The worker dies: memory is gone, the store stays.
Restart ==
    /\ Fault("restart")
    /\ link' = "connecting" /\ subscription' = FALSE /\ subscribed' = FALSE
    /\ wire' = 0 /\ timer' = FALSE
    /\ handler' = None /\ epochCache' = 0 /\ lastOffsetCache' = None
    /\ pendingUpdates' = <<>> /\ isUpdateProcessing' = FALSE
    /\ applyUpdatesQueue' = <<>> /\ stage' = "start"
    /\ gapFillTask' = None /\ isGapFillProcessing' = FALSE
    /\ loops' = [l \in Loops |-> IdleLoop]
    /\ rpcs' = {}
    /\ UNCHANGED <<head, epoch, storeVars>>

-----------------------------------------------------------------------------
(* Gap fills *)

\* A mutant: the exclusive target taken twice.
FillableShort(p, target) == subscription /\ p.off < target - 2

\* runGapFill returns at once without a subscription or when the store has caught up.
Fillable(p, target) == subscription /\ p.off < target - 1

\* A loop entering runGapFill with the store at p.
LoopFrom(p, task) ==
    [pc |-> "fetch", live |-> TRUE, target |-> task.target, ep |-> task.ep,
     start |-> p.off, cur |-> p.off, from |-> 0, err |-> FALSE]

\* scheduleGapFill with the store at p: merge with the pending task, or leave the new one
\* to the loop running, or start a loop.
ScheduleGapFill(p, target, ep) ==
    LET task == [target |-> target, ep |-> ep] IN
    IF gapFillTask # None
    THEN /\ gapFillTask' = [target |-> Larger(gapFillTask.target, target), ep |-> ep]
         /\ UNCHANGED <<isGapFillProcessing, loops>>
    ELSE IF isGapFillProcessing
    THEN gapFillTask' = task /\ UNCHANGED <<isGapFillProcessing, loops>>
    ELSE IF Fillable(p, target)
    THEN /\ gapFillTask' = task
         /\ isGapFillProcessing' = TRUE
         /\ \E l \in Loops :
               /\ loops[l].pc = "idle"
               /\ \A k \in 1..(l - 1) : loops[k].pc # "idle"
               /\ loops' = [loops EXCEPT ![l] = LoopFrom(p, task)]
    ELSE UNCHANGED gapVars

\* A mutant: the flag is not reset after the last task.
RunEndsBusy(l) ==
    /\ loops' = [loops EXCEPT ![l] = IdleLoop]
    /\ gapFillTask' = None
    /\ UNCHANGED isGapFillProcessing

\* processGapFillQueue after runGapFill: go on with the task if it was extended past what
\* this run filled, else delete it and stop.
RunEnds(l) ==
    LET more == /\ gapFillTask # None
                /\ gapFillTask.target > loops[l].target
                /\ Fillable(pos, gapFillTask.target)
    IN  IF more
        THEN /\ loops' = [loops EXCEPT ![l] = LoopFrom(pos, gapFillTask)]
             /\ UNCHANGED <<gapFillTask, isGapFillProcessing>>
        ELSE /\ loops' = [loops EXCEPT ![l] = IdleLoop]
             /\ gapFillTask' = None
             /\ isGapFillProcessing' = FALSE

GoTo(l, pc) ==
    loops' = [loops EXCEPT ![l].pc = pc] /\ UNCHANGED <<gapFillTask, isGapFillProcessing>>
OtherThanGaps == <<serverVars, linkVars, cacheVars, queueVars>>

\* history() can answer: the loop's own subscription is live and the server's stream
\* continues the position asked for.
HistoryAnswers(l) ==
    /\ link = "up" /\ subscribed /\ loops[l].live
    /\ loops[l].ep \in {0, epoch}
    /\ loops[l].cur <= head

Fetched(l) == (loops[l].start + 1)..loops[l].cur

\* One history() call: the batch goes to the buffer, and the buffer to the store once it
\* is long enough, the range is complete or the server has no more.  An empty answer
\* with an empty buffer asks again.
FetchHistory(l) ==
    LET o == loops[l]
        limit == Smaller(BatchSize, o.target - o.cur - 1)
        cur == Smaller(head, o.cur + limit)
        updates == ((o.start + 1)..cur) \ GapOffsets
        enough == \/ Cardinality(updates) >= AccumulateThreshold
                  \/ cur >= o.target - 1
                  \/ cur < o.cur + limit
    IN  /\ o.pc = "fetch"
        /\ HistoryAnswers(l)
        /\ loops' = [loops EXCEPT ![l].cur = cur, ![l].from = epoch,
                         ![l].pc = IF enough /\ cur > o.start THEN "flush" ELSE "fetch"]
        /\ UNCHANGED <<OtherThanGaps, storeVars, gapFillTask, isGapFillProcessing, faults>>

\* history() rejects: connection lost, timeout, unrecoverable position.  On a live
\* connection it waits for the subscription.  What was fetched is still flushed.
HistoryFails(l) ==
    /\ loops[l].pc = "fetch"
    /\ ~HistoryAnswers(l)
    /\ loops[l].live /\ link = "up" => subscribed
    /\ IF loops[l].cur > loops[l].start
       THEN /\ loops' = [loops EXCEPT ![l].err = TRUE, ![l].pc = "flush"]
            /\ UNCHANGED <<gapFillTask, isGapFillProcessing>>
       ELSE RunEnds(l)
    /\ UNCHANGED <<OtherThanGaps, storeVars, faults>>

\* What the store holds, and the ghost, once updates S of epoch e are applied in order.
Absorb(S, e) ==
    /\ covered' = IF e = epoch THEN covered \cup S ELSE covered
    /\ row' = IF S \subseteq GapOffsets THEN row
              ELSE [off |-> CHOOSE n \in S \ GapOffsets : \A k \in S \ GapOffsets : k <= n,
                    ep |-> e]

\* flushGapFillBuffer: the deduplicated updates, in one batch, ...
FlushUpdates(l) ==
    /\ loops[l].pc = "flush"
    /\ Absorb(Fetched(l), loops[l].from)
    /\ GoTo(l, "advance")
    /\ UNCHANGED <<OtherThanGaps, pos, faults>>

\* A mutant: the position moves to the end of the task with the first batch.
FlushAdvancesToTarget(l) ==
    /\ loops[l].pc = "advance"
    /\ pos' = [off |-> loops[l].target - 1, ep |-> loops[l].ep]
    /\ GoTo(l, "settle")
    /\ UNCHANGED <<OtherThanGaps, row, covered, faults>>

\* ... then the position, to the last offset fetched.
FlushAdvances(l) ==
    /\ loops[l].pc = "advance"
    /\ pos' = [off |-> loops[l].cur, ep |-> loops[l].ep]
    /\ GoTo(l, "settle")
    /\ UNCHANGED <<OtherThanGaps, row, covered, faults>>

\* The position is written (readers saw it before): on to the next batch.
FlushSettles(l) ==
    LET o == loops[l] IN
    /\ o.pc = "settle"
    /\ IF o.err \/ o.cur >= o.target - 1
       THEN RunEnds(l)
       ELSE /\ loops' = [loops EXCEPT ![l].start = o.cur, ![l].pc = "fetch"]
            /\ UNCHANGED <<gapFillTask, isGapFillProcessing>>
    /\ UNCHANGED <<OtherThanGaps, storeVars, faults>>

\* Either write fails: the handler of the error flushes once more, then gives up.
FlushFails(l) ==
    /\ loops[l].pc \in {"flush", "advance"}
    /\ Fault("write")
    /\ IF loops[l].err
       THEN RunEnds(l)
       ELSE /\ loops' = [loops EXCEPT ![l].err = TRUE, ![l].pc = "flush"]
            /\ UNCHANGED <<gapFillTask, isGapFillProcessing>>
    /\ UNCHANGED <<OtherThanGaps, storeVars>>

-----------------------------------------------------------------------------
(* The buffer, the executor and the promise chain *)

\* scheduleUpdate drops what the cached offset covers and what is already buffered.
Stale(off) == lastOffsetCache # None /\ off <= lastOffsetCache
Buffered(off) == \E i \in 1..Len(pendingUpdates) : pendingUpdates[i].off = off

\* The subscription delivers the next publication; an idle executor takes the oldest
\* buffered update to the chain.  Placeholders exist in history only.
Publication ==
    LET queue == Append(pendingUpdates, [src |-> "pub", off |-> wire, ep |-> epoch]) IN
    /\ link = "up" /\ subscribed
    /\ wire <= head
    /\ wire' = wire + 1
    /\ IF wire \in GapOffsets \/ Stale(wire) \/ Buffered(wire)
       THEN UNCHANGED <<pendingUpdates, isUpdateProcessing, applyUpdatesQueue>>
       ELSE IF isUpdateProcessing
       THEN /\ pendingUpdates' = queue
            /\ UNCHANGED <<isUpdateProcessing, applyUpdatesQueue>>
       ELSE /\ pendingUpdates' = Tail(queue)
            /\ isUpdateProcessing' = TRUE
            /\ applyUpdatesQueue' = Append(applyUpdatesQueue, Head(queue))
    /\ UNCHANGED <<serverVars, storeVars, link, subscription, subscribed, timer, cacheVars, stage,
                   gapVars, faults>>

\* An RPC response arrives: its update joins the chain.
RpcResponse(off) ==
    /\ off \in rpcs
    /\ rpcs' = rpcs \ {off}
    /\ applyUpdatesQueue' = Append(applyUpdatesQueue, [src |-> "rpc", off |-> off, ep |-> epoch])
    /\ UNCHANGED <<head, epoch, storeVars, linkVars, cacheVars, pendingUpdates,
                   isUpdateProcessing, stage, gapVars, faults>>

Running == Head(applyUpdatesQueue)
Runs(st) == applyUpdatesQueue # <<>> /\ stage = st

\* The head of the chain is done.  If the executor sent it, the executor notes the offset
\* and takes the next buffered update to the end of the chain, or goes idle.
Succeed ==
    /\ stage' = "start"
    /\ IF Running.src = "rpc"
       THEN /\ applyUpdatesQueue' = Tail(applyUpdatesQueue)
            /\ UNCHANGED <<pendingUpdates, isUpdateProcessing, lastOffsetCache>>
       ELSE /\ lastOffsetCache' = Running.off
            /\ IF pendingUpdates = <<>>
               THEN /\ applyUpdatesQueue' = Tail(applyUpdatesQueue)
                    /\ isUpdateProcessing' = FALSE
                    /\ UNCHANGED pendingUpdates
               ELSE /\ applyUpdatesQueue' =
                          Append(Tail(applyUpdatesQueue), Head(pendingUpdates))
                    /\ pendingUpdates' = Tail(pendingUpdates)
                    /\ UNCHANGED isUpdateProcessing

ExecutorWaits == \E i \in 1..Len(applyUpdatesQueue) : applyUpdatesQueue[i].src = "pub"

\* The head of the chain fails, and with it everything queued behind it.  An executor
\* that had an update in the chain disconnects the current connection and sets the timer.
Fail ==
    /\ applyUpdatesQueue' = <<>>
    /\ stage' = "start"
    /\ IF ExecutorWaits
       THEN /\ isUpdateProcessing' = FALSE
            /\ link' = "off"
            /\ subscribed' = FALSE
            /\ timer' = TRUE
            /\ rpcs' = {}
       ELSE UNCHANGED <<isUpdateProcessing, link, subscribed, timer, rpcs>>
    /\ UNCHANGED <<head, epoch, subscription, wire, storeVars, cacheVars, pendingUpdates>>

OtherThanQueue == <<serverVars, linkVars, handler, epochCache>>

\* A mutant: a gap of one update goes unnoticed.
AheadByTwo(off) == pos # None /\ off > pos.off + 2

Duplicate(off) == pos # None /\ off <= pos.off
Ahead(off) == pos # None /\ off > pos.off + 1

\* processUpdate: skip what the position covers, ...
SkipDuplicate ==
    /\ Runs("start")
    /\ Duplicate(Running.off)
    /\ Succeed
    /\ UNCHANGED <<OtherThanQueue, storeVars, gapVars, faults>>

\* ... ask for a gap fill when it does not continue the position, ...
DetectGap ==
    /\ Runs("start")
    /\ Ahead(Running.off)
    /\ ScheduleGapFill(pos, Running.off, pos.ep)
    /\ stage' = "wait"
    /\ UNCHANGED <<serverVars, storeVars, linkVars, cacheVars, pendingUpdates,
                   isUpdateProcessing, applyUpdatesQueue, faults>>

\* ... apply it otherwise.
AcceptUpdate ==
    /\ Runs("start")
    /\ ~Duplicate(Running.off) /\ ~Ahead(Running.off)
    /\ stage' = "apply"
    /\ UNCHANGED <<serverVars, storeVars, linkVars, cacheVars, pendingUpdates,
                   isUpdateProcessing, applyUpdatesQueue, gapVars, faults>>

\* waitForGapFill returns once the position has caught up or the task is gone.
WaitOver == pos.off >= Running.off - 1 \/ gapFillTask = None
FilledExactly == pos.off = Running.off - 1 /\ pos.ep = epochCache

GapFilled ==
    /\ Runs("wait")
    /\ WaitOver /\ FilledExactly
    /\ stage' = "apply"
    /\ UNCHANGED <<serverVars, storeVars, linkVars, cacheVars, pendingUpdates,
                   isUpdateProcessing, applyUpdatesQueue, gapVars, faults>>

\* The update is rejected when the fill fell short, overshot or changed epoch, and after
\* 30 seconds.
WaitFails ==
    /\ \/ Runs("wait") /\ WaitOver /\ ~FilledExactly /\ UNCHANGED faults
       \/ Runs("wait") /\ ~WaitOver /\ Fault("timeout")
    /\ Fail
    /\ UNCHANGED gapVars

\* onPublication stores the data, ...
ApplyUpdate ==
    /\ Runs("apply")
    /\ Absorb({Running.off}, Running.ep)
    /\ stage' = "advance"
    /\ UNCHANGED <<serverVars, pos, linkVars, cacheVars, pendingUpdates, isUpdateProcessing,
                   applyUpdatesQueue, gapVars, faults>>

\* ... updateOffset the position, under the epoch known by now.
AdvancePosition ==
    /\ Runs("advance")
    /\ pos' = [off |-> Running.off, ep |-> epochCache]
    /\ covered' = IF pos = None THEN covered \cup 1..Running.off ELSE covered
    /\ Succeed
    /\ UNCHANGED <<OtherThanQueue, row, gapVars, faults>>

\* Either write fails.
UpdateFails ==
    /\ Runs("apply") \/ Runs("advance")
    /\ Fault("write")
    /\ Fail
    /\ UNCHANGED gapVars

-----------------------------------------------------------------------------
(* The connection *)

\* The transport is up; subscribeChannels creates the subscription if there is none.
Connected ==
    /\ link = "connecting"
    /\ link' = "up"
    /\ subscription' = TRUE
    /\ UNCHANGED <<serverVars, storeVars, subscribed, wire, timer, cacheVars, queueVars, gapVars,
                   faults>>

\* The 'subscribed' event: remember the epoch, start reading the position.  Centrifuge
\* resumes the stream where the subscription was cut off, or at the newest update.
SubscribedEvent ==
    /\ link = "up" /\ ~subscribed
    /\ handler = None
    /\ subscribed' = TRUE
    /\ wire' \in {head + 1} \cup (IF Recovery /\ wire > 0 THEN {wire} ELSE {})
    /\ epochCache' = epoch
    /\ handler' = [off |-> head, ep |-> epoch, read |-> pos]
    /\ UNCHANGED <<serverVars, storeVars, link, subscription, timer, lastOffsetCache, queueVars,
                   gapVars, faults>>

\* A mutant: the cache takes the server's offset before the gap is filled.
LocalOffsetOfServer(h) == h.off

\* Where the handler takes the store to be: another epoch starts again from 0, no position
\* adopts the server's.
LocalOffset(h) ==
    IF h.read = None THEN h.off ELSE IF h.read.ep # h.ep THEN 0 ELSE h.read.off

\* A mutant: one added twice.
FillTargetFar(serverOffset) == serverOffset + 2

\* scheduleGapFill's target is exclusive.
FillTarget(serverOffset) == serverOffset + 1

\* The handler goes on with the position it read, and asks for a gap fill when it is
\* behind the server.  What came before an adopted position counts as absorbed.
SubscribedHandler ==
    LET h == handler
        adopts == h.read = None
    IN  /\ h # None
        /\ handler' = None
        /\ lastOffsetCache' = LocalOffset(h)
        /\ pos' = IF adopts \/ h.read.ep # h.ep THEN [off |-> LocalOffset(h), ep |-> h.ep]
                  ELSE pos
        /\ covered' = IF adopts /\ h.ep = epoch THEN covered \cup 1..h.off ELSE covered
        /\ row' = IF adopts /\ row.off < LatestData(h.off)
                  THEN [off |-> LatestData(h.off), ep |-> h.ep] ELSE row
        /\ IF h.off > LocalOffset(h)
           THEN ScheduleGapFill(pos', FillTarget(h.off), h.ep)
           ELSE UNCHANGED gapVars
        /\ UNCHANGED <<serverVars, linkVars, epochCache, queueVars, faults>>

\* The timer fires: disconnect() and connect(), unless a connection is under way.
\* disconnect() forgets buffers, tasks, flags and subscriptions; the loops, the chain and
\* epochCache live on.  It also aborts a wait, which fails the chain: its executor then
\* disconnects the connection connect() has just begun, and sets the timer again.
Reconnect ==
    LET aborted == Runs("wait") IN
    /\ timer
    /\ IF link # "off"
       THEN /\ timer' = FALSE
            /\ UNCHANGED <<link, subscription, subscribed, wire, lastOffsetCache, queueVars,
                           gapVars, rpcs>>
       ELSE /\ timer' = (aborted /\ ExecutorWaits)
            /\ link' = IF aborted /\ ExecutorWaits THEN "off" ELSE "connecting"
            /\ subscription' = FALSE
            /\ subscribed' = FALSE
            /\ wire' = 0
            /\ rpcs' = {}
            /\ lastOffsetCache' = None
            /\ pendingUpdates' = <<>>
            /\ isUpdateProcessing' = FALSE
            /\ applyUpdatesQueue' = IF aborted THEN <<>> ELSE applyUpdatesQueue
            /\ stage' = IF aborted THEN "start" ELSE stage
            /\ gapFillTask' = None
            /\ isGapFillProcessing' = FALSE
            /\ loops' = [l \in Loops |-> [loops[l] EXCEPT !.live = FALSE]]
    /\ UNCHANGED <<head, epoch, storeVars, handler, epochCache, faults>>

-----------------------------------------------------------------------------

GapFill(l) ==
    \/ FetchHistory(l) \/ HistoryFails(l)
    \/ FlushUpdates(l) \/ FlushAdvances(l) \/ FlushSettles(l)

Chain ==
    \/ SkipDuplicate \/ DetectGap \/ AcceptUpdate \/ GapFilled \/ WaitFails
    \/ ApplyUpdate \/ AdvancePosition

Next ==
    \/ Publish \/ Rpc \/ Drop \/ NewEpoch \/ Reject \/ Restart
    \/ \E l \in Loops : GapFill(l) \/ FlushFails(l)
    \/ Publication
    \/ \E off \in rpcs : RpcResponse(off)
    \/ Chain \/ UpdateFails
    \/ Connected \/ SubscribedEvent \/ SubscribedHandler \/ Reconnect

Spec == Init /\ [][Next]_vars

\* What the event loop, IndexedDB, the server and the reconnection do sooner or later.
Fairness ==
    /\ \A l \in Loops : WF_vars(GapFill(l))
    /\ WF_vars(Chain)
    /\ WF_vars(Publication)
    /\ WF_vars(\E off \in rpcs : RpcResponse(off))
    /\ WF_vars(Connected)
    /\ WF_vars(SubscribedEvent)
    /\ WF_vars(SubscribedHandler)
    /\ WF_vars(Reconnect)

FairSpec == Spec /\ Fairness

-----------------------------------------------------------------------------

(***************************************************************************)
(* Strict +1 continuity (processUpdate, flushGapFillBuffer): the stored    *)
(* position never runs past an update the store has not absorbed, whatever *)
(* writes fail, connections drop or waits time out in the middle: a        *)
(* restart resumes from the position, so an update skipped is lost.        *)
(***************************************************************************)
NoSkippedUpdate ==
    pos # None /\ pos.ep = epoch => 1..pos.off \subseteq covered

(***************************************************************************)
(* scheduleUpdate drops a publication for good when lastOffsetCache covers *)
(* it (lines 767-775): so the cache, written by the executor and by the    *)
(* subscribed handler and forgotten by disconnect, never covers an update  *)
(* the store has not absorbed.                                             *)
(***************************************************************************)
StaleIsCovered ==
    lastOffsetCache # None => 1..lastOffsetCache \subseteq covered

RunningLoops == {l \in Loops : loops[l].pc # "idle"}

(***************************************************************************)
(* Nothing waits for nobody: a registered gap-fill task or a set flag has  *)
(* a loop that will come back to it, a buffered publication an executor    *)
(* in the chain or a reconnection that clears it.  disconnect resets flags *)
(* under running loops and executors; were one left set, every later gap   *)
(* fill or publication would return early for ever.                        *)
(***************************************************************************)
NothingStranded ==
    /\ gapFillTask # None \/ isGapFillProcessing => RunningLoops # {}
    /\ pendingUpdates # <<>> \/ isUpdateProcessing => ExecutorWaits \/ timer

(***************************************************************************)
(* Once the server is quiet the store ends up with every update and shows  *)
(* the newest (class comment: offline recovery), though the worker may die *)
(* and start again at any step.  It is no promise for a connection that    *)
(* drops or a write that fails: the gap fill is given up, one scheduled on *)
(* the way back may be merged with it and deleted with it (lines 907-956), *)
(* and the gap stays until the next publication.  Nor for a second epoch:  *)
(* a server restart may leave the position under the wrong one.            *)
(***************************************************************************)
UpToDate == (1..head) \ GapOffsets \subseteq covered /\ row.off = LatestData(head)
CatchesUp == <>[](epoch > 1 \/ UpToDate)

Log == INSTANCE TopicLog WITH stored <- covered,
                              position <- IF pos = None THEN 0 ELSE pos.off

(***************************************************************************)
(* Within one epoch the channel is a consumer of a log as TopicLog states  *)
(* it, whichever of its writers moves the store: no data is withdrawn, and *)
(* each commit of the position is a write of its own, onto a prefix that   *)
(* is stored before.                                                       *)
(***************************************************************************)
ImplementsTopicLog == Log!Spec

=============================================================================
