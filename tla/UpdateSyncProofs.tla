-------------------------- MODULE UpdateSyncProofs --------------------------
(***************************************************************************)
(* UpdateSync for every number of updates, faults and gap-fill loops, and  *)
(* every size of batch and buffer: first what holds whatever the server    *)
(* does, then continuity as long as it does not restart.                   *)
(***************************************************************************)
EXTENDS UpdateSync, TLAPS, FiniteSetTheorems, SequenceTheorems, WellFoundedInduction

-----------------------------------------------------------------------------
(* What holds in every epoch. *)

\* The types, variable by variable.
ServerType == head \in Offset /\ epoch \in Epoch /\ rpcs \subseteq Offset
StoreType == pos \in Position \cup {None} /\ row \in Position /\ covered \subseteq Offset
LinkType ==
    /\ link \in {"connecting", "up", "off"}
    /\ subscription \in BOOLEAN /\ subscribed \in BOOLEAN
    /\ wire \in 0..(MaxHead + 1) /\ timer \in BOOLEAN
CacheType ==
    /\ handler \in [off : Offset, ep : Epoch, read : Position \cup {None}] \cup {None}
    /\ epochCache \in Epoch /\ lastOffsetCache \in Offset \cup {None}
Stages == {"start", "wait", "apply", "advance"}
QueueType ==
    /\ pendingUpdates \in Seq(Update) /\ isUpdateProcessing \in BOOLEAN
    /\ applyUpdatesQueue \in Seq(Update)
    /\ stage \in Stages
GapType ==
    /\ gapFillTask \in Task \cup {None} /\ isGapFillProcessing \in BOOLEAN
    /\ loops \in [Loops -> Loop]
Types == ServerType /\ StoreType /\ LinkType /\ CacheType /\ QueueType /\ GapType

\* A loop that fetches is short of its target; one that writes has something to write.
Shaped(o) ==
    /\ o.pc # "idle" => o.start <= o.cur
    /\ o.pc = "fetch" => o.cur < o.target - 1
    /\ o.pc \in {"flush", "advance", "settle"} => o.start < o.cur
LoopsShaped == \A l \in Loops : Shaped(loops[l])

\* A loop starts from a position.
LoopsHavePos == pos = None => \A l \in Loops : loops[l].pc = "idle"

\* The timer only runs while the connection is given up, ...
TimerIsOff == timer => link = "off"

\* ... the buffer holds publications, ...
Elements(q) == {q[i] : i \in 1..Len(q)}
BufferIsPub == \A u \in Elements(pendingUpdates) : u.src = "pub"

\* ... and an empty chain is at its start.
EmptyStarts == applyUpdatesQueue = <<>> => stage = "start"

TaskHasLoop == gapFillTask # None \/ isGapFillProcessing => RunningLoops # {}
BufferHasExecutor == pendingUpdates # <<>> \/ isUpdateProcessing => ExecutorWaits \/ timer

\* Who has read a position will find one.
HandlerHasPos == handler # None /\ pos = None => handler.read = None

GapInv == LoopsShaped /\ LoopsHavePos /\ TaskHasLoop
QueueInv == TimerIsOff /\ BufferIsPub /\ EmptyStarts /\ BufferHasExecutor

-----------------------------------------------------------------------------
(* Numbers and sequences. *)

\* "Less than" as a relation, and that it has no infinite descent.
Below == {p \in Nat \X Nat : p[1] < p[2]}

LEMMA BelowFacts == IsWellFoundedOn(Below, Nat)
BY NatLessThanWellFounded DEF OpToRel, Below

\* Numbers below a bound have a greatest.
LEMMA GreatestExists ==
    ASSUME NEW b \in Nat, NEW S \in SUBSET (0..b), S # {}
    PROVE  \E x \in S : \A y \in S : y <= x
<1> DEFINE T == {b - x : x \in S}
<1>1. T \subseteq Nat /\ T # {}
  <2>1. \A x \in S : b - x \in Nat
    OBVIOUS
  <2>2. PICK x \in S : TRUE
    OBVIOUS
  <2>3. QED
    BY <2>1, <2>2, Zenon
<1> HIDE DEF T
<1>2. PICK t \in T : \A y \in T : ~(<<y, t>> \in Below)
  BY <1>1, WFMin, BelowFacts
<1>3. ASSUME NEW y \in T PROVE ~(y < t)
  <2>1. <<y, t>> \in Nat \X Nat
    BY <1>1
  <2>2. <<y, t>>[1] = y /\ <<y, t>>[2] = t
    OBVIOUS
  <2>3. QED
    BY <1>2, <2>1, <2>2, Zenon DEF Below
<1>4. PICK x \in S : t = b - x
  BY DEF T
<1>5. ASSUME NEW y \in S PROVE y <= x
  <2>1. b - y \in T
    BY DEF T
  <2>2. ~(b - y < b - x)
    BY <1>3, <1>4, <2>1
  <2>3. QED
    BY <2>2
<1>6. QED
  BY <1>5

\* The newest update that carries data is an offset.
LEMMA LatestDataFacts ==
    ASSUME NEW n \in Offset
    PROVE  LatestData(n) \in Offset
<1> DEFINE S == {k \in 0..n : k = 0 \/ k \notin GapOffsets}
<1>1. n \in Nat /\ 0 \in S /\ S \subseteq 0..n
  BY BoundAssumption DEF Offset
<1>2. PICK k \in S : \A j \in S : j <= k
  BY <1>1, GreatestExists
<1>3. k \in 0..n /\ (k = 0 \/ k \notin GapOffsets)
  OBVIOUS
<1>4. ASSUME NEW j \in (k + 1)..n PROVE j \in GapOffsets
  <2>1. j \in 0..n /\ j # 0 /\ ~(j <= k)
    BY <1>1, <1>3
  <2>2. QED
    BY <1>2, <2>1
<1>5. LatestData(n) \in 0..n
  BY <1>3, <1>4 DEF LatestData
<1>6. QED
  BY <1>1, <1>5, BoundAssumption DEF Offset

LEMMA AbsorbFacts ==
    ASSUME Types, NEW S \in SUBSET Offset, NEW e \in Epoch, Absorb(S, e)
    PROVE  /\ row' \in Position /\ covered' \subseteq Offset
           /\ covered' = IF e = epoch THEN covered \cup S ELSE covered
<1>1. covered' \subseteq Offset /\ covered' = IF e = epoch THEN covered \cup S ELSE covered
  BY DEF Types, StoreType, Absorb
<1>2. CASE S \subseteq GapOffsets
  BY <1>2 DEF Types, StoreType, Absorb
<1>3. CASE ~(S \subseteq GapOffsets)
  <2> DEFINE D == S \ GapOffsets
  <2>1. D \in SUBSET (0..MaxHead) /\ D # {} /\ MaxHead \in Nat
    BY <1>3, BoundAssumption DEF Offset
  <2>2. \E x \in D : \A k \in D : k <= x
    BY <2>1, GreatestExists
  <2>3. (CHOOSE x \in D : \A k \in D : k <= x) \in D
    BY <2>2
  <2>4. row' = [off |-> CHOOSE x \in D : \A k \in D : k <= x, ep |-> e]
    BY <1>3 DEF Absorb
  <2>5. QED
    BY <1>1, <2>1, <2>3, <2>4 DEF Position, Offset
<1>4. QED
  BY <1>1, <1>2, <1>3

\* What Append and Tail do to a queue.
LEMMA AppendElements ==
    ASSUME NEW S, NEW q \in Seq(S), NEW e \in S
    PROVE  /\ Append(q, e) \in Seq(S) /\ Append(q, e) # <<>>
           /\ Elements(Append(q, e)) = Elements(q) \cup {e}
           /\ q # <<>> => Head(Append(q, e)) = Head(q)
<1>1. /\ Append(q, e) \in Seq(S) /\ Len(Append(q, e)) = Len(q) + 1 /\ Len(q) \in Nat
      /\ \A i \in 1..Len(q) : Append(q, e)[i] = q[i]
      /\ Append(q, e)[Len(q) + 1] = e
      /\ Append(q, e) # <<>>
  OBVIOUS
<1>2. \A i \in 1..(Len(q) + 1) : i \in 1..Len(q) \/ i = Len(q) + 1
  BY <1>1
<1>3. ASSUME NEW x PROVE x \in Elements(Append(q, e)) <=> x \in Elements(q) \/ x = e
  BY <1>1, <1>2 DEF Elements
<1>4. QED
  BY <1>1, <1>3, HeadTailAppend

LEMMA TailElements ==
    ASSUME NEW S, NEW q \in Seq(S), q # <<>>
    PROVE  /\ Head(q) \in S /\ Tail(q) \in Seq(S)
           /\ Elements(q) = {Head(q)} \cup Elements(Tail(q))
<1>1. /\ Head(q) \in S /\ Head(q) = q[1] /\ Tail(q) \in Seq(S)
      /\ Len(q) \in Nat \ {0} /\ Len(Tail(q)) = Len(q) - 1
      /\ \A i \in 1..Len(Tail(q)) : Tail(q)[i] = q[i + 1]
  OBVIOUS
<1>2. ASSUME NEW x \in Elements(q) PROVE x = Head(q) \/ x \in Elements(Tail(q))
  <2>1. PICK i \in 1..Len(q) : x = q[i]
    BY DEF Elements
  <2>2. CASE i = 1
    BY <1>1, <2>1, <2>2
  <2>3. CASE i # 1
    <3>1. i - 1 \in 1..Len(Tail(q)) /\ Tail(q)[i - 1] = q[i]
      BY <1>1, <2>3
    <3>2. QED
      BY <2>1, <3>1 DEF Elements
  <2>4. QED
    BY <2>2, <2>3
<1>3. ASSUME NEW x \in Elements(Tail(q)) PROVE x \in Elements(q)
  <2>1. PICK i \in 1..Len(Tail(q)) : x = Tail(q)[i]
    BY DEF Elements
  <2>2. i + 1 \in 1..Len(q) /\ x = q[i + 1]
    BY <1>1, <2>1
  <2>3. QED
    BY <2>2 DEF Elements
<1>4. Head(q) \in Elements(q)
  BY <1>1 DEF Elements
<1>5. QED
  BY <1>1, <1>2, <1>3, <1>4

LEMMA NoElements == \A q : q = <<>> => Elements(q) = {}
BY DEF Elements

LEMMA ExecutorFacts ==
    /\ ExecutorWaits <=> \E u \in Elements(applyUpdatesQueue) : u.src = "pub"
    /\ ExecutorWaits' <=> \E u \in Elements(applyUpdatesQueue') : u.src = "pub"
BY DEF ExecutorWaits, Elements

-----------------------------------------------------------------------------
(* What the helpers do to the gap fills. *)

\* Three moves of a loop: on with what it does, to its end, or anew from a position.
Moved(o, new, p) ==
    new = o \/ new.pc = "idle" \/ (new.pc = "fetch" /\ new.start = p.off /\ new.cur = p.off)

LEMMA LoopFromFacts ==
    ASSUME NEW p \in Position, NEW task \in Task, p.off < task.target - 1
    PROVE  /\ LoopFrom(p, task) \in Loop /\ Shaped(LoopFrom(p, task))
           /\ LoopFrom(p, task).pc = "fetch"
           /\ LoopFrom(p, task).start = p.off /\ LoopFrom(p, task).cur = p.off
BY BoundAssumption DEF LoopFrom, Loop, Shaped, Position, Task, Offset, Epoch

LEMMA IdleFacts == IdleLoop \in Loop /\ Shaped(IdleLoop) /\ IdleLoop.pc = "idle"
BY BoundAssumption DEF IdleLoop, Loop, Shaped, Offset, Epoch

LEMMA ScheduleFacts ==
    ASSUME Types, LoopsShaped, TaskHasLoop,
           NEW p \in Position, NEW target \in 0..(MaxHead + 1), NEW ep \in Epoch,
           ScheduleGapFill(p, target, ep)
    PROVE  /\ GapType' /\ LoopsShaped' /\ TaskHasLoop'
           /\ \A l \in Loops : Moved(loops[l], loops'[l], p)
<1> DEFINE task == [target |-> target, ep |-> ep]
<1>1. task \in Task /\ task.target = target
  BY DEF Task
<1>2. CASE gapFillTask # None
  <2>1. /\ gapFillTask' \in Task /\ UNCHANGED <<isGapFillProcessing, loops>>
    BY <1>2, BoundAssumption DEF ScheduleGapFill, Types, GapType, Task, Larger
  <2>2. QED
    BY <1>2, <2>1 DEF Types, GapType, LoopsShaped, TaskHasLoop, RunningLoops, Moved
<1>3. CASE gapFillTask = None /\ isGapFillProcessing
  <2>1. gapFillTask' \in Task /\ UNCHANGED <<isGapFillProcessing, loops>>
    BY <1>1, <1>3 DEF ScheduleGapFill
  <2>2. QED
    BY <1>3, <2>1 DEF Types, GapType, LoopsShaped, TaskHasLoop, RunningLoops, Moved
<1>4. CASE gapFillTask = None /\ ~isGapFillProcessing /\ Fillable(p, target)
  <2>1. gapFillTask' = task /\ isGapFillProcessing' = TRUE
    BY <1>4 DEF ScheduleGapFill
  <2>2. PICK l \in Loops : loops' = [loops EXCEPT ![l] = LoopFrom(p, task)]
    BY <1>4 DEF ScheduleGapFill
  <2>3. /\ LoopFrom(p, task) \in Loop /\ Shaped(LoopFrom(p, task))
        /\ LoopFrom(p, task).pc = "fetch"
        /\ LoopFrom(p, task).start = p.off /\ LoopFrom(p, task).cur = p.off
    BY <1>1, <1>4, LoopFromFacts DEF Fillable
  <2> HIDE DEF task
  <2>4. /\ loops' \in [Loops -> Loop] /\ loops'[l] = LoopFrom(p, task)
        /\ \A k \in Loops : k # l => loops'[k] = loops[k]
    BY <2>2, <2>3 DEF Types, GapType
  <2>5. LoopsShaped' /\ \A k \in Loops : Moved(loops[k], loops'[k], p)
    BY <2>3, <2>4 DEF LoopsShaped, Moved
  <2>6. l \in RunningLoops'
    BY <2>3, <2>4 DEF RunningLoops
  <2>7. QED
    BY <1>1, <2>1, <2>4, <2>5, <2>6 DEF GapType, TaskHasLoop
<1>5. CASE gapFillTask = None /\ ~isGapFillProcessing /\ ~Fillable(p, target)
  <2>1. UNCHANGED gapVars
    BY <1>5 DEF ScheduleGapFill
  <2>2. QED
    BY <2>1 DEF gapVars, Types, GapType, LoopsShaped, TaskHasLoop, RunningLoops, Moved
<1>6. QED
  BY <1>2, <1>3, <1>4, <1>5

\* One loop changes to a loop that is shaped and runs.
LEMMA LoopFacts ==
    ASSUME Types, LoopsShaped, TaskHasLoop, NEW l \in Loops, NEW new \in Loop,
           loops' = [loops EXCEPT ![l] = new], Shaped(new), new.pc # "idle",
           UNCHANGED <<gapFillTask, isGapFillProcessing>>
    PROVE  /\ GapType' /\ LoopsShaped' /\ TaskHasLoop'
           /\ loops'[l] = new /\ \A k \in Loops : k # l => loops'[k] = loops[k]
<1>1. /\ loops' \in [Loops -> Loop] /\ loops'[l] = new
      /\ \A k \in Loops : k # l => loops'[k] = loops[k]
  BY DEF Types, GapType
<1>2. LoopsShaped'
  BY <1>1 DEF LoopsShaped
<1>3. l \in RunningLoops'
  BY <1>1 DEF RunningLoops
<1>4. QED
  BY <1>1, <1>2, <1>3 DEF Types, GapType, TaskHasLoop

LEMMA RunEndsFacts ==
    ASSUME Types, LoopsShaped, TaskHasLoop, pos # None, NEW l \in Loops, RunEnds(l)
    PROVE  /\ GapType' /\ LoopsShaped' /\ TaskHasLoop'
           /\ \A k \in Loops : Moved(loops[k], loops'[k], pos)
<1> DEFINE more == /\ gapFillTask # None
                   /\ gapFillTask.target > loops[l].target
                   /\ Fillable(pos, gapFillTask.target)
<1>1. CASE more
  <2>1. /\ loops' = [loops EXCEPT ![l] = LoopFrom(pos, gapFillTask)]
        /\ UNCHANGED <<gapFillTask, isGapFillProcessing>>
    BY <1>1 DEF RunEnds
  <2>2. pos \in Position /\ gapFillTask \in Task /\ pos.off < gapFillTask.target - 1
    BY <1>1 DEF Types, StoreType, GapType, Fillable
  <2>3. /\ LoopFrom(pos, gapFillTask) \in Loop /\ Shaped(LoopFrom(pos, gapFillTask))
        /\ LoopFrom(pos, gapFillTask).pc = "fetch"
        /\ LoopFrom(pos, gapFillTask).start = pos.off
        /\ LoopFrom(pos, gapFillTask).cur = pos.off
    BY <2>2, LoopFromFacts
  <2>4. /\ GapType' /\ LoopsShaped' /\ TaskHasLoop'
        /\ loops'[l] = LoopFrom(pos, gapFillTask)
        /\ \A k \in Loops : k # l => loops'[k] = loops[k]
    BY <2>1, <2>3, LoopFacts
  <2>5. QED
    BY <2>3, <2>4 DEF Moved
<1>2. CASE ~more
  <2>1. /\ loops' = [loops EXCEPT ![l] = IdleLoop]
        /\ gapFillTask' = None /\ isGapFillProcessing' = FALSE
    BY <1>2 DEF RunEnds
  <2>2. /\ loops' \in [Loops -> Loop] /\ loops'[l] = IdleLoop
        /\ \A k \in Loops : k # l => loops'[k] = loops[k]
    BY <2>1, IdleFacts DEF Types, GapType
  <2>3. QED
    BY <2>1, <2>2, IdleFacts DEF GapType, LoopsShaped, TaskHasLoop, Moved
<1>3. QED
  BY <1>1, <1>2

-----------------------------------------------------------------------------
(* What the helpers do to the queues. *)

Queued == Elements(applyUpdatesQueue) \cup Elements(pendingUpdates)

\* The head of the chain keeps running.
KeepsHead ==
    applyUpdatesQueue # <<>> =>
        applyUpdatesQueue' # <<>> /\ Head(applyUpdatesQueue') = Head(applyUpdatesQueue)

LEMMA SucceedFacts ==
    ASSUME Types, QueueInv, applyUpdatesQueue # <<>>, Succeed, UNCHANGED <<link, timer>>
    PROVE  /\ QueueType' /\ QueueInv'
           /\ lastOffsetCache' \in Offset \cup {None}
           /\ lastOffsetCache' \in {lastOffsetCache, Running.off}
           /\ stage' = "start"
           /\ Queued' \subseteq Queued
<1> USE DEF Running
<1>1. /\ pendingUpdates \in Seq(Update) /\ applyUpdatesQueue \in Seq(Update)
      /\ isUpdateProcessing \in BOOLEAN /\ lastOffsetCache \in Offset \cup {None}
  BY DEF Types, QueueType, CacheType
<1>2. /\ Running \in Update /\ Tail(applyUpdatesQueue) \in Seq(Update)
      /\ Elements(applyUpdatesQueue) = {Running} \cup Elements(Tail(applyUpdatesQueue))
  BY <1>1, TailElements
<1>3. TimerIsOff' /\ EmptyStarts' /\ stage' = "start"
  BY DEF QueueInv, TimerIsOff, EmptyStarts, Succeed
<1>4. CASE Running.src = "rpc"
  <2>1. /\ applyUpdatesQueue' = Tail(applyUpdatesQueue)
        /\ UNCHANGED <<pendingUpdates, isUpdateProcessing, lastOffsetCache>>
    BY <1>4 DEF Succeed
  <2>2. ExecutorWaits => ExecutorWaits'
    BY <1>2, <1>4, <2>1, ExecutorFacts
  <2>3. BufferIsPub' /\ BufferHasExecutor'
    BY <2>1, <2>2 DEF QueueInv, BufferIsPub, BufferHasExecutor
  <2>4. QueueType' /\ Queued' \subseteq Queued
    BY <1>1, <1>2, <1>3, <2>1 DEF QueueType, Queued, Stages
  <2>5. QED
    BY <1>1, <1>3, <2>1, <2>3, <2>4 DEF QueueInv
<1>5. CASE Running.src # "rpc" /\ pendingUpdates = <<>>
  <2>1. /\ applyUpdatesQueue' = Tail(applyUpdatesQueue) /\ isUpdateProcessing' = FALSE
        /\ pendingUpdates' = pendingUpdates /\ lastOffsetCache' = Running.off
    BY <1>5 DEF Succeed
  <2>2. BufferIsPub' /\ BufferHasExecutor'
    BY <1>5, <2>1 DEF QueueInv, BufferIsPub, BufferHasExecutor
  <2>3. QueueType' /\ Queued' \subseteq Queued
    BY <1>1, <1>2, <1>3, <2>1 DEF QueueType, Queued, Stages
  <2>4. QED
    BY <1>1, <1>2, <1>3, <2>1, <2>2, <2>3 DEF QueueInv, Update
<1>6. CASE Running.src # "rpc" /\ pendingUpdates # <<>>
  <2>1. /\ applyUpdatesQueue' = Append(Tail(applyUpdatesQueue), Head(pendingUpdates))
        /\ pendingUpdates' = Tail(pendingUpdates)
        /\ isUpdateProcessing' = isUpdateProcessing /\ lastOffsetCache' = Running.off
    BY <1>6 DEF Succeed
  <2>2. /\ Head(pendingUpdates) \in Update /\ Tail(pendingUpdates) \in Seq(Update)
        /\ Elements(pendingUpdates) = {Head(pendingUpdates)} \cup Elements(pendingUpdates')
    BY <1>1, <1>6, <2>1, TailElements
  <2>3. /\ applyUpdatesQueue' \in Seq(Update)
        /\ Elements(applyUpdatesQueue') =
              Elements(Tail(applyUpdatesQueue)) \cup {Head(pendingUpdates)}
    <3> DEFINE t == Tail(applyUpdatesQueue)
               h == Head(pendingUpdates)
    <3>1. t \in Seq(Update) /\ h \in Update
      BY <1>2, <2>2
    <3> HIDE DEF t, h
    <3>2. Append(t, h) \in Seq(Update) /\ Elements(Append(t, h)) = Elements(t) \cup {h}
      BY <3>1, AppendElements
    <3>3. QED
      BY <2>1, <3>2 DEF t, h
  <2>4. Head(pendingUpdates).src = "pub"
    BY <2>2 DEF QueueInv, BufferIsPub
  <2>5. ExecutorWaits'
    BY <2>3, <2>4, ExecutorFacts
  <2>6. BufferIsPub' /\ BufferHasExecutor'
    BY <2>2, <2>5 DEF QueueInv, BufferIsPub, BufferHasExecutor
  <2>7. QueueType' /\ Queued' \subseteq Queued
    BY <1>1, <1>2, <1>3, <2>1, <2>2, <2>3 DEF QueueType, Queued, Stages
  <2>8. QED
    BY <1>1, <1>2, <1>3, <2>1, <2>6, <2>7 DEF QueueInv, Update
<1>7. QED
  BY <1>4, <1>5, <1>6

LEMMA FailFacts ==
    ASSUME Types, QueueInv, Fail
    PROVE  /\ QueueType' /\ QueueInv' /\ LinkType' /\ rpcs' \subseteq rpcs
           /\ applyUpdatesQueue' = <<>> /\ stage' = "start"
           /\ Queued' \subseteq Queued
           /\ subscribed' => subscribed
<1>1. /\ applyUpdatesQueue' = <<>> /\ stage' = "start"
      /\ UNCHANGED <<subscription, wire, pendingUpdates>>
  BY DEF Fail
<1>2. Elements(applyUpdatesQueue') = {}
  BY <1>1, NoElements
<1>3. CASE ExecutorWaits
  <2>1. /\ isUpdateProcessing' = FALSE /\ link' = "off" /\ subscribed' = FALSE
        /\ timer' = TRUE /\ rpcs' = {}
    BY <1>3 DEF Fail
  <2>2. QueueType' /\ LinkType'
    BY <1>1, <2>1, EmptySeq DEF Types, QueueType, LinkType, Stages
  <2>3. QueueInv'
    BY <1>1, <2>1 DEF QueueInv, TimerIsOff, BufferIsPub, EmptyStarts, BufferHasExecutor
  <2>4. Queued' \subseteq Queued
    BY <1>1, <1>2 DEF Queued
  <2>5. QED
    BY <1>1, <2>1, <2>2, <2>3, <2>4
<1>4. CASE ~ExecutorWaits
  <2>1. UNCHANGED <<isUpdateProcessing, link, subscribed, timer, rpcs>>
    BY <1>4 DEF Fail
  <2>2. QED
    BY <1>1, <1>2, <1>4, <2>1
       DEF Types, QueueType, LinkType, Stages, QueueInv, TimerIsOff, BufferIsPub, EmptyStarts,
           BufferHasExecutor, Queued
<1>5. QED
  BY <1>3, <1>4

LEMMA PublicationFacts ==
    ASSUME Types, QueueInv, Publication
    PROVE  /\ QueueType' /\ QueueInv' /\ KeepsHead
           /\ Queued' \subseteq Queued \cup {[src |-> "pub", off |-> wire, ep |-> epoch]}
<1> DEFINE u == [src |-> "pub", off |-> wire, ep |-> epoch]
           queue == Append(pendingUpdates, u)
<1>1. u \in Update /\ u.src = "pub"
  <2>1. wire <= head /\ wire \in 0..(MaxHead + 1) /\ head \in 0..MaxHead /\ epoch \in Epoch
    BY DEF Publication, Types, LinkType, ServerType, Offset
  <2>2. wire \in Offset
    BY <2>1, BoundAssumption DEF Offset
  <2>3. QED
    BY <2>1, <2>2 DEF Update
<1>2. pendingUpdates \in Seq(Update) /\ applyUpdatesQueue \in Seq(Update)
  BY DEF Types, QueueType
<1> HIDE DEF u
<1>3. /\ queue \in Seq(Update) /\ queue # <<>>
      /\ Elements(queue) = Elements(pendingUpdates) \cup {u}
  BY <1>1, <1>2, AppendElements
<1>4. /\ Head(queue) \in Update /\ Tail(queue) \in Seq(Update)
      /\ Elements(queue) = {Head(queue)} \cup Elements(Tail(queue))
  BY <1>3, TailElements
<1>5. UNCHANGED <<link, timer, stage>>
  BY DEF Publication
<1>6. CASE UNCHANGED <<pendingUpdates, isUpdateProcessing, applyUpdatesQueue>>
  BY <1>5, <1>6
     DEF Types, QueueType, QueueInv, TimerIsOff, BufferIsPub, EmptyStarts, BufferHasExecutor,
         ExecutorWaits, Queued, KeepsHead
<1>7. CASE isUpdateProcessing /\ pendingUpdates' = queue
           /\ UNCHANGED <<isUpdateProcessing, applyUpdatesQueue>>
  <2>1. BufferIsPub'
    BY <1>1, <1>3, <1>7 DEF QueueInv, BufferIsPub
  <2>2. BufferHasExecutor'
    BY <1>5, <1>7 DEF QueueInv, BufferHasExecutor, ExecutorWaits
  <2>3. QueueType'
    BY <1>3, <1>5, <1>7 DEF Types, QueueType
  <2>4. Queued' \subseteq Queued \cup {u} /\ KeepsHead
    BY <1>3, <1>7 DEF Queued, KeepsHead
  <2>5. TimerIsOff' /\ EmptyStarts'
    BY <1>5, <1>7 DEF QueueInv, TimerIsOff, EmptyStarts
  <2>6. QED
    BY <2>1, <2>2, <2>3, <2>4, <2>5 DEF QueueInv, u
<1>8. CASE pendingUpdates' = Tail(queue) /\ isUpdateProcessing' = TRUE
           /\ applyUpdatesQueue' = Append(applyUpdatesQueue, Head(queue))
  <2>1. \A x \in Elements(queue) : x.src = "pub"
    BY <1>1, <1>3 DEF QueueInv, BufferIsPub
  <2>2. /\ applyUpdatesQueue' \in Seq(Update) /\ applyUpdatesQueue' # <<>>
        /\ Elements(applyUpdatesQueue') = Elements(applyUpdatesQueue) \cup {Head(queue)}
        /\ KeepsHead
    BY <1>2, <1>4, <1>8, AppendElements DEF KeepsHead
  <2>3. ExecutorWaits' /\ BufferIsPub'
    BY <1>4, <1>8, <2>1, <2>2, ExecutorFacts DEF BufferIsPub
  <2>4. QueueType'
    BY <1>4, <1>5, <1>8, <2>2 DEF Types, QueueType
  <2>5. Queued' \subseteq Queued \cup {u}
    BY <1>3, <1>4, <1>8, <2>2 DEF Queued
  <2>6. TimerIsOff' /\ EmptyStarts'
    BY <1>5, <2>2 DEF QueueInv, TimerIsOff, EmptyStarts
  <2>7. QED
    BY <2>2, <2>3, <2>4, <2>5, <2>6 DEF QueueInv, BufferHasExecutor, u
<1>9. QED
  BY <1>6, <1>7, <1>8 DEF Publication, u

LEMMA ResponseFacts ==
    ASSUME Types, QueueInv, NEW off \in rpcs, RpcResponse(off)
    PROVE  /\ QueueType' /\ QueueInv' /\ KeepsHead
           /\ Queued' \subseteq Queued \cup {[src |-> "rpc", off |-> off, ep |-> epoch]}
<1> DEFINE u == [src |-> "rpc", off |-> off, ep |-> epoch]
<1>1. u \in Update /\ applyUpdatesQueue \in Seq(Update)
  BY DEF Types, ServerType, QueueType, Update
<1>2. applyUpdatesQueue' = Append(applyUpdatesQueue, u)
      /\ UNCHANGED <<pendingUpdates, isUpdateProcessing, stage, link, timer>>
  BY DEF RpcResponse, linkVars
<1> HIDE DEF u
<1>3. /\ applyUpdatesQueue' \in Seq(Update) /\ applyUpdatesQueue' # <<>> /\ KeepsHead
      /\ Elements(applyUpdatesQueue') = Elements(applyUpdatesQueue) \cup {u}
  BY <1>1, <1>2, AppendElements DEF KeepsHead
<1>4. ExecutorWaits => ExecutorWaits'
  BY <1>3, ExecutorFacts
<1>5. TimerIsOff' /\ BufferIsPub' /\ EmptyStarts' /\ BufferHasExecutor'
  BY <1>2, <1>3, <1>4 DEF QueueInv, TimerIsOff, BufferIsPub, EmptyStarts, BufferHasExecutor
<1>6. QueueType' /\ Queued' \subseteq Queued \cup {u}
  BY <1>2, <1>3 DEF Types, QueueType, Queued
<1>7. QED
  BY <1>3, <1>5, <1>6 DEF QueueInv, u

-----------------------------------------------------------------------------
(* Every step. *)

\* The connection, the timer and the queues, when they stay as they are.
LEMMA QueueSame ==
    ASSUME Types, QueueInv, UNCHANGED queueVars, UNCHANGED <<link, timer>>
    PROVE  QueueType' /\ QueueInv'
BY DEF Types, QueueType, queueVars, QueueInv, TimerIsOff, BufferIsPub, EmptyStarts,
       BufferHasExecutor, ExecutorWaits

LEMMA GapSame ==
    ASSUME Types, GapInv, UNCHANGED gapVars, pos' = None => pos = None
    PROVE  GapType' /\ GapInv'
BY DEF Types, GapType, gapVars, GapInv, LoopsShaped, LoopsHavePos, TaskHasLoop, RunningLoops

\* The queues and the timer, in every step.
LEMMA QueueStep ==
    ASSUME Types, QueueInv, [Next]_vars
    PROVE  QueueType' /\ QueueInv'
<1>1. ASSUME Publish PROVE QueueType' /\ QueueInv'
  <2>1. UNCHANGED queueVars /\ UNCHANGED <<link, timer>>
    BY <1>1 DEF Publish, OtherThanGaps, linkVars
  <2>2. QED
    BY <2>1, QueueSame
<1>2. ASSUME Rpc PROVE QueueType' /\ QueueInv'
  <2>1. UNCHANGED queueVars /\ UNCHANGED <<link, timer>>
    BY <1>2 DEF Rpc, OtherThanGaps, linkVars
  <2>2. QED
    BY <2>1, QueueSame
<1>3. ASSUME Drop PROVE QueueType' /\ QueueInv'
  <2>1. UNCHANGED queueVars /\ timer' = timer /\ (link' = link \/ link # "off")
    BY <1>3 DEF Drop
  <2>2. QED
    BY <2>1
       DEF Types, QueueType, queueVars, QueueInv, TimerIsOff, BufferIsPub, EmptyStarts,
           BufferHasExecutor, ExecutorWaits
<1>4. ASSUME NewEpoch PROVE QueueType' /\ QueueInv'
  <2>1. UNCHANGED queueVars /\ timer' = timer /\ (link' = link \/ link # "off")
    BY <1>4 DEF NewEpoch
  <2>2. QED
    BY <2>1
       DEF Types, QueueType, queueVars, QueueInv, TimerIsOff, BufferIsPub, EmptyStarts,
           BufferHasExecutor, ExecutorWaits
<1>5. ASSUME Reject PROVE QueueType' /\ QueueInv'
  <2>1. UNCHANGED queueVars /\ timer' = TRUE /\ link' = "off"
    BY <1>5 DEF Reject
  <2>2. QED
    BY <2>1
       DEF Types, QueueType, queueVars, QueueInv, TimerIsOff, BufferIsPub, EmptyStarts,
           BufferHasExecutor, ExecutorWaits
<1>6. ASSUME Restart PROVE QueueType' /\ QueueInv'
  <2>1. /\ pendingUpdates' = <<>> /\ applyUpdatesQueue' = <<>> /\ stage' = "start"
        /\ isUpdateProcessing' = FALSE /\ timer' = FALSE
    BY <1>6 DEF Restart
  <2>2. QED
    BY <2>1, NoElements, EmptySeq
       DEF QueueType, Stages, QueueInv, TimerIsOff, BufferIsPub, EmptyStarts, BufferHasExecutor
<1>7. ASSUME NEW l \in Loops, FetchHistory(l) PROVE QueueType' /\ QueueInv'
  <2>1. UNCHANGED queueVars /\ UNCHANGED <<link, timer>>
    BY <1>7 DEF FetchHistory, OtherThanGaps, linkVars
  <2>2. QED
    BY <2>1, QueueSame
<1>8. ASSUME NEW l \in Loops, HistoryFails(l) PROVE QueueType' /\ QueueInv'
  <2>1. UNCHANGED queueVars /\ UNCHANGED <<link, timer>>
    BY <1>8 DEF HistoryFails, OtherThanGaps, linkVars
  <2>2. QED
    BY <2>1, QueueSame
<1>9. ASSUME NEW l \in Loops, FlushUpdates(l) PROVE QueueType' /\ QueueInv'
  <2>1. UNCHANGED queueVars /\ UNCHANGED <<link, timer>>
    BY <1>9 DEF FlushUpdates, OtherThanGaps, linkVars
  <2>2. QED
    BY <2>1, QueueSame
<1>10. ASSUME NEW l \in Loops, FlushAdvances(l) PROVE QueueType' /\ QueueInv'
  <2>1. UNCHANGED queueVars /\ UNCHANGED <<link, timer>>
    BY <1>10 DEF FlushAdvances, OtherThanGaps, linkVars
  <2>2. QED
    BY <2>1, QueueSame
<1>11. ASSUME NEW l \in Loops, FlushSettles(l) PROVE QueueType' /\ QueueInv'
  <2>1. UNCHANGED queueVars /\ UNCHANGED <<link, timer>>
    BY <1>11 DEF FlushSettles, OtherThanGaps, linkVars
  <2>2. QED
    BY <2>1, QueueSame
<1>12. ASSUME NEW l \in Loops, FlushFails(l) PROVE QueueType' /\ QueueInv'
  <2>1. UNCHANGED queueVars /\ UNCHANGED <<link, timer>>
    BY <1>12 DEF FlushFails, OtherThanGaps, linkVars
  <2>2. QED
    BY <2>1, QueueSame
<1>13. ASSUME Publication PROVE QueueType' /\ QueueInv'
  BY <1>13, PublicationFacts
<1>14. ASSUME NEW off \in rpcs, RpcResponse(off) PROVE QueueType' /\ QueueInv'
  BY <1>14, ResponseFacts
<1>15. ASSUME SkipDuplicate PROVE QueueType' /\ QueueInv'
  <2>1. applyUpdatesQueue # <<>> /\ Succeed /\ UNCHANGED <<link, timer>>
    BY <1>15 DEF SkipDuplicate, Runs, OtherThanQueue, linkVars
  <2>2. QED
    BY <2>1, SucceedFacts
<1>16. ASSUME DetectGap PROVE QueueType' /\ QueueInv'
  <2>1. /\ UNCHANGED <<pendingUpdates, isUpdateProcessing, applyUpdatesQueue, link, timer>>
        /\ stage' \in Stages /\ applyUpdatesQueue # <<>>
    BY <1>16 DEF DetectGap, Runs, linkVars, Stages
  <2>2. QED
    BY <2>1
       DEF Types, QueueType, QueueInv, TimerIsOff, BufferIsPub, EmptyStarts, BufferHasExecutor,
           ExecutorWaits
<1>17. ASSUME AcceptUpdate PROVE QueueType' /\ QueueInv'
  <2>1. /\ UNCHANGED <<pendingUpdates, isUpdateProcessing, applyUpdatesQueue, link, timer>>
        /\ stage' \in Stages /\ applyUpdatesQueue # <<>>
    BY <1>17 DEF AcceptUpdate, Runs, linkVars, Stages
  <2>2. QED
    BY <2>1
       DEF Types, QueueType, QueueInv, TimerIsOff, BufferIsPub, EmptyStarts, BufferHasExecutor,
           ExecutorWaits
<1>18. ASSUME GapFilled PROVE QueueType' /\ QueueInv'
  <2>1. /\ UNCHANGED <<pendingUpdates, isUpdateProcessing, applyUpdatesQueue, link, timer>>
        /\ stage' \in Stages /\ applyUpdatesQueue # <<>>
    BY <1>18 DEF GapFilled, Runs, linkVars, Stages
  <2>2. QED
    BY <2>1
       DEF Types, QueueType, QueueInv, TimerIsOff, BufferIsPub, EmptyStarts, BufferHasExecutor,
           ExecutorWaits
<1>19. ASSUME WaitFails PROVE QueueType' /\ QueueInv'
  BY <1>19, FailFacts DEF WaitFails
<1>20. ASSUME ApplyUpdate PROVE QueueType' /\ QueueInv'
  <2>1. /\ UNCHANGED <<pendingUpdates, isUpdateProcessing, applyUpdatesQueue, link, timer>>
        /\ stage' \in Stages /\ applyUpdatesQueue # <<>>
    BY <1>20 DEF ApplyUpdate, Runs, linkVars, Stages
  <2>2. QED
    BY <2>1
       DEF Types, QueueType, QueueInv, TimerIsOff, BufferIsPub, EmptyStarts, BufferHasExecutor,
           ExecutorWaits
<1>21. ASSUME AdvancePosition PROVE QueueType' /\ QueueInv'
  <2>1. applyUpdatesQueue # <<>> /\ Succeed /\ UNCHANGED <<link, timer>>
    BY <1>21 DEF AdvancePosition, Runs, OtherThanQueue, linkVars
  <2>2. QED
    BY <2>1, SucceedFacts
<1>22. ASSUME UpdateFails PROVE QueueType' /\ QueueInv'
  BY <1>22, FailFacts DEF UpdateFails
<1>23. ASSUME Connected PROVE QueueType' /\ QueueInv'
  <2>1. UNCHANGED queueVars /\ timer' = timer /\ (link' = link \/ link # "off")
    BY <1>23 DEF Connected
  <2>2. QED
    BY <2>1
       DEF Types, QueueType, queueVars, QueueInv, TimerIsOff, BufferIsPub, EmptyStarts,
           BufferHasExecutor, ExecutorWaits
<1>24. ASSUME SubscribedEvent PROVE QueueType' /\ QueueInv'
  <2>1. UNCHANGED queueVars /\ UNCHANGED <<link, timer>>
    BY <1>24 DEF SubscribedEvent, OtherThanGaps, linkVars
  <2>2. QED
    BY <2>1, QueueSame
<1>25. ASSUME SubscribedHandler PROVE QueueType' /\ QueueInv'
  <2>1. UNCHANGED queueVars /\ UNCHANGED <<link, timer>>
    BY <1>25 DEF SubscribedHandler, OtherThanGaps, linkVars
  <2>2. QED
    BY <2>1, QueueSame
<1>26. ASSUME Reconnect PROVE QueueType' /\ QueueInv'
  <2>1. CASE link # "off"
    BY <1>26, <2>1 DEF QueueInv, TimerIsOff, Reconnect
  <2>2. CASE link = "off"
    <3>1. /\ pendingUpdates' = <<>> /\ isUpdateProcessing' = FALSE
          /\ \/ applyUpdatesQueue' = <<>> /\ stage' = "start"
             \/ applyUpdatesQueue' = applyUpdatesQueue /\ stage' = stage
          /\ timer' => link' = "off"
      BY <1>26, <2>2 DEF Reconnect
    <3>2. QED
      BY <3>1, NoElements, EmptySeq
         DEF Types, QueueType, Stages, QueueInv, TimerIsOff, BufferIsPub, EmptyStarts,
             BufferHasExecutor
  <2>3. QED
    BY <2>1, <2>2
<1>27. CASE UNCHANGED vars
  <2>1. UNCHANGED queueVars /\ UNCHANGED <<link, timer>>
    BY <1>27 DEF vars, linkVars
  <2>2. QED
    BY <2>1, QueueSame
<1>28. QED
  BY <1>1, <1>2, <1>3, <1>4, <1>5, <1>6, <1>7, <1>8, <1>9, <1>10, <1>11, <1>12, <1>13, <1>14, <1>15, <1>16, <1>17, <1>18, <1>19, <1>20, <1>21, <1>22, <1>23, <1>24, <1>25, <1>26, <1>27
  DEF Next, GapFill, Chain

\* What is written as a position is one.
LEMMA AdvanceFacts ==
    ASSUME Types, AdvancePosition
    PROVE  pos' \in Position /\ Running \in Update
<1>1. applyUpdatesQueue # <<>> /\ applyUpdatesQueue \in Seq(Update) /\ epochCache \in Epoch
  BY DEF AdvancePosition, Runs, Types, QueueType, CacheType
<1>2. Running \in Update
  BY <1>1, TailElements DEF Running
<1>3. QED
  BY <1>1, <1>2 DEF AdvancePosition, Position, Update

\* The handler of 'subscribed' leaves a position, and a target within bounds.
LEMMA HandlerFacts ==
    ASSUME Types, HandlerHasPos, SubscribedHandler
    PROVE  /\ handler # None /\ handler.ep \in Epoch /\ handler.off \in Offset
           /\ handler.read \in Position \cup {None}
           /\ LocalOffset(handler) \in Offset
           /\ FillTarget(handler.off) \in 0..(MaxHead + 1)
           /\ pos' \in Position
           /\ pos' = pos \/ pos' = [off |-> LocalOffset(handler), ep |-> handler.ep]
<1>1. /\ handler # None /\ handler.ep \in Epoch /\ handler.off \in Offset
      /\ handler.read \in Position \cup {None}
  BY DEF SubscribedHandler, Types, CacheType
<1>2. LocalOffset(handler) \in Offset
  BY <1>1, BoundAssumption DEF LocalOffset, Position, Offset
<1>3. FillTarget(handler.off) \in 0..(MaxHead + 1)
  BY <1>1, BoundAssumption DEF FillTarget, Offset
<1>4. CASE handler.read = None \/ handler.read.ep # handler.ep
  <2>1. pos' = [off |-> LocalOffset(handler), ep |-> handler.ep]
    BY <1>4 DEF SubscribedHandler
  <2>2. QED
    BY <1>1, <1>2, <1>3, <2>1 DEF Position
<1>5. CASE ~(handler.read = None \/ handler.read.ep # handler.ep)
  <2>1. pos' = pos
    BY <1>5 DEF SubscribedHandler
  <2>2. pos \in Position
    BY <1>1, <1>5 DEF Types, StoreType, HandlerHasPos
  <2>3. QED
    BY <1>1, <1>2, <1>3, <2>1, <2>2
<1>6. QED
  BY <1>4, <1>5

\* A position that was there stays there, and who has read one will find one.
LEMMA PosIsKept ==
    ASSUME Types, HandlerHasPos, [Next]_vars
    PROVE  (pos' = None => pos = None) /\ HandlerHasPos'
<1>1. ASSUME Publish PROVE (pos' = None => pos = None) /\ HandlerHasPos'
  <2>1. pos' = pos /\ (handler' = handler \/ handler' = None)
    BY <1>1 DEF Publish, storeVars, cacheVars, OtherThanQueue, OtherThanGaps
  <2>2. QED
    BY <2>1 DEF HandlerHasPos
<1>2. ASSUME Rpc PROVE (pos' = None => pos = None) /\ HandlerHasPos'
  <2>1. pos' = pos /\ (handler' = handler \/ handler' = None)
    BY <1>2 DEF Rpc, storeVars, cacheVars, OtherThanQueue, OtherThanGaps
  <2>2. QED
    BY <2>1 DEF HandlerHasPos
<1>3. ASSUME Drop PROVE (pos' = None => pos = None) /\ HandlerHasPos'
  <2>1. pos' = pos /\ (handler' = handler \/ handler' = None)
    BY <1>3 DEF Drop, storeVars, cacheVars, OtherThanQueue, OtherThanGaps
  <2>2. QED
    BY <2>1 DEF HandlerHasPos
<1>4. ASSUME NewEpoch PROVE (pos' = None => pos = None) /\ HandlerHasPos'
  <2>1. pos' = pos /\ (handler' = handler \/ handler' = None)
    BY <1>4 DEF NewEpoch, storeVars, cacheVars, OtherThanQueue, OtherThanGaps
  <2>2. QED
    BY <2>1 DEF HandlerHasPos
<1>5. ASSUME Reject PROVE (pos' = None => pos = None) /\ HandlerHasPos'
  <2>1. pos' = pos /\ (handler' = handler \/ handler' = None)
    BY <1>5 DEF Reject, storeVars, cacheVars, OtherThanQueue, OtherThanGaps
  <2>2. QED
    BY <2>1 DEF HandlerHasPos
<1>6. ASSUME Restart PROVE (pos' = None => pos = None) /\ HandlerHasPos'
  <2>1. pos' = pos /\ (handler' = handler \/ handler' = None)
    BY <1>6 DEF Restart, storeVars, cacheVars, OtherThanQueue, OtherThanGaps
  <2>2. QED
    BY <2>1 DEF HandlerHasPos
<1>7. ASSUME NEW l \in Loops, FetchHistory(l) PROVE (pos' = None => pos = None) /\ HandlerHasPos'
  <2>1. pos' = pos /\ (handler' = handler \/ handler' = None)
    BY <1>7 DEF FetchHistory, storeVars, cacheVars, OtherThanQueue, OtherThanGaps
  <2>2. QED
    BY <2>1 DEF HandlerHasPos
<1>8. ASSUME NEW l \in Loops, HistoryFails(l) PROVE (pos' = None => pos = None) /\ HandlerHasPos'
  <2>1. pos' = pos /\ (handler' = handler \/ handler' = None)
    BY <1>8 DEF HistoryFails, storeVars, cacheVars, OtherThanQueue, OtherThanGaps
  <2>2. QED
    BY <2>1 DEF HandlerHasPos
<1>9. ASSUME NEW l \in Loops, FlushUpdates(l) PROVE (pos' = None => pos = None) /\ HandlerHasPos'
  <2>1. pos' = pos /\ (handler' = handler \/ handler' = None)
    BY <1>9 DEF FlushUpdates, storeVars, cacheVars, OtherThanQueue, OtherThanGaps
  <2>2. QED
    BY <2>1 DEF HandlerHasPos
<1>10. ASSUME NEW l \in Loops, FlushAdvances(l) PROVE (pos' = None => pos = None) /\ HandlerHasPos'
  <2>1. loops[l] \in Loop /\ pos' = [off |-> loops[l].cur, ep |-> loops[l].ep]
    BY <1>10 DEF FlushAdvances, Types, GapType
  <2>2. pos' \in Position
    BY <2>1 DEF Loop, Position
  <2>3. QED
    BY <2>2, NoneAssumption DEF HandlerHasPos
<1>11. ASSUME NEW l \in Loops, FlushSettles(l) PROVE (pos' = None => pos = None) /\ HandlerHasPos'
  <2>1. pos' = pos /\ (handler' = handler \/ handler' = None)
    BY <1>11 DEF FlushSettles, storeVars, cacheVars, OtherThanQueue, OtherThanGaps
  <2>2. QED
    BY <2>1 DEF HandlerHasPos
<1>12. ASSUME NEW l \in Loops, FlushFails(l) PROVE (pos' = None => pos = None) /\ HandlerHasPos'
  <2>1. pos' = pos /\ (handler' = handler \/ handler' = None)
    BY <1>12 DEF FlushFails, storeVars, cacheVars, OtherThanQueue, OtherThanGaps
  <2>2. QED
    BY <2>1 DEF HandlerHasPos
<1>13. ASSUME Publication PROVE (pos' = None => pos = None) /\ HandlerHasPos'
  <2>1. pos' = pos /\ (handler' = handler \/ handler' = None)
    BY <1>13 DEF Publication, storeVars, cacheVars, OtherThanQueue, OtherThanGaps
  <2>2. QED
    BY <2>1 DEF HandlerHasPos
<1>14. ASSUME NEW off \in rpcs, RpcResponse(off) PROVE (pos' = None => pos = None) /\ HandlerHasPos'
  <2>1. pos' = pos /\ (handler' = handler \/ handler' = None)
    BY <1>14 DEF RpcResponse, storeVars, cacheVars, OtherThanQueue, OtherThanGaps
  <2>2. QED
    BY <2>1 DEF HandlerHasPos
<1>15. ASSUME SkipDuplicate PROVE (pos' = None => pos = None) /\ HandlerHasPos'
  <2>1. pos' = pos /\ (handler' = handler \/ handler' = None)
    BY <1>15 DEF SkipDuplicate, storeVars, cacheVars, OtherThanQueue, OtherThanGaps
  <2>2. QED
    BY <2>1 DEF HandlerHasPos
<1>16. ASSUME DetectGap PROVE (pos' = None => pos = None) /\ HandlerHasPos'
  <2>1. pos' = pos /\ (handler' = handler \/ handler' = None)
    BY <1>16 DEF DetectGap, storeVars, cacheVars, OtherThanQueue, OtherThanGaps
  <2>2. QED
    BY <2>1 DEF HandlerHasPos
<1>17. ASSUME AcceptUpdate PROVE (pos' = None => pos = None) /\ HandlerHasPos'
  <2>1. pos' = pos /\ (handler' = handler \/ handler' = None)
    BY <1>17 DEF AcceptUpdate, storeVars, cacheVars, OtherThanQueue, OtherThanGaps
  <2>2. QED
    BY <2>1 DEF HandlerHasPos
<1>18. ASSUME GapFilled PROVE (pos' = None => pos = None) /\ HandlerHasPos'
  <2>1. pos' = pos /\ (handler' = handler \/ handler' = None)
    BY <1>18 DEF GapFilled, storeVars, cacheVars, OtherThanQueue, OtherThanGaps
  <2>2. QED
    BY <2>1 DEF HandlerHasPos
<1>19. ASSUME WaitFails PROVE (pos' = None => pos = None) /\ HandlerHasPos'
  <2>1. pos' = pos /\ (handler' = handler \/ handler' = None)
    BY <1>19 DEF Fail, WaitFails, storeVars, cacheVars, OtherThanQueue, OtherThanGaps
  <2>2. QED
    BY <2>1 DEF HandlerHasPos
<1>20. ASSUME ApplyUpdate PROVE (pos' = None => pos = None) /\ HandlerHasPos'
  <2>1. pos' = pos /\ (handler' = handler \/ handler' = None)
    BY <1>20 DEF ApplyUpdate, storeVars, cacheVars, OtherThanQueue, OtherThanGaps
  <2>2. QED
    BY <2>1 DEF HandlerHasPos
<1>21. ASSUME AdvancePosition PROVE (pos' = None => pos = None) /\ HandlerHasPos'
  BY <1>21, AdvanceFacts, NoneAssumption DEF HandlerHasPos
<1>22. ASSUME UpdateFails PROVE (pos' = None => pos = None) /\ HandlerHasPos'
  <2>1. pos' = pos /\ (handler' = handler \/ handler' = None)
    BY <1>22 DEF Fail, UpdateFails, storeVars, cacheVars, OtherThanQueue, OtherThanGaps
  <2>2. QED
    BY <2>1 DEF HandlerHasPos
<1>23. ASSUME Connected PROVE (pos' = None => pos = None) /\ HandlerHasPos'
  <2>1. pos' = pos /\ (handler' = handler \/ handler' = None)
    BY <1>23 DEF Connected, storeVars, cacheVars, OtherThanQueue, OtherThanGaps
  <2>2. QED
    BY <2>1 DEF HandlerHasPos
<1>24. ASSUME SubscribedEvent PROVE (pos' = None => pos = None) /\ HandlerHasPos'
  <2>1. pos' = pos /\ handler' = [off |-> head, ep |-> epoch, read |-> pos]
    BY <1>24 DEF SubscribedEvent, storeVars
  <2>2. QED
    BY <2>1 DEF HandlerHasPos
<1>25. ASSUME SubscribedHandler PROVE (pos' = None => pos = None) /\ HandlerHasPos'
  BY <1>25, HandlerFacts, NoneAssumption DEF HandlerHasPos
<1>26. ASSUME Reconnect PROVE (pos' = None => pos = None) /\ HandlerHasPos'
  <2>1. pos' = pos /\ (handler' = handler \/ handler' = None)
    BY <1>26 DEF Reconnect, storeVars, cacheVars, OtherThanQueue, OtherThanGaps
  <2>2. QED
    BY <2>1 DEF HandlerHasPos
<1>27. CASE UNCHANGED vars
  <2>1. pos' = pos /\ (handler' = handler \/ handler' = None)
    BY <1>27 DEF vars, storeVars, cacheVars, OtherThanQueue, OtherThanGaps
  <2>2. QED
    BY <2>1 DEF HandlerHasPos
<1>28. QED
  BY <1>1, <1>2, <1>3, <1>4, <1>5, <1>6, <1>7, <1>8, <1>9, <1>10, <1>11, <1>12, <1>13, <1>14, <1>15, <1>16, <1>17, <1>18, <1>19, <1>20, <1>21, <1>22, <1>23, <1>24, <1>25, <1>26, <1>27
  DEF Next, GapFill, Chain

\* A loop that goes on.
LEMMA FetchFacts ==
    ASSUME Types, GapInv, NEW l \in Loops, FetchHistory(l)
    PROVE  /\ GapType' /\ LoopsShaped' /\ TaskHasLoop'
           /\ loops[l].pc = "fetch"
           /\ \A k \in Loops : k # l => loops'[k] = loops[k]
           /\ loops'[l].pc \in {"fetch", "flush"} /\ loops'[l].start = loops[l].start
           /\ loops'[l].cur <= head /\ loops'[l].from = epoch
<1> DEFINE o == loops[l]
           limit == Smaller(BatchSize, o.target - o.cur - 1)
           cur == Smaller(head, o.cur + limit)
           updates == ((o.start + 1)..cur) \ GapOffsets
           enough == \/ Cardinality(updates) >= AccumulateThreshold
                     \/ cur >= o.target - 1
                     \/ cur < o.cur + limit
           pc == IF enough /\ cur > o.start THEN "flush" ELSE "fetch"
           new == [o EXCEPT !.cur = cur, !.from = epoch, !.pc = pc]
<1>1. /\ o \in Loop /\ o.pc = "fetch" /\ o.cur <= head /\ o.start <= o.cur
      /\ o.cur < o.target - 1 /\ epoch \in Epoch
      /\ UNCHANGED <<gapFillTask, isGapFillProcessing>>
  BY DEF FetchHistory, HistoryAnswers, Types, GapType, ServerType, GapInv, LoopsShaped, Shaped
<1>2. /\ o.cur \in Nat /\ o.start \in Offset /\ o.target \in Nat /\ head \in Offset
      /\ o.ep \in Epoch
  BY <1>1, BoundAssumption DEF Loop, Offset, Types, ServerType
<1>3. cur \in Offset /\ o.cur <= cur /\ cur <= head
  BY <1>1, <1>2, BoundAssumption DEF Smaller, Offset
<1>4. pc \in {"fetch", "flush"} /\ (pc = "flush" => o.start < cur)
      /\ (pc = "fetch" => cur < o.target - 1)
  <2>1. cur >= o.target - 1 => enough
    OBVIOUS
  <2>2. CASE enough /\ cur > o.start
    BY <2>2
  <2>3. CASE ~enough
    <3>1. ~(cur >= o.target - 1) /\ pc = "fetch"
      BY <2>1, <2>3
    <3> HIDE DEF pc
    <3>2. QED
      BY <1>2, <1>3, <3>1 DEF Offset
  <2>4. CASE ~(cur > o.start)
    <3>1. cur = o.cur /\ pc = "fetch"
      BY <1>1, <1>2, <1>3, <2>4 DEF Offset
    <3> HIDE DEF pc, cur
    <3>2. QED
      BY <1>1, <3>1
  <2>5. QED
    BY <2>2, <2>3, <2>4
<1>5. loops' = [loops EXCEPT ![l] = new]
  <2>1. loops' = [loops EXCEPT ![l].cur = cur, ![l].from = epoch, ![l].pc = pc]
    BY DEF FetchHistory
  <2> HIDE DEF cur, pc
  <2>2. QED
    BY <2>1 DEF Types, GapType
<1> HIDE DEF cur, pc
<1>6. /\ new \in Loop /\ new.pc = pc /\ new.start = o.start /\ new.cur = cur
      /\ new.from = epoch /\ new.target = o.target
  BY <1>1, <1>3, <1>4 DEF Loop
<1>7. Shaped(new)
  BY <1>1, <1>2, <1>3, <1>4, <1>6 DEF Shaped, Offset
<1> HIDE DEF new
<1>8. new.pc # "idle"
  BY <1>4, <1>6
<1>9. /\ GapType' /\ LoopsShaped' /\ TaskHasLoop'
      /\ loops'[l] = new /\ \A k \in Loops : k # l => loops'[k] = loops[k]
  BY <1>1, <1>5, <1>6, <1>7, <1>8, LoopFacts DEF GapInv
<1>10. QED
  BY <1>1, <1>3, <1>4, <1>6, <1>9

\* A loop writes what it has, or goes from one write to the next.
LEMMA WriteFacts ==
    ASSUME Types, GapInv, NEW l \in Loops, NEW pc \in {"flush", "advance", "settle"},
           NEW err \in BOOLEAN, loops[l].pc # "idle", loops[l].start < loops[l].cur,
           loops' = [loops EXCEPT ![l] = [loops[l] EXCEPT !.err = err, !.pc = pc]],
           UNCHANGED <<gapFillTask, isGapFillProcessing>>
    PROVE  /\ GapType' /\ LoopsShaped' /\ TaskHasLoop'
           /\ \A k \in Loops : k # l => loops'[k] = loops[k]
           /\ loops'[l].pc = pc /\ loops'[l].start = loops[l].start
           /\ loops'[l].cur = loops[l].cur /\ loops'[l].from = loops[l].from
<1> DEFINE new == [loops[l] EXCEPT !.err = err, !.pc = pc]
<1>1. loops[l] \in Loop
  BY DEF Types, GapType
<1>2. /\ new \in Loop /\ new.pc = pc /\ new.start = loops[l].start /\ new.cur = loops[l].cur
      /\ new.from = loops[l].from
  BY <1>1 DEF Loop
<1>3. Shaped(new)
  BY <1>1, <1>2, BoundAssumption DEF Shaped, Loop, Offset
<1> HIDE DEF new
<1>4. new.pc # "idle" /\ loops' = [loops EXCEPT ![l] = new]
  BY <1>2 DEF new
<1>5. QED
  BY <1>2, <1>3, <1>4, LoopFacts DEF GapInv

\* FlushUpdates and FlushAdvances go on to the next write.
LEMMA GoToFacts ==
    ASSUME Types, GapInv, NEW l \in Loops, loops[l].pc \in {"flush", "advance"},
           NEW pc \in {"advance", "settle"}, GoTo(l, pc)
    PROVE  /\ GapType' /\ LoopsShaped' /\ TaskHasLoop'
           /\ \A k \in Loops : k # l => loops'[k] = loops[k]
           /\ loops'[l].pc = pc /\ loops'[l].start = loops[l].start
           /\ loops'[l].cur = loops[l].cur /\ loops'[l].from = loops[l].from
<1>1. loops[l] \in Loop /\ loops[l].start < loops[l].cur /\ loops[l].err \in BOOLEAN
  BY DEF Types, GapType, GapInv, LoopsShaped, Shaped, Loop
<1>2. loops' = [loops EXCEPT ![l] = [loops[l] EXCEPT !.err = loops[l].err, !.pc = pc]]
  BY <1>1 DEF GoTo, Types, GapType, Loop
<1>3. UNCHANGED <<gapFillTask, isGapFillProcessing>>
  BY DEF GoTo
<1>4. QED
  BY <1>1, <1>2, <1>3, WriteFacts

\* After an error the loop ends, or writes once more.
LEMMA ErrorFacts ==
    ASSUME Types, GapInv, NEW l \in Loops, HistoryFails(l) \/ FlushFails(l)
    PROVE  /\ GapType' /\ LoopsShaped' /\ TaskHasLoop' /\ loops[l].pc # "idle" /\ pos # None
           /\ \/ RunEnds(l)
              \/ /\ \A k \in Loops : k # l => loops'[k] = loops[k]
                 /\ loops'[l].pc = "flush" /\ loops'[l].start = loops[l].start
                 /\ loops'[l].cur = loops[l].cur /\ loops'[l].from = loops[l].from
<1>1. loops[l].pc \in {"fetch", "flush", "advance"} /\ pos # None
  BY DEF HistoryFails, FlushFails, GapInv, LoopsHavePos
<1>2. CASE RunEnds(l)
  BY <1>1, <1>2, RunEndsFacts DEF GapInv
<1>3. CASE ~RunEnds(l)
  <2>1. /\ loops' = [loops EXCEPT ![l].err = TRUE, ![l].pc = "flush"]
        /\ UNCHANGED <<gapFillTask, isGapFillProcessing>>
    BY <1>3 DEF HistoryFails, FlushFails
  <2>2. loops[l].start < loops[l].cur
    BY <1>3, BoundAssumption
       DEF HistoryFails, FlushFails, GapInv, LoopsShaped, Shaped, Types, GapType, Loop, Offset
  <2>3. loops' = [loops EXCEPT ![l] = [loops[l] EXCEPT !.err = TRUE, !.pc = "flush"]]
    BY <2>1 DEF Types, GapType, Loop
  <2>4. QED
    BY <1>1, <2>1, <2>2, <2>3, WriteFacts
<1>4. QED
  BY <1>2, <1>3

\* After both writes the loop ends, or fetches on from where it has come.
LEMMA SettleFacts ==
    ASSUME Types, GapInv, NEW l \in Loops, FlushSettles(l)
    PROVE  /\ GapType' /\ LoopsShaped' /\ TaskHasLoop' /\ loops[l].pc = "settle" /\ pos # None
           /\ \/ RunEnds(l)
              \/ /\ \A k \in Loops : k # l => loops'[k] = loops[k]
                 /\ loops'[l].pc = "fetch" /\ loops'[l].start = loops[l].cur
                 /\ loops'[l].cur = loops[l].cur
<1>1. loops[l].pc = "settle" /\ pos # None /\ loops[l] \in Loop
  BY DEF FlushSettles, GapInv, LoopsHavePos, Types, GapType
<1>2. CASE RunEnds(l)
  BY <1>1, <1>2, RunEndsFacts DEF GapInv
<1>3. CASE ~RunEnds(l)
  <2> DEFINE new == [loops[l] EXCEPT !.start = loops[l].cur, !.pc = "fetch"]
  <2>1. /\ loops' = [loops EXCEPT ![l].start = loops[l].cur, ![l].pc = "fetch"]
        /\ ~(loops[l].cur >= loops[l].target - 1)
        /\ UNCHANGED <<gapFillTask, isGapFillProcessing>>
    BY <1>3 DEF FlushSettles
  <2>2. loops' = [loops EXCEPT ![l] = new]
    BY <2>1 DEF Types, GapType, Loop
  <2>3. /\ new \in Loop /\ new.pc = "fetch" /\ new.start = loops[l].cur
        /\ new.cur = loops[l].cur /\ new.target = loops[l].target
    BY <1>1 DEF Loop
  <2>4. Shaped(new)
    BY <1>1, <2>1, <2>3, BoundAssumption DEF Shaped, Loop, Offset
  <2> HIDE DEF new
  <2>5. new.pc # "idle"
    BY <2>3
  <2>6. /\ GapType' /\ LoopsShaped' /\ TaskHasLoop'
        /\ loops'[l] = new /\ \A k \in Loops : k # l => loops'[k] = loops[k]
    BY <2>1, <2>2, <2>3, <2>4, <2>5, LoopFacts DEF GapInv
  <2>7. QED
    BY <1>1, <2>3, <2>6
<1>4. QED
  BY <1>2, <1>3

\* A loop that disconnect() leaves behind is otherwise as it was.
LEMMA LeftBehind ==
    ASSUME NEW l \in Loop, NEW m, m = [l EXCEPT !.live = FALSE]
    PROVE  /\ m \in Loop /\ m.pc = l.pc /\ m.start = l.start /\ m.cur = l.cur
           /\ m.target = l.target /\ m.from = l.from
<1>1. m \in Loop
  BY DEF Loop
<1>2. m.pc = l.pc /\ m.start = l.start
  BY DEF Loop
<1>3. m.cur = l.cur /\ m.target = l.target /\ m.from = l.from
  BY DEF Loop
<1>4. QED
  BY <1>1, <1>2, <1>3

\* The gap fills, in every step.
LEMMA GapStep ==
    ASSUME Types, HandlerHasPos, GapInv, [Next]_vars
    PROVE  GapType' /\ GapInv'
<1>0. pos' = None => pos = None
  BY PosIsKept
<1>1. ASSUME Publish PROVE GapType' /\ GapInv'
  <2>1. UNCHANGED gapVars
    BY <1>1 DEF Publish, gapVars
  <2>2. QED
    BY <1>0, <2>1, GapSame
<1>2. ASSUME Rpc PROVE GapType' /\ GapInv'
  <2>1. UNCHANGED gapVars
    BY <1>2 DEF Rpc, gapVars
  <2>2. QED
    BY <1>0, <2>1, GapSame
<1>3. ASSUME Drop PROVE GapType' /\ GapInv'
  <2>1. UNCHANGED gapVars
    BY <1>3 DEF Drop, gapVars
  <2>2. QED
    BY <1>0, <2>1, GapSame
<1>4. ASSUME NewEpoch PROVE GapType' /\ GapInv'
  <2>1. UNCHANGED gapVars
    BY <1>4 DEF NewEpoch, gapVars
  <2>2. QED
    BY <1>0, <2>1, GapSame
<1>5. ASSUME Reject PROVE GapType' /\ GapInv'
  <2>1. UNCHANGED gapVars
    BY <1>5 DEF Reject, gapVars
  <2>2. QED
    BY <1>0, <2>1, GapSame
<1>6. ASSUME Restart PROVE GapType' /\ GapInv'
  <2>1. /\ gapFillTask' = None /\ isGapFillProcessing' = FALSE
        /\ loops' = [l \in Loops |-> IdleLoop]
    BY <1>6 DEF Restart
  <2>2. QED
    BY <2>1, IdleFacts DEF GapType, GapInv, LoopsShaped, LoopsHavePos, TaskHasLoop
<1>7. ASSUME NEW l \in Loops, FetchHistory(l) PROVE GapType' /\ GapInv'
  <2>1. GapType' /\ LoopsShaped' /\ TaskHasLoop' /\ loops[l].pc # "idle"
    BY <1>7, FetchFacts
  <2>2. QED
    BY <1>0, <2>1 DEF GapInv, LoopsHavePos
<1>8. ASSUME NEW l \in Loops, HistoryFails(l) PROVE GapType' /\ GapInv'
  <2>1. GapType' /\ LoopsShaped' /\ TaskHasLoop' /\ loops[l].pc # "idle"
    BY <1>8, ErrorFacts
  <2>2. QED
    BY <1>0, <2>1 DEF GapInv, LoopsHavePos
<1>9. ASSUME NEW l \in Loops, FlushUpdates(l) PROVE GapType' /\ GapInv'
  <2>1. GapType' /\ LoopsShaped' /\ TaskHasLoop' /\ loops[l].pc # "idle"
    BY <1>9, GoToFacts DEF FlushUpdates
  <2>2. QED
    BY <1>0, <2>1 DEF GapInv, LoopsHavePos
<1>10. ASSUME NEW l \in Loops, FlushAdvances(l) PROVE GapType' /\ GapInv'
  <2>1. GapType' /\ LoopsShaped' /\ TaskHasLoop' /\ loops[l].pc # "idle"
    BY <1>10, GoToFacts DEF FlushAdvances
  <2>2. QED
    BY <1>0, <2>1 DEF GapInv, LoopsHavePos
<1>11. ASSUME NEW l \in Loops, FlushSettles(l) PROVE GapType' /\ GapInv'
  <2>1. GapType' /\ LoopsShaped' /\ TaskHasLoop' /\ loops[l].pc # "idle"
    BY <1>11, SettleFacts
  <2>2. QED
    BY <1>0, <2>1 DEF GapInv, LoopsHavePos
<1>12. ASSUME NEW l \in Loops, FlushFails(l) PROVE GapType' /\ GapInv'
  <2>1. GapType' /\ LoopsShaped' /\ TaskHasLoop' /\ loops[l].pc # "idle"
    BY <1>12, ErrorFacts
  <2>2. QED
    BY <1>0, <2>1 DEF GapInv, LoopsHavePos
<1>13. ASSUME Publication PROVE GapType' /\ GapInv'
  <2>1. UNCHANGED gapVars
    BY <1>13 DEF Publication, gapVars
  <2>2. QED
    BY <1>0, <2>1, GapSame
<1>14. ASSUME NEW off \in rpcs, RpcResponse(off) PROVE GapType' /\ GapInv'
  <2>1. UNCHANGED gapVars
    BY <1>14 DEF RpcResponse, gapVars
  <2>2. QED
    BY <1>0, <2>1, GapSame
<1>15. ASSUME SkipDuplicate PROVE GapType' /\ GapInv'
  <2>1. UNCHANGED gapVars
    BY <1>15 DEF SkipDuplicate, gapVars
  <2>2. QED
    BY <1>0, <2>1, GapSame
<1>16. ASSUME DetectGap PROVE GapType' /\ GapInv'
  <2>1. applyUpdatesQueue # <<>> /\ applyUpdatesQueue \in Seq(Update) /\ pos # None
    BY <1>16 DEF DetectGap, Runs, Ahead, Types, QueueType
  <2>2. Running \in Update /\ pos \in Position
    BY <2>1, TailElements DEF Running, Types, StoreType
  <2>3. Running.off \in 0..(MaxHead + 1) /\ pos.ep \in Epoch
    BY <2>2, BoundAssumption DEF Update, Position, Offset
  <2>4. /\ GapType' /\ LoopsShaped' /\ TaskHasLoop'
    BY <1>16, <2>2, <2>3, ScheduleFacts DEF DetectGap, GapInv
  <2>5. QED
    BY <1>0, <2>1, <2>4 DEF GapInv, LoopsHavePos
<1>17. ASSUME AcceptUpdate PROVE GapType' /\ GapInv'
  <2>1. UNCHANGED gapVars
    BY <1>17 DEF AcceptUpdate, gapVars
  <2>2. QED
    BY <1>0, <2>1, GapSame
<1>18. ASSUME GapFilled PROVE GapType' /\ GapInv'
  <2>1. UNCHANGED gapVars
    BY <1>18 DEF GapFilled, gapVars
  <2>2. QED
    BY <1>0, <2>1, GapSame
<1>19. ASSUME WaitFails PROVE GapType' /\ GapInv'
  <2>1. UNCHANGED gapVars
    BY <1>19 DEF WaitFails, gapVars
  <2>2. QED
    BY <1>0, <2>1, GapSame
<1>20. ASSUME ApplyUpdate PROVE GapType' /\ GapInv'
  <2>1. UNCHANGED gapVars
    BY <1>20 DEF ApplyUpdate, gapVars
  <2>2. QED
    BY <1>0, <2>1, GapSame
<1>21. ASSUME AdvancePosition PROVE GapType' /\ GapInv'
  <2>1. UNCHANGED gapVars
    BY <1>21 DEF AdvancePosition, gapVars
  <2>2. QED
    BY <1>0, <2>1, GapSame
<1>22. ASSUME UpdateFails PROVE GapType' /\ GapInv'
  <2>1. UNCHANGED gapVars
    BY <1>22 DEF UpdateFails, gapVars
  <2>2. QED
    BY <1>0, <2>1, GapSame
<1>23. ASSUME Connected PROVE GapType' /\ GapInv'
  <2>1. UNCHANGED gapVars
    BY <1>23 DEF Connected, gapVars
  <2>2. QED
    BY <1>0, <2>1, GapSame
<1>24. ASSUME SubscribedEvent PROVE GapType' /\ GapInv'
  <2>1. UNCHANGED gapVars
    BY <1>24 DEF SubscribedEvent, gapVars
  <2>2. QED
    BY <1>0, <2>1, GapSame
<1>25. ASSUME SubscribedHandler PROVE GapType' /\ GapInv'
  <2>1. CASE UNCHANGED gapVars
    BY <1>0, <2>1, GapSame
  <2>2. CASE ScheduleGapFill(pos', FillTarget(handler.off), handler.ep)
    <3>1. /\ pos' \in Position /\ handler.ep \in Epoch
          /\ FillTarget(handler.off) \in 0..(MaxHead + 1)
      BY <1>25, HandlerFacts
    <3>2. GapType' /\ LoopsShaped' /\ TaskHasLoop'
      BY <2>2, <3>1, ScheduleFacts DEF GapInv
    <3>3. QED
      BY <3>1, <3>2, NoneAssumption DEF GapInv, LoopsHavePos
  <2>3. QED
    BY <1>25, <2>1, <2>2 DEF SubscribedHandler
<1>26. ASSUME Reconnect PROVE GapType' /\ GapInv'
  <2>1. CASE UNCHANGED gapVars
    BY <1>0, <2>1, GapSame
  <2>2. CASE gapFillTask' = None /\ isGapFillProcessing' = FALSE
             /\ loops' = [l \in Loops |-> [loops[l] EXCEPT !.live = FALSE]]
    <3>1. \A l \in Loops : loops'[l] = [loops[l] EXCEPT !.live = FALSE] /\ loops[l] \in Loop
      BY <2>2 DEF Types, GapType
    <3>2. \A l \in Loops :
              /\ loops'[l] \in Loop /\ loops'[l].pc = loops[l].pc
              /\ loops'[l].start = loops[l].start /\ loops'[l].cur = loops[l].cur
              /\ loops'[l].target = loops[l].target
      BY <3>1, LeftBehind
    <3>3. LoopsShaped' /\ LoopsHavePos'
      BY <1>0, <3>2 DEF GapInv, LoopsShaped, Shaped, LoopsHavePos
    <3>4. GapType' /\ TaskHasLoop'
      BY <2>2, <3>2 DEF GapType, TaskHasLoop
    <3>5. QED
      BY <3>3, <3>4 DEF GapInv
  <2>3. QED
    BY <1>26, <2>1, <2>2 DEF Reconnect
<1>27. CASE UNCHANGED vars
  <2>1. UNCHANGED gapVars
    BY <1>27 DEF vars, gapVars
  <2>2. QED
    BY <1>0, <2>1, GapSame
<1>28. QED
  BY <1>1, <1>2, <1>3, <1>4, <1>5, <1>6, <1>7, <1>8, <1>9, <1>10, <1>11, <1>12, <1>13, <1>14, <1>15, <1>16, <1>17, <1>18, <1>19, <1>20, <1>21, <1>22, <1>23, <1>24, <1>25, <1>26, <1>27
  DEF Next, GapFill, Chain

Rest == ServerType /\ StoreType /\ LinkType /\ CacheType

\* What is absorbed was fetched or delivered: offsets.
LEMMA FetchedFacts ==
    ASSUME Types, NEW l \in Loops
    PROVE  Fetched(l) \in SUBSET Offset /\ loops[l].from \in Epoch
<1>1. loops[l] \in Loop
  BY DEF Types, GapType
<1>2. QED
  BY <1>1, BoundAssumption DEF Fetched, Loop, Offset

LEMMA RunningFacts ==
    ASSUME Types, NEW st, Runs(st)
    PROVE  /\ Running \in Update /\ {Running.off} \in SUBSET Offset /\ Running.ep \in Epoch
           /\ applyUpdatesQueue # <<>> /\ stage = st
<1>1. applyUpdatesQueue # <<>> /\ applyUpdatesQueue \in Seq(Update) /\ stage = st
  BY DEF Runs, Types, QueueType
<1>2. Running \in Update
  BY <1>1, TailElements DEF Running
<1>3. QED
  BY <1>1, <1>2 DEF Update

\* The server, the store, the connection and the caches keep their types.
LEMMA RestStep ==
    ASSUME Types, HandlerHasPos, QueueInv, [Next]_vars
    PROVE  Rest'
<1> USE DEF Types, Rest, ServerType, StoreType, LinkType, CacheType
<1>1. ASSUME Publish PROVE Rest'
  <2>1. head' \in Offset /\ rpcs' \subseteq Offset
    <3>1. head + 1 \in Offset
      BY <1>1, BoundAssumption DEF Publish, Offset
    <3> HIDE DEF Offset
    <3>2. QED
      BY <1>1, <3>1 DEF Publish
  <2>2. QED
    BY <1>1, <2>1 DEF Publish, storeVars, linkVars, cacheVars
<1>2. ASSUME Rpc PROVE Rest'
  <2>1. head' \in Offset /\ rpcs' \subseteq Offset
    <3>1. head + 1 \in Offset
      BY <1>2, BoundAssumption DEF Rpc, Offset
    <3> HIDE DEF Offset
    <3>2. QED
      BY <1>2, <3>1 DEF Rpc
  <2>2. QED
    BY <1>2, <2>1 DEF Rpc, storeVars, linkVars, cacheVars
<1>3. ASSUME Drop PROVE Rest'
  BY <1>3 DEF Drop, serverVars, storeVars, linkVars, cacheVars
<1>4. ASSUME NewEpoch PROVE Rest'
  <2>1. /\ epoch' \in Epoch /\ head' \in Offset /\ wire' \in 0..(MaxHead + 1)
        /\ rpcs' = {} /\ covered' = {}
    BY <1>4, BoundAssumption DEF NewEpoch, Offset, Epoch
  <2>2. QED
    BY <1>4, <2>1 DEF NewEpoch, storeVars, cacheVars
<1>5. ASSUME Reject PROVE Rest'
  BY <1>5 DEF Reject, serverVars, storeVars, linkVars, cacheVars
<1>6. ASSUME Restart PROVE Rest'
  <2>1. epochCache' \in Epoch /\ wire' \in 0..(MaxHead + 1)
    BY <1>6, BoundAssumption DEF Restart, Epoch
  <2>2. QED
    BY <1>6, <2>1 DEF Restart, storeVars
<1>7. ASSUME NEW l \in Loops, FetchHistory(l) PROVE Rest'
  <2>1. UNCHANGED <<serverVars, storeVars, linkVars, cacheVars>>
    BY <1>7 DEF FetchHistory, OtherThanGaps, OtherThanQueue
  <2>2. QED
    BY <2>1 DEF serverVars, storeVars, linkVars, cacheVars
<1>8. ASSUME NEW l \in Loops, HistoryFails(l) PROVE Rest'
  <2>1. UNCHANGED <<serverVars, storeVars, linkVars, cacheVars>>
    BY <1>8 DEF HistoryFails, OtherThanGaps, OtherThanQueue
  <2>2. QED
    BY <2>1 DEF serverVars, storeVars, linkVars, cacheVars
<1>9. ASSUME NEW l \in Loops, FlushUpdates(l) PROVE Rest'
  <2>1. row' \in Position /\ covered' \subseteq Offset
    BY <1>9, FetchedFacts, AbsorbFacts DEF FlushUpdates
  <2>2. UNCHANGED pos /\ UNCHANGED <<serverVars, linkVars, cacheVars>>
    BY <1>9 DEF FlushUpdates, OtherThanGaps
  <2>3. QED
    BY <2>1, <2>2 DEF serverVars, linkVars, cacheVars
<1>10. ASSUME NEW l \in Loops, FlushAdvances(l) PROVE Rest'
  <2>1. loops[l] \in Loop /\ pos' = [off |-> loops[l].cur, ep |-> loops[l].ep]
    BY <1>10 DEF FlushAdvances, GapType
  <2>2. pos' \in Position
    BY <2>1 DEF Loop, Position
  <2>3. UNCHANGED <<row, covered>> /\ UNCHANGED <<serverVars, linkVars, cacheVars>>
    BY <1>10 DEF FlushAdvances, OtherThanGaps
  <2>4. QED
    BY <2>2, <2>3 DEF serverVars, linkVars, cacheVars
<1>11. ASSUME NEW l \in Loops, FlushSettles(l) PROVE Rest'
  <2>1. UNCHANGED <<serverVars, storeVars, linkVars, cacheVars>>
    BY <1>11 DEF FlushSettles, OtherThanGaps, OtherThanQueue
  <2>2. QED
    BY <2>1 DEF serverVars, storeVars, linkVars, cacheVars
<1>12. ASSUME NEW l \in Loops, FlushFails(l) PROVE Rest'
  <2>1. UNCHANGED <<serverVars, storeVars, linkVars, cacheVars>>
    BY <1>12 DEF FlushFails, OtherThanGaps, OtherThanQueue
  <2>2. QED
    BY <2>1 DEF serverVars, storeVars, linkVars, cacheVars
<1>13. ASSUME Publication PROVE Rest'
  <2>1. wire' \in 0..(MaxHead + 1)
    BY <1>13, BoundAssumption DEF Publication, Offset
  <2>2. QED
    BY <1>13, <2>1 DEF Publication, serverVars, storeVars, cacheVars
<1>14. ASSUME NEW off \in rpcs, RpcResponse(off) PROVE Rest'
  BY <1>14 DEF RpcResponse, serverVars, storeVars, linkVars, cacheVars
<1>15. ASSUME SkipDuplicate PROVE Rest'
  <2>1. lastOffsetCache' \in Offset \cup {None}
    BY <1>15, RunningFacts, SucceedFacts DEF SkipDuplicate, OtherThanQueue, linkVars
  <2>2. QED
    BY <1>15, <2>1 DEF SkipDuplicate, OtherThanQueue, serverVars, storeVars, linkVars
<1>16. ASSUME DetectGap PROVE Rest'
  <2>1. UNCHANGED <<serverVars, storeVars, linkVars, cacheVars>>
    BY <1>16 DEF DetectGap, OtherThanGaps, OtherThanQueue
  <2>2. QED
    BY <2>1 DEF serverVars, storeVars, linkVars, cacheVars
<1>17. ASSUME AcceptUpdate PROVE Rest'
  <2>1. UNCHANGED <<serverVars, storeVars, linkVars, cacheVars>>
    BY <1>17 DEF AcceptUpdate, OtherThanGaps, OtherThanQueue
  <2>2. QED
    BY <2>1 DEF serverVars, storeVars, linkVars, cacheVars
<1>18. ASSUME GapFilled PROVE Rest'
  <2>1. UNCHANGED <<serverVars, storeVars, linkVars, cacheVars>>
    BY <1>18 DEF GapFilled, OtherThanGaps, OtherThanQueue
  <2>2. QED
    BY <2>1 DEF serverVars, storeVars, linkVars, cacheVars
<1>19. ASSUME WaitFails PROVE Rest'
  <2>1. /\ QueueType' /\ LinkType' /\ rpcs' \subseteq rpcs
    BY <1>19, FailFacts DEF WaitFails
  <2>2. UNCHANGED <<head, epoch, storeVars, cacheVars>>
    BY <1>19 DEF WaitFails, Fail
  <2>3. QED
    BY <2>1, <2>2 DEF storeVars, cacheVars
<1>20. ASSUME ApplyUpdate PROVE Rest'
  <2>1. row' \in Position /\ covered' \subseteq Offset
    BY <1>20, RunningFacts, AbsorbFacts DEF ApplyUpdate
  <2>2. UNCHANGED pos /\ UNCHANGED <<serverVars, linkVars, cacheVars>>
    BY <1>20 DEF ApplyUpdate, OtherThanGaps
  <2>3. QED
    BY <2>1, <2>2 DEF serverVars, linkVars, cacheVars
<1>21. ASSUME AdvancePosition PROVE Rest'
  <2>1. lastOffsetCache' \in Offset \cup {None}
    BY <1>21, RunningFacts, SucceedFacts DEF AdvancePosition, OtherThanQueue, linkVars
  <2>2. pos' \in Position /\ Running.off \in Offset
    BY <1>21, AdvanceFacts DEF Update
  <2>3. covered' \subseteq Offset
    <3>1. 1..Running.off \subseteq Offset
      BY <2>2, BoundAssumption DEF Offset
    <3>2. covered' \subseteq covered \cup 1..Running.off
      BY <1>21 DEF AdvancePosition
    <3>3. QED
      BY <3>1, <3>2
  <2>4. QED
    BY <1>21, <2>1, <2>2, <2>3 DEF AdvancePosition, OtherThanQueue, serverVars, linkVars
<1>22. ASSUME UpdateFails PROVE Rest'
  <2>1. /\ QueueType' /\ LinkType' /\ rpcs' \subseteq rpcs
    BY <1>22, FailFacts DEF UpdateFails
  <2>2. UNCHANGED <<head, epoch, storeVars, cacheVars>>
    BY <1>22 DEF UpdateFails, Fail
  <2>3. QED
    BY <2>1, <2>2 DEF storeVars, cacheVars
<1>23. ASSUME Connected PROVE Rest'
  BY <1>23 DEF Connected, serverVars, storeVars, linkVars, cacheVars
<1>24. ASSUME SubscribedEvent PROVE Rest'
  <2>1. /\ UNCHANGED <<serverVars, storeVars, link, subscription, timer, lastOffsetCache>>
        /\ epochCache' = epoch /\ subscribed' = TRUE
        /\ handler' = [off |-> head, ep |-> epoch, read |-> pos]
        /\ wire' \in {wire, head + 1}
    BY <1>24 DEF SubscribedEvent
  <2>2. wire' \in 0..(MaxHead + 1)
    BY <2>1, BoundAssumption DEF Offset
  <2>3. QED
    BY <2>1, <2>2 DEF serverVars, storeVars
<1>25. ASSUME SubscribedHandler PROVE Rest'
  <2>1. /\ pos' \in Position /\ lastOffsetCache' \in Offset /\ handler' = None
        /\ handler.off \in Offset /\ handler.ep \in Epoch
    BY <1>25, HandlerFacts DEF SubscribedHandler
  <2>2. covered' \subseteq Offset
    BY <1>25, <2>1, BoundAssumption DEF SubscribedHandler, Offset
  <2>3. LatestData(handler.off) \in Offset
    BY <2>1, LatestDataFacts
  <2>4. row' \in Position
    BY <1>25, <2>1, <2>3 DEF SubscribedHandler, Position
  <2>5. UNCHANGED <<serverVars, linkVars, epochCache>>
    BY <1>25 DEF SubscribedHandler
  <2>6. QED
    BY <2>1, <2>2, <2>4, <2>5 DEF serverVars, linkVars
<1>26. ASSUME Reconnect PROVE Rest'
  <2>1. wire' \in 0..(MaxHead + 1) /\ rpcs' \subseteq Offset
    BY <1>26, BoundAssumption DEF Reconnect
  <2>2. QED
    BY <1>26, <2>1 DEF Reconnect, storeVars
<1>27. CASE UNCHANGED vars
  <2>1. UNCHANGED <<serverVars, storeVars, linkVars, cacheVars>>
    BY <1>27 DEF vars, OtherThanGaps, OtherThanQueue
  <2>2. QED
    BY <2>1 DEF serverVars, storeVars, linkVars, cacheVars
<1>28. QED
  BY <1>1, <1>2, <1>3, <1>4, <1>5, <1>6, <1>7, <1>8, <1>9, <1>10, <1>11, <1>12, <1>13, <1>14, <1>15, <1>16, <1>17, <1>18, <1>19, <1>20, <1>21, <1>22, <1>23, <1>24, <1>25, <1>26, <1>27
  DEF Next, GapFill, Chain

\* Faults are counted up to their bound.
LEMMA FaultStep ==
    ASSUME faults \in 0..MaxFaults, [Next]_vars
    PROVE  faults' \in 0..MaxFaults
<1> USE BoundAssumption
<1>1. ASSUME Publish PROVE faults' \in 0..MaxFaults
  BY <1>1 DEF Publish, Fault
<1>2. ASSUME Rpc PROVE faults' \in 0..MaxFaults
  BY <1>2 DEF Rpc, Fault
<1>3. ASSUME Drop PROVE faults' \in 0..MaxFaults
  BY <1>3 DEF Drop, Fault
<1>4. ASSUME NewEpoch PROVE faults' \in 0..MaxFaults
  BY <1>4 DEF NewEpoch, Fault
<1>5. ASSUME Reject PROVE faults' \in 0..MaxFaults
  BY <1>5 DEF Reject, Fault
<1>6. ASSUME Restart PROVE faults' \in 0..MaxFaults
  BY <1>6 DEF Restart, Fault
<1>7. ASSUME NEW l \in Loops, FetchHistory(l) PROVE faults' \in 0..MaxFaults
  BY <1>7 DEF FetchHistory, Fault
<1>8. ASSUME NEW l \in Loops, HistoryFails(l) PROVE faults' \in 0..MaxFaults
  BY <1>8 DEF HistoryFails, Fault
<1>9. ASSUME NEW l \in Loops, FlushUpdates(l) PROVE faults' \in 0..MaxFaults
  BY <1>9 DEF FlushUpdates, Fault
<1>10. ASSUME NEW l \in Loops, FlushAdvances(l) PROVE faults' \in 0..MaxFaults
  BY <1>10 DEF FlushAdvances, Fault
<1>11. ASSUME NEW l \in Loops, FlushSettles(l) PROVE faults' \in 0..MaxFaults
  BY <1>11 DEF FlushSettles, Fault
<1>12. ASSUME NEW l \in Loops, FlushFails(l) PROVE faults' \in 0..MaxFaults
  BY <1>12 DEF FlushFails, Fault
<1>13. ASSUME Publication PROVE faults' \in 0..MaxFaults
  BY <1>13 DEF Publication, Fault
<1>14. ASSUME NEW off \in rpcs, RpcResponse(off) PROVE faults' \in 0..MaxFaults
  BY <1>14 DEF RpcResponse, Fault
<1>15. ASSUME SkipDuplicate PROVE faults' \in 0..MaxFaults
  BY <1>15 DEF SkipDuplicate, Fault
<1>16. ASSUME DetectGap PROVE faults' \in 0..MaxFaults
  BY <1>16 DEF DetectGap, Fault
<1>17. ASSUME AcceptUpdate PROVE faults' \in 0..MaxFaults
  BY <1>17 DEF AcceptUpdate, Fault
<1>18. ASSUME GapFilled PROVE faults' \in 0..MaxFaults
  BY <1>18 DEF GapFilled, Fault
<1>19. ASSUME WaitFails PROVE faults' \in 0..MaxFaults
  BY <1>19 DEF WaitFails, Fault
<1>20. ASSUME ApplyUpdate PROVE faults' \in 0..MaxFaults
  BY <1>20 DEF ApplyUpdate, Fault
<1>21. ASSUME AdvancePosition PROVE faults' \in 0..MaxFaults
  BY <1>21 DEF AdvancePosition, Fault
<1>22. ASSUME UpdateFails PROVE faults' \in 0..MaxFaults
  BY <1>22 DEF UpdateFails, Fault
<1>23. ASSUME Connected PROVE faults' \in 0..MaxFaults
  BY <1>23 DEF Connected, Fault
<1>24. ASSUME SubscribedEvent PROVE faults' \in 0..MaxFaults
  BY <1>24 DEF SubscribedEvent, Fault
<1>25. ASSUME SubscribedHandler PROVE faults' \in 0..MaxFaults
  BY <1>25 DEF SubscribedHandler, Fault
<1>26. ASSUME Reconnect PROVE faults' \in 0..MaxFaults
  BY <1>26 DEF Reconnect, Fault
<1>27. CASE UNCHANGED vars
  BY <1>27 DEF vars
<1>28. QED
  BY <1>1, <1>2, <1>3, <1>4, <1>5, <1>6, <1>7, <1>8, <1>9, <1>10, <1>11, <1>12, <1>13, <1>14, <1>15, <1>16, <1>17, <1>18, <1>19, <1>20, <1>21, <1>22, <1>23, <1>24, <1>25, <1>26, <1>27
  DEF Next, GapFill, Chain

-----------------------------------------------------------------------------

BaseInv == faults \in 0..MaxFaults /\ Types /\ HandlerHasPos /\ GapInv /\ QueueInv

LEMMA BaseInit == Init => BaseInv
<1> SUFFICES ASSUME Init PROVE BaseInv
  OBVIOUS
<1>1. head \in Offset /\ 0 \in Offset /\ 1 \in Epoch /\ 0 \in Epoch
  BY BoundAssumption DEF Init, Offset, Epoch
<1>2. StoreType
  <2>1. CASE pos = None /\ covered = {} /\ row = [off |-> 0, ep |-> 1]
    BY <1>1, <2>1 DEF StoreType, Position
  <2>2. CASE \E n \in 0..head : pos = [off |-> n, ep |-> 1] /\ covered = 1..n
                              /\ row = [off |-> LatestData(n), ep |-> 1]
    <3>1. PICK n \in 0..head : pos = [off |-> n, ep |-> 1] /\ covered = 1..n
                              /\ row = [off |-> LatestData(n), ep |-> 1]
      BY <2>2
    <3>2. n \in Offset /\ 1..n \subseteq Offset
      BY <1>1, BoundAssumption DEF Offset
    <3>3. LatestData(n) \in Offset
      BY <3>2, LatestDataFacts
    <3>4. QED
      BY <1>1, <3>1, <3>2, <3>3 DEF StoreType, Position
  <2>3. QED
    BY <2>1, <2>2 DEF Init
<1>3. GapType /\ GapInv
  BY IdleFacts DEF Init, GapType, GapInv, LoopsShaped, LoopsHavePos, TaskHasLoop
<1>4. ServerType /\ CacheType /\ HandlerHasPos
  BY <1>1 DEF Init, ServerType, CacheType, HandlerHasPos
<1>5. LinkType
  <2>1. 0 \in 0..(MaxHead + 1)
    BY BoundAssumption
  <2>2. QED
    BY <2>1, Zenon DEF Init, LinkType
<1>6. QueueType /\ QueueInv
  BY EmptySeq, NoElements
     DEF Init, QueueType, Stages, QueueInv, TimerIsOff, BufferIsPub, EmptyStarts,
         BufferHasExecutor
<1>7. faults \in 0..MaxFaults
  BY BoundAssumption DEF Init
<1>8. QED
  BY <1>2, <1>3, <1>4, <1>5, <1>6, <1>7 DEF BaseInv, Types

LEMMA BaseStep == BaseInv /\ [Next]_vars => BaseInv'
BY FaultStep, RestStep, QueueStep, GapStep, PosIsKept DEF BaseInv, Types, Rest

(* The inductive invariant of all epochs holds in every reachable state.   *)
THEOREM Invariance == Spec => []BaseInv
BY BaseInit, BaseStep, PTL DEF Spec

(* Every variable keeps its type: offsets, targets and positions stay in   *)
(* their bounds, in every epoch and under every fault.                     *)
THEOREM TypeCorrect == Spec => []TypeOK
<1>1. BaseInv => TypeOK
  BY Zenon
     DEF BaseInv, Types, ServerType, StoreType, LinkType, CacheType, QueueType, Stages, GapType,
         TypeOK
<1>2. QED
  BY Invariance, <1>1, PTL

(* Nothing waits for nobody, in every epoch: a task has a loop, what is    *)
(* buffered an executor or a reconnection.                                 *)
THEOREM NobodyStranded == Spec => []NothingStranded
<1>1. BaseInv => NothingStranded
  BY DEF BaseInv, GapInv, TaskHasLoop, QueueInv, BufferHasExecutor, NothingStranded
<1>2. QED
  BY Invariance, <1>1, PTL

-----------------------------------------------------------------------------
(* What holds as long as the server does not restart.                      *)

FirstEpoch == epoch = 1

\* The store has a position: it was online before.
Known == pos # None

\* The position rests on a prefix that is absorbed, and only the log is.
LogInv ==
    /\ epoch = 1 /\ pos \in Position
    /\ pos.off \in 0..head /\ 1..pos.off \subseteq covered
    /\ covered \subseteq 1..head

\* So does the position somebody has read, ...
HandlerInv ==
    handler # None =>
        /\ handler.read \in Position
        /\ handler.read.off \in 0..head /\ 1..handler.read.off \subseteq covered

\* ... the start of a gap fill, and its end when the data is written.
Sound(o) ==
    o.pc # "idle" =>
        /\ 1..o.start \subseteq covered /\ o.cur \in 0..head
        /\ o.start < o.cur => o.from = 1
        /\ o.pc \in {"advance", "settle"} => 1..o.cur \subseteq covered
LoopsSound == \A l \in Loops : Sound(loops[l])

\* What is on its way belongs to the log, and the update the chain works on continues
\* what is absorbed.
ChainInv ==
    /\ \A u \in Queued : u.off \in 1..head /\ u.ep = 1
    /\ rpcs \subseteq 1..head
    /\ subscribed => wire >= 1
    /\ stage \in {"apply", "advance"} => 1..(Running.off - 1) \subseteq covered
    /\ stage = "advance" => Running.off \in covered

OneInv == LogInv /\ HandlerInv /\ StaleIsCovered /\ LoopsSound /\ ChainInv

\* The log and what is absorbed of it only grow.
Grown == covered \subseteq covered' /\ 1..head \subseteq 1..head' /\ 0..head \subseteq 0..head'

\* The log grows, or something of it is absorbed, or the position moves to what is.
StoreMoves ==
    \/ UNCHANGED <<pos, covered>> /\ head' \in {head, head + 1}
    \/ UNCHANGED <<head, pos>> /\ \E S \in SUBSET (1..head) : covered' = covered \cup S
    \/ /\ UNCHANGED <<head, covered>>
       /\ pos' \in Position /\ pos'.off \in 0..head /\ 1..pos'.off \subseteq covered

\* The head of the chain is queued.
LEMMA HeadFacts ==
    ASSUME BaseInv, OneInv, NEW st, Runs(st)
    PROVE  /\ Running \in Update /\ Running.off \in 1..head /\ Running.ep = 1
           /\ applyUpdatesQueue # <<>> /\ stage = st
<1>1. applyUpdatesQueue # <<>> /\ applyUpdatesQueue \in Seq(Update) /\ stage = st
  BY DEF Runs, BaseInv, Types, QueueType
<1>2. Running \in Update /\ Running \in Queued
  BY <1>1, TailElements DEF Running, Queued
<1>3. QED
  BY <1>1, <1>2 DEF OneInv, ChainInv

\* The head of the chain is the next one, and the prefix with it is absorbed.
LEMMA NextFacts ==
    ASSUME BaseInv, OneInv, Runs("advance")
    PROVE  1..Running.off \subseteq covered
<1>1. Running.off \in Nat
  BY HeadFacts, BoundAssumption DEF BaseInv, Types, ServerType, Offset
<1>2. 1..(Running.off - 1) \subseteq covered /\ Running.off \in covered
  BY HeadFacts DEF OneInv, ChainInv
<1>3. QED
  BY <1>1, <1>2

\* The handler of 'subscribed' takes the store to be where it is, or at the start.
LEMMA LocalFacts ==
    ASSUME BaseInv, OneInv, handler # None
    PROVE  LocalOffset(handler) \in 0..head /\ 1..LocalOffset(handler) \subseteq covered
<1>1. handler.read # None /\ handler.read.off \in 0..head /\ 1..handler.read.off \subseteq covered
  BY NoneAssumption DEF OneInv, HandlerInv
<1>2. LocalOffset(handler) \in {0, handler.read.off}
  BY <1>1 DEF LocalOffset
<1>3. 0 \in 0..head /\ 1..0 \subseteq covered
  BY BoundAssumption DEF BaseInv, Types, ServerType, Offset
<1>4. QED
  BY <1>1, <1>2, <1>3

\* Who writes to the store, and what.
LEMMA StoreMove ==
    ASSUME FirstEpoch', BaseInv, OneInv, [Next]_vars
    PROVE  StoreMoves /\ epoch' = epoch
<1>1. ASSUME Publish PROVE StoreMoves /\ epoch' = epoch
  <2>1. UNCHANGED <<pos, covered>> /\ head' = head + 1 /\ epoch' = epoch
    BY <1>1 DEF Publish, storeVars
  <2>2. QED
    BY <2>1 DEF StoreMoves
<1>2. ASSUME Rpc PROVE StoreMoves /\ epoch' = epoch
  <2>1. UNCHANGED <<pos, covered>> /\ head' = head + 1 /\ epoch' = epoch
    BY <1>2 DEF Rpc, storeVars
  <2>2. QED
    BY <2>1 DEF StoreMoves
<1>3. ASSUME Drop PROVE StoreMoves /\ epoch' = epoch
  <2>1. UNCHANGED <<pos, covered>> /\ head' = head /\ epoch' = epoch
    BY <1>3 DEF Drop, OtherThanGaps, OtherThanQueue, serverVars, storeVars
  <2>2. QED
    BY <2>1 DEF StoreMoves
<1>4. ASSUME NewEpoch PROVE StoreMoves /\ epoch' = epoch
  BY <1>4 DEF NewEpoch, FirstEpoch, OneInv, LogInv
<1>5. ASSUME Reject PROVE StoreMoves /\ epoch' = epoch
  <2>1. UNCHANGED <<pos, covered>> /\ head' = head /\ epoch' = epoch
    BY <1>5 DEF Reject, OtherThanGaps, OtherThanQueue, serverVars, storeVars
  <2>2. QED
    BY <2>1 DEF StoreMoves
<1>6. ASSUME Restart PROVE StoreMoves /\ epoch' = epoch
  <2>1. UNCHANGED <<pos, covered>> /\ head' = head /\ epoch' = epoch
    BY <1>6 DEF Restart, OtherThanGaps, OtherThanQueue, serverVars, storeVars
  <2>2. QED
    BY <2>1 DEF StoreMoves
<1>7. ASSUME NEW l \in Loops, FetchHistory(l) PROVE StoreMoves /\ epoch' = epoch
  <2>1. UNCHANGED <<pos, covered>> /\ head' = head /\ epoch' = epoch
    BY <1>7 DEF FetchHistory, OtherThanGaps, OtherThanQueue, serverVars, storeVars
  <2>2. QED
    BY <2>1 DEF StoreMoves
<1>8. ASSUME NEW l \in Loops, HistoryFails(l) PROVE StoreMoves /\ epoch' = epoch
  <2>1. UNCHANGED <<pos, covered>> /\ head' = head /\ epoch' = epoch
    BY <1>8 DEF HistoryFails, OtherThanGaps, OtherThanQueue, serverVars, storeVars
  <2>2. QED
    BY <2>1 DEF StoreMoves
<1>9. ASSUME NEW l \in Loops, FlushUpdates(l) PROVE StoreMoves /\ epoch' = epoch
  <2>1. /\ UNCHANGED <<head, pos, epoch>> /\ Absorb(Fetched(l), loops[l].from)
        /\ loops[l].pc = "flush"
    BY <1>9 DEF FlushUpdates, OtherThanGaps, serverVars
  <2>2. loops[l].start < loops[l].cur /\ loops[l] \in Loop
    BY <2>1 DEF BaseInv, GapInv, LoopsShaped, Shaped, Types, GapType
  <2>3. loops[l].from = 1 /\ loops[l].cur \in 0..head
    BY <2>1, <2>2 DEF OneInv, LoopsSound, Sound
  <2>4. covered' = covered \cup Fetched(l)
    BY <2>1, <2>3, FetchedFacts, AbsorbFacts DEF OneInv, LogInv, BaseInv
  <2>5. Fetched(l) \subseteq 1..head
    <3>1. loops[l].start \in Nat /\ head \in Nat
      BY <2>2, BoundAssumption DEF Loop, Offset, BaseInv, Types, ServerType
    <3>2. QED
      BY <2>3, <3>1 DEF Fetched
  <2>6. QED
    BY <2>1, <2>4, <2>5 DEF StoreMoves
<1>10. ASSUME NEW l \in Loops, FlushAdvances(l) PROVE StoreMoves /\ epoch' = epoch
  <2>1. /\ UNCHANGED <<head, covered, epoch>> /\ pos'.off = loops[l].cur
        /\ loops[l].pc = "advance" /\ pos' \in Position
    <3>1. loops[l] \in Loop
      BY DEF BaseInv, Types, GapType
    <3>2. [off |-> loops[l].cur, ep |-> loops[l].ep] \in Position
      BY <3>1 DEF Loop, Position
    <3>3. QED
      BY <1>10, <3>2 DEF FlushAdvances, OtherThanGaps, serverVars
  <2>2. loops[l].cur \in 0..head /\ 1..loops[l].cur \subseteq covered
    BY <2>1 DEF OneInv, LoopsSound, Sound
  <2>3. QED
    BY <2>1, <2>2 DEF StoreMoves
<1>11. ASSUME NEW l \in Loops, FlushSettles(l) PROVE StoreMoves /\ epoch' = epoch
  <2>1. UNCHANGED <<pos, covered>> /\ head' = head /\ epoch' = epoch
    BY <1>11 DEF FlushSettles, OtherThanGaps, OtherThanQueue, serverVars, storeVars
  <2>2. QED
    BY <2>1 DEF StoreMoves
<1>12. ASSUME NEW l \in Loops, FlushFails(l) PROVE StoreMoves /\ epoch' = epoch
  <2>1. UNCHANGED <<pos, covered>> /\ head' = head /\ epoch' = epoch
    BY <1>12 DEF FlushFails, OtherThanGaps, OtherThanQueue, serverVars, storeVars
  <2>2. QED
    BY <2>1 DEF StoreMoves
<1>13. ASSUME Publication PROVE StoreMoves /\ epoch' = epoch
  <2>1. UNCHANGED <<pos, covered>> /\ head' = head /\ epoch' = epoch
    BY <1>13 DEF Publication, OtherThanGaps, OtherThanQueue, serverVars, storeVars
  <2>2. QED
    BY <2>1 DEF StoreMoves
<1>14. ASSUME NEW off \in rpcs, RpcResponse(off) PROVE StoreMoves /\ epoch' = epoch
  <2>1. UNCHANGED <<pos, covered>> /\ head' = head /\ epoch' = epoch
    BY <1>14 DEF RpcResponse, OtherThanGaps, OtherThanQueue, serverVars, storeVars
  <2>2. QED
    BY <2>1 DEF StoreMoves
<1>15. ASSUME SkipDuplicate PROVE StoreMoves /\ epoch' = epoch
  <2>1. UNCHANGED <<pos, covered>> /\ head' = head /\ epoch' = epoch
    BY <1>15 DEF SkipDuplicate, OtherThanGaps, OtherThanQueue, serverVars, storeVars
  <2>2. QED
    BY <2>1 DEF StoreMoves
<1>16. ASSUME DetectGap PROVE StoreMoves /\ epoch' = epoch
  <2>1. UNCHANGED <<pos, covered>> /\ head' = head /\ epoch' = epoch
    BY <1>16 DEF DetectGap, OtherThanGaps, OtherThanQueue, serverVars, storeVars
  <2>2. QED
    BY <2>1 DEF StoreMoves
<1>17. ASSUME AcceptUpdate PROVE StoreMoves /\ epoch' = epoch
  <2>1. UNCHANGED <<pos, covered>> /\ head' = head /\ epoch' = epoch
    BY <1>17 DEF AcceptUpdate, OtherThanGaps, OtherThanQueue, serverVars, storeVars
  <2>2. QED
    BY <2>1 DEF StoreMoves
<1>18. ASSUME GapFilled PROVE StoreMoves /\ epoch' = epoch
  <2>1. UNCHANGED <<pos, covered>> /\ head' = head /\ epoch' = epoch
    BY <1>18 DEF GapFilled, OtherThanGaps, OtherThanQueue, serverVars, storeVars
  <2>2. QED
    BY <2>1 DEF StoreMoves
<1>19. ASSUME WaitFails PROVE StoreMoves /\ epoch' = epoch
  <2>1. UNCHANGED <<pos, covered>> /\ head' = head /\ epoch' = epoch
    BY <1>19 DEF Fail, WaitFails, OtherThanGaps, OtherThanQueue, serverVars, storeVars
  <2>2. QED
    BY <2>1 DEF StoreMoves
<1>20. ASSUME ApplyUpdate PROVE StoreMoves /\ epoch' = epoch
  <2>1. /\ UNCHANGED <<head, pos, epoch>> /\ Absorb({Running.off}, Running.ep)
        /\ Runs("apply")
    BY <1>20 DEF ApplyUpdate, serverVars
  <2>2. covered' = covered \cup {Running.off}
    BY <2>1, RunningFacts, HeadFacts, AbsorbFacts DEF OneInv, LogInv, BaseInv
  <2>3. {Running.off} \in SUBSET (1..head)
    BY <2>1, HeadFacts
  <2>4. QED
    BY <2>1, <2>2, <2>3 DEF StoreMoves
<1>21. ASSUME AdvancePosition PROVE StoreMoves /\ epoch' = epoch
  <2>1. /\ UNCHANGED <<head, epoch>> /\ Runs("advance")
        /\ pos' = [off |-> Running.off, ep |-> epochCache]
    BY <1>21 DEF AdvancePosition, OtherThanQueue, serverVars
  <2>2. covered' = covered
    BY <1>21, NoneAssumption DEF AdvancePosition, OneInv, LogInv
  <2>3. Running.off \in 0..head /\ 1..Running.off \subseteq covered
    BY <2>1, HeadFacts, NextFacts
  <2>4. pos' \in Position
    BY <1>21, AdvanceFacts DEF BaseInv
  <2>5. QED
    BY <2>1, <2>2, <2>3, <2>4 DEF StoreMoves
<1>22. ASSUME UpdateFails PROVE StoreMoves /\ epoch' = epoch
  <2>1. UNCHANGED <<pos, covered>> /\ head' = head /\ epoch' = epoch
    BY <1>22 DEF Fail, UpdateFails, OtherThanGaps, OtherThanQueue, serverVars, storeVars
  <2>2. QED
    BY <2>1 DEF StoreMoves
<1>23. ASSUME Connected PROVE StoreMoves /\ epoch' = epoch
  <2>1. UNCHANGED <<pos, covered>> /\ head' = head /\ epoch' = epoch
    BY <1>23 DEF Connected, OtherThanGaps, OtherThanQueue, serverVars, storeVars
  <2>2. QED
    BY <2>1 DEF StoreMoves
<1>24. ASSUME SubscribedEvent PROVE StoreMoves /\ epoch' = epoch
  <2>1. UNCHANGED <<pos, covered>> /\ head' = head /\ epoch' = epoch
    BY <1>24 DEF SubscribedEvent, OtherThanGaps, OtherThanQueue, serverVars, storeVars
  <2>2. QED
    BY <2>1 DEF StoreMoves
<1>25. ASSUME SubscribedHandler PROVE StoreMoves /\ epoch' = epoch
  <2>1. UNCHANGED <<head, epoch, covered>> /\ pos' \in Position
    BY <1>25, HandlerFacts, NoneAssumption
       DEF SubscribedHandler, serverVars, OneInv, HandlerInv, BaseInv
  <2>2. pos' = pos \/ pos'.off = LocalOffset(handler)
    BY <1>25, HandlerFacts DEF BaseInv
  <2>3. LocalOffset(handler) \in 0..head /\ 1..LocalOffset(handler) \subseteq covered
    BY <1>25, LocalFacts DEF SubscribedHandler
  <2>4. QED
    BY <2>1, <2>2, <2>3 DEF StoreMoves, OneInv, LogInv
<1>26. ASSUME Reconnect PROVE StoreMoves /\ epoch' = epoch
  <2>1. UNCHANGED <<pos, covered>> /\ head' = head /\ epoch' = epoch
    BY <1>26 DEF Reconnect, OtherThanGaps, OtherThanQueue, serverVars, storeVars
  <2>2. QED
    BY <2>1 DEF StoreMoves
<1>27. CASE UNCHANGED vars
  <2>1. UNCHANGED <<pos, covered>> /\ head' = head /\ epoch' = epoch
    BY <1>27 DEF vars, OtherThanGaps, OtherThanQueue, serverVars, storeVars
  <2>2. QED
    BY <2>1 DEF StoreMoves
<1>28. QED
  BY <1>1, <1>2, <1>3, <1>4, <1>5, <1>6, <1>7, <1>8, <1>9, <1>10, <1>11, <1>12, <1>13, <1>14, <1>15, <1>16, <1>17, <1>18, <1>19, <1>20, <1>21, <1>22, <1>23, <1>24, <1>25, <1>26, <1>27
  DEF Next, GapFill, Chain

LEMMA LogStep ==
    ASSUME FirstEpoch', BaseInv, OneInv, [Next]_vars
    PROVE  Grown /\ LogInv'
<1>1. StoreMoves /\ epoch' = epoch
  BY StoreMove
<1>2. /\ head \in Nat /\ epoch = 1 /\ pos \in Position /\ pos.off \in 0..head
      /\ 1..pos.off \subseteq covered /\ covered \subseteq 1..head
  BY BoundAssumption DEF OneInv, LogInv, BaseInv, Types, ServerType, Offset
<1>3. CASE UNCHANGED <<pos, covered>> /\ head' \in {head, head + 1}
  <2>1. 1..head \subseteq 1..head' /\ 0..head \subseteq 0..head'
    BY <1>2, <1>3
  <2>2. QED
    BY <1>1, <1>2, <1>3, <2>1 DEF Grown, LogInv
<1>4. CASE UNCHANGED <<head, pos>> /\ \E S \in SUBSET (1..head) : covered' = covered \cup S
  BY <1>1, <1>2, <1>4 DEF Grown, LogInv
<1>5. CASE /\ UNCHANGED <<head, covered>>
           /\ pos' \in Position /\ pos'.off \in 0..head /\ 1..pos'.off \subseteq covered
  BY <1>1, <1>2, <1>5 DEF Grown, LogInv
<1>6. QED
  BY <1>1, <1>3, <1>4, <1>5 DEF StoreMoves

\* What was read stays absorbed.
LEMMA HandlerStep ==
    ASSUME FirstEpoch', BaseInv, OneInv, [Next]_vars
    PROVE  HandlerInv'
<1>0. Grown
  BY LogStep
<1>1. ASSUME Publish PROVE HandlerInv'
  <2>1. handler' = handler \/ handler' = None
    BY <1>1 DEF Publish, cacheVars, OtherThanQueue, OtherThanGaps
  <2>2. QED
    BY <1>0, <2>1 DEF OneInv, HandlerInv, Grown
<1>2. ASSUME Rpc PROVE HandlerInv'
  <2>1. handler' = handler \/ handler' = None
    BY <1>2 DEF Rpc, cacheVars, OtherThanQueue, OtherThanGaps
  <2>2. QED
    BY <1>0, <2>1 DEF OneInv, HandlerInv, Grown
<1>3. ASSUME Drop PROVE HandlerInv'
  <2>1. handler' = handler \/ handler' = None
    BY <1>3 DEF Drop, cacheVars, OtherThanQueue, OtherThanGaps
  <2>2. QED
    BY <1>0, <2>1 DEF OneInv, HandlerInv, Grown
<1>4. ASSUME NewEpoch PROVE HandlerInv'
  <2>1. handler' = handler \/ handler' = None
    BY <1>4 DEF NewEpoch, cacheVars, OtherThanQueue, OtherThanGaps
  <2>2. QED
    BY <1>0, <2>1 DEF OneInv, HandlerInv, Grown
<1>5. ASSUME Reject PROVE HandlerInv'
  <2>1. handler' = handler \/ handler' = None
    BY <1>5 DEF Reject, cacheVars, OtherThanQueue, OtherThanGaps
  <2>2. QED
    BY <1>0, <2>1 DEF OneInv, HandlerInv, Grown
<1>6. ASSUME Restart PROVE HandlerInv'
  <2>1. handler' = handler \/ handler' = None
    BY <1>6 DEF Restart, cacheVars, OtherThanQueue, OtherThanGaps
  <2>2. QED
    BY <1>0, <2>1 DEF OneInv, HandlerInv, Grown
<1>7. ASSUME NEW l \in Loops, FetchHistory(l) PROVE HandlerInv'
  <2>1. handler' = handler \/ handler' = None
    BY <1>7 DEF FetchHistory, cacheVars, OtherThanQueue, OtherThanGaps
  <2>2. QED
    BY <1>0, <2>1 DEF OneInv, HandlerInv, Grown
<1>8. ASSUME NEW l \in Loops, HistoryFails(l) PROVE HandlerInv'
  <2>1. handler' = handler \/ handler' = None
    BY <1>8 DEF HistoryFails, cacheVars, OtherThanQueue, OtherThanGaps
  <2>2. QED
    BY <1>0, <2>1 DEF OneInv, HandlerInv, Grown
<1>9. ASSUME NEW l \in Loops, FlushUpdates(l) PROVE HandlerInv'
  <2>1. handler' = handler \/ handler' = None
    BY <1>9 DEF FlushUpdates, cacheVars, OtherThanQueue, OtherThanGaps
  <2>2. QED
    BY <1>0, <2>1 DEF OneInv, HandlerInv, Grown
<1>10. ASSUME NEW l \in Loops, FlushAdvances(l) PROVE HandlerInv'
  <2>1. handler' = handler \/ handler' = None
    BY <1>10 DEF FlushAdvances, cacheVars, OtherThanQueue, OtherThanGaps
  <2>2. QED
    BY <1>0, <2>1 DEF OneInv, HandlerInv, Grown
<1>11. ASSUME NEW l \in Loops, FlushSettles(l) PROVE HandlerInv'
  <2>1. handler' = handler \/ handler' = None
    BY <1>11 DEF FlushSettles, cacheVars, OtherThanQueue, OtherThanGaps
  <2>2. QED
    BY <1>0, <2>1 DEF OneInv, HandlerInv, Grown
<1>12. ASSUME NEW l \in Loops, FlushFails(l) PROVE HandlerInv'
  <2>1. handler' = handler \/ handler' = None
    BY <1>12 DEF FlushFails, cacheVars, OtherThanQueue, OtherThanGaps
  <2>2. QED
    BY <1>0, <2>1 DEF OneInv, HandlerInv, Grown
<1>13. ASSUME Publication PROVE HandlerInv'
  <2>1. handler' = handler \/ handler' = None
    BY <1>13 DEF Publication, cacheVars, OtherThanQueue, OtherThanGaps
  <2>2. QED
    BY <1>0, <2>1 DEF OneInv, HandlerInv, Grown
<1>14. ASSUME NEW off \in rpcs, RpcResponse(off) PROVE HandlerInv'
  <2>1. handler' = handler \/ handler' = None
    BY <1>14 DEF RpcResponse, cacheVars, OtherThanQueue, OtherThanGaps
  <2>2. QED
    BY <1>0, <2>1 DEF OneInv, HandlerInv, Grown
<1>15. ASSUME SkipDuplicate PROVE HandlerInv'
  <2>1. handler' = handler \/ handler' = None
    BY <1>15 DEF SkipDuplicate, cacheVars, OtherThanQueue, OtherThanGaps
  <2>2. QED
    BY <1>0, <2>1 DEF OneInv, HandlerInv, Grown
<1>16. ASSUME DetectGap PROVE HandlerInv'
  <2>1. handler' = handler \/ handler' = None
    BY <1>16 DEF DetectGap, cacheVars, OtherThanQueue, OtherThanGaps
  <2>2. QED
    BY <1>0, <2>1 DEF OneInv, HandlerInv, Grown
<1>17. ASSUME AcceptUpdate PROVE HandlerInv'
  <2>1. handler' = handler \/ handler' = None
    BY <1>17 DEF AcceptUpdate, cacheVars, OtherThanQueue, OtherThanGaps
  <2>2. QED
    BY <1>0, <2>1 DEF OneInv, HandlerInv, Grown
<1>18. ASSUME GapFilled PROVE HandlerInv'
  <2>1. handler' = handler \/ handler' = None
    BY <1>18 DEF GapFilled, cacheVars, OtherThanQueue, OtherThanGaps
  <2>2. QED
    BY <1>0, <2>1 DEF OneInv, HandlerInv, Grown
<1>19. ASSUME WaitFails PROVE HandlerInv'
  <2>1. handler' = handler \/ handler' = None
    BY <1>19 DEF Fail, WaitFails, cacheVars, OtherThanQueue, OtherThanGaps
  <2>2. QED
    BY <1>0, <2>1 DEF OneInv, HandlerInv, Grown
<1>20. ASSUME ApplyUpdate PROVE HandlerInv'
  <2>1. handler' = handler \/ handler' = None
    BY <1>20 DEF ApplyUpdate, cacheVars, OtherThanQueue, OtherThanGaps
  <2>2. QED
    BY <1>0, <2>1 DEF OneInv, HandlerInv, Grown
<1>21. ASSUME AdvancePosition PROVE HandlerInv'
  <2>1. handler' = handler \/ handler' = None
    BY <1>21 DEF AdvancePosition, cacheVars, OtherThanQueue, OtherThanGaps
  <2>2. QED
    BY <1>0, <2>1 DEF OneInv, HandlerInv, Grown
<1>22. ASSUME UpdateFails PROVE HandlerInv'
  <2>1. handler' = handler \/ handler' = None
    BY <1>22 DEF Fail, UpdateFails, cacheVars, OtherThanQueue, OtherThanGaps
  <2>2. QED
    BY <1>0, <2>1 DEF OneInv, HandlerInv, Grown
<1>23. ASSUME Connected PROVE HandlerInv'
  <2>1. handler' = handler \/ handler' = None
    BY <1>23 DEF Connected, cacheVars, OtherThanQueue, OtherThanGaps
  <2>2. QED
    BY <1>0, <2>1 DEF OneInv, HandlerInv, Grown
<1>24. ASSUME SubscribedEvent PROVE HandlerInv'
  <2>1. handler'.read = pos /\ UNCHANGED <<pos, head, covered>>
    BY <1>24 DEF SubscribedEvent, storeVars, serverVars
  <2>2. QED
    BY <2>1 DEF OneInv, LogInv, HandlerInv
<1>25. ASSUME SubscribedHandler PROVE HandlerInv'
  <2>1. handler' = handler \/ handler' = None
    BY <1>25 DEF SubscribedHandler, cacheVars, OtherThanQueue, OtherThanGaps
  <2>2. QED
    BY <1>0, <2>1 DEF OneInv, HandlerInv, Grown
<1>26. ASSUME Reconnect PROVE HandlerInv'
  <2>1. handler' = handler \/ handler' = None
    BY <1>26 DEF Reconnect, cacheVars, OtherThanQueue, OtherThanGaps
  <2>2. QED
    BY <1>0, <2>1 DEF OneInv, HandlerInv, Grown
<1>27. CASE UNCHANGED vars
  <2>1. handler' = handler \/ handler' = None
    BY <1>27 DEF vars, cacheVars, OtherThanQueue, OtherThanGaps
  <2>2. QED
    BY <1>0, <2>1 DEF OneInv, HandlerInv, Grown
<1>28. QED
  BY <1>1, <1>2, <1>3, <1>4, <1>5, <1>6, <1>7, <1>8, <1>9, <1>10, <1>11, <1>12, <1>13, <1>14, <1>15, <1>16, <1>17, <1>18, <1>19, <1>20, <1>21, <1>22, <1>23, <1>24, <1>25, <1>26, <1>27
  DEF Next, GapFill, Chain

\* The cached offset is one that is absorbed.
LEMMA CacheStep ==
    ASSUME FirstEpoch', BaseInv, OneInv, [Next]_vars
    PROVE  StaleIsCovered'
<1>0. Grown
  BY LogStep
<1>1. ASSUME Publish PROVE StaleIsCovered'
  <2>1. lastOffsetCache' \in {lastOffsetCache, None}
    BY <1>1 DEF Publish, cacheVars, OtherThanQueue, OtherThanGaps
  <2>2. QED
    BY <1>0, <2>1 DEF OneInv, StaleIsCovered, Grown
<1>2. ASSUME Rpc PROVE StaleIsCovered'
  <2>1. lastOffsetCache' \in {lastOffsetCache, None}
    BY <1>2 DEF Rpc, cacheVars, OtherThanQueue, OtherThanGaps
  <2>2. QED
    BY <1>0, <2>1 DEF OneInv, StaleIsCovered, Grown
<1>3. ASSUME Drop PROVE StaleIsCovered'
  <2>1. lastOffsetCache' \in {lastOffsetCache, None}
    BY <1>3 DEF Drop, cacheVars, OtherThanQueue, OtherThanGaps
  <2>2. QED
    BY <1>0, <2>1 DEF OneInv, StaleIsCovered, Grown
<1>4. ASSUME NewEpoch PROVE StaleIsCovered'
  <2>1. lastOffsetCache' \in {lastOffsetCache, None}
    BY <1>4 DEF NewEpoch, cacheVars, OtherThanQueue, OtherThanGaps
  <2>2. QED
    BY <1>0, <2>1 DEF OneInv, StaleIsCovered, Grown
<1>5. ASSUME Reject PROVE StaleIsCovered'
  <2>1. lastOffsetCache' \in {lastOffsetCache, None}
    BY <1>5 DEF Reject, cacheVars, OtherThanQueue, OtherThanGaps
  <2>2. QED
    BY <1>0, <2>1 DEF OneInv, StaleIsCovered, Grown
<1>6. ASSUME Restart PROVE StaleIsCovered'
  <2>1. lastOffsetCache' \in {lastOffsetCache, None}
    BY <1>6 DEF Restart, cacheVars, OtherThanQueue, OtherThanGaps
  <2>2. QED
    BY <1>0, <2>1 DEF OneInv, StaleIsCovered, Grown
<1>7. ASSUME NEW l \in Loops, FetchHistory(l) PROVE StaleIsCovered'
  <2>1. lastOffsetCache' \in {lastOffsetCache, None}
    BY <1>7 DEF FetchHistory, cacheVars, OtherThanQueue, OtherThanGaps
  <2>2. QED
    BY <1>0, <2>1 DEF OneInv, StaleIsCovered, Grown
<1>8. ASSUME NEW l \in Loops, HistoryFails(l) PROVE StaleIsCovered'
  <2>1. lastOffsetCache' \in {lastOffsetCache, None}
    BY <1>8 DEF HistoryFails, cacheVars, OtherThanQueue, OtherThanGaps
  <2>2. QED
    BY <1>0, <2>1 DEF OneInv, StaleIsCovered, Grown
<1>9. ASSUME NEW l \in Loops, FlushUpdates(l) PROVE StaleIsCovered'
  <2>1. lastOffsetCache' \in {lastOffsetCache, None}
    BY <1>9 DEF FlushUpdates, cacheVars, OtherThanQueue, OtherThanGaps
  <2>2. QED
    BY <1>0, <2>1 DEF OneInv, StaleIsCovered, Grown
<1>10. ASSUME NEW l \in Loops, FlushAdvances(l) PROVE StaleIsCovered'
  <2>1. lastOffsetCache' \in {lastOffsetCache, None}
    BY <1>10 DEF FlushAdvances, cacheVars, OtherThanQueue, OtherThanGaps
  <2>2. QED
    BY <1>0, <2>1 DEF OneInv, StaleIsCovered, Grown
<1>11. ASSUME NEW l \in Loops, FlushSettles(l) PROVE StaleIsCovered'
  <2>1. lastOffsetCache' \in {lastOffsetCache, None}
    BY <1>11 DEF FlushSettles, cacheVars, OtherThanQueue, OtherThanGaps
  <2>2. QED
    BY <1>0, <2>1 DEF OneInv, StaleIsCovered, Grown
<1>12. ASSUME NEW l \in Loops, FlushFails(l) PROVE StaleIsCovered'
  <2>1. lastOffsetCache' \in {lastOffsetCache, None}
    BY <1>12 DEF FlushFails, cacheVars, OtherThanQueue, OtherThanGaps
  <2>2. QED
    BY <1>0, <2>1 DEF OneInv, StaleIsCovered, Grown
<1>13. ASSUME Publication PROVE StaleIsCovered'
  <2>1. lastOffsetCache' \in {lastOffsetCache, None}
    BY <1>13 DEF Publication, cacheVars, OtherThanQueue, OtherThanGaps
  <2>2. QED
    BY <1>0, <2>1 DEF OneInv, StaleIsCovered, Grown
<1>14. ASSUME NEW off \in rpcs, RpcResponse(off) PROVE StaleIsCovered'
  <2>1. lastOffsetCache' \in {lastOffsetCache, None}
    BY <1>14 DEF RpcResponse, cacheVars, OtherThanQueue, OtherThanGaps
  <2>2. QED
    BY <1>0, <2>1 DEF OneInv, StaleIsCovered, Grown
<1>15. ASSUME SkipDuplicate PROVE StaleIsCovered'
  <2>1. lastOffsetCache' \in {lastOffsetCache, Running.off} /\ covered' = covered
    BY <1>15, HeadFacts, SucceedFacts DEF SkipDuplicate, OtherThanQueue, linkVars, BaseInv, storeVars
  <2>2. 1..Running.off \subseteq covered
    <3>1. Running.off \in Nat /\ pos.off \in Nat /\ Running.off <= pos.off
      BY <1>15, HeadFacts, BoundAssumption
         DEF SkipDuplicate, Duplicate, OneInv, LogInv, Position, Update, Offset
    <3>2. QED
      BY <3>1 DEF OneInv, LogInv
  <2>3. QED
    BY <2>1, <2>2 DEF OneInv, StaleIsCovered
<1>16. ASSUME DetectGap PROVE StaleIsCovered'
  <2>1. lastOffsetCache' \in {lastOffsetCache, None}
    BY <1>16 DEF DetectGap, cacheVars, OtherThanQueue, OtherThanGaps
  <2>2. QED
    BY <1>0, <2>1 DEF OneInv, StaleIsCovered, Grown
<1>17. ASSUME AcceptUpdate PROVE StaleIsCovered'
  <2>1. lastOffsetCache' \in {lastOffsetCache, None}
    BY <1>17 DEF AcceptUpdate, cacheVars, OtherThanQueue, OtherThanGaps
  <2>2. QED
    BY <1>0, <2>1 DEF OneInv, StaleIsCovered, Grown
<1>18. ASSUME GapFilled PROVE StaleIsCovered'
  <2>1. lastOffsetCache' \in {lastOffsetCache, None}
    BY <1>18 DEF GapFilled, cacheVars, OtherThanQueue, OtherThanGaps
  <2>2. QED
    BY <1>0, <2>1 DEF OneInv, StaleIsCovered, Grown
<1>19. ASSUME WaitFails PROVE StaleIsCovered'
  <2>1. lastOffsetCache' \in {lastOffsetCache, None}
    BY <1>19 DEF Fail, WaitFails, cacheVars, OtherThanQueue, OtherThanGaps
  <2>2. QED
    BY <1>0, <2>1 DEF OneInv, StaleIsCovered, Grown
<1>20. ASSUME ApplyUpdate PROVE StaleIsCovered'
  <2>1. lastOffsetCache' \in {lastOffsetCache, None}
    BY <1>20 DEF ApplyUpdate, cacheVars, OtherThanQueue, OtherThanGaps
  <2>2. QED
    BY <1>0, <2>1 DEF OneInv, StaleIsCovered, Grown
<1>21. ASSUME AdvancePosition PROVE StaleIsCovered'
  <2>1. lastOffsetCache' \in {lastOffsetCache, Running.off}
    BY <1>21, HeadFacts, SucceedFacts DEF AdvancePosition, OtherThanQueue, linkVars, BaseInv
  <2>2. 1..Running.off \subseteq covered
    BY <1>21, NextFacts DEF AdvancePosition
  <2>3. QED
    BY <1>0, <2>1, <2>2 DEF OneInv, StaleIsCovered, Grown
<1>22. ASSUME UpdateFails PROVE StaleIsCovered'
  <2>1. lastOffsetCache' \in {lastOffsetCache, None}
    BY <1>22 DEF Fail, UpdateFails, cacheVars, OtherThanQueue, OtherThanGaps
  <2>2. QED
    BY <1>0, <2>1 DEF OneInv, StaleIsCovered, Grown
<1>23. ASSUME Connected PROVE StaleIsCovered'
  <2>1. lastOffsetCache' \in {lastOffsetCache, None}
    BY <1>23 DEF Connected, cacheVars, OtherThanQueue, OtherThanGaps
  <2>2. QED
    BY <1>0, <2>1 DEF OneInv, StaleIsCovered, Grown
<1>24. ASSUME SubscribedEvent PROVE StaleIsCovered'
  <2>1. lastOffsetCache' \in {lastOffsetCache, None}
    BY <1>24 DEF SubscribedEvent, cacheVars, OtherThanQueue, OtherThanGaps
  <2>2. QED
    BY <1>0, <2>1 DEF OneInv, StaleIsCovered, Grown
<1>25. ASSUME SubscribedHandler PROVE StaleIsCovered'
  <2>1. lastOffsetCache' = LocalOffset(handler) /\ handler # None
    BY <1>25 DEF SubscribedHandler
  <2>2. QED
    BY <1>0, <2>1, LocalFacts DEF StaleIsCovered, Grown
<1>26. ASSUME Reconnect PROVE StaleIsCovered'
  <2>1. lastOffsetCache' \in {lastOffsetCache, None}
    BY <1>26 DEF Reconnect, cacheVars, OtherThanQueue, OtherThanGaps
  <2>2. QED
    BY <1>0, <2>1 DEF OneInv, StaleIsCovered, Grown
<1>27. CASE UNCHANGED vars
  <2>1. lastOffsetCache' \in {lastOffsetCache, None}
    BY <1>27 DEF vars, cacheVars, OtherThanQueue, OtherThanGaps
  <2>2. QED
    BY <1>0, <2>1 DEF OneInv, StaleIsCovered, Grown
<1>28. QED
  BY <1>1, <1>2, <1>3, <1>4, <1>5, <1>6, <1>7, <1>8, <1>9, <1>10, <1>11, <1>12, <1>13, <1>14, <1>15, <1>16, <1>17, <1>18, <1>19, <1>20, <1>21, <1>22, <1>23, <1>24, <1>25, <1>26, <1>27
  DEF Next, GapFill, Chain

\* A loop that moves from a position which is absorbed stays sound.
LEMMA MovedSound ==
    ASSUME Grown, LoopsSound, NEW p \in Position,
           p.off \in 0..head', 1..p.off \subseteq covered',
           \A l \in Loops : Moved(loops[l], loops'[l], p)
    PROVE  LoopsSound'
<1> SUFFICES ASSUME NEW l \in Loops PROVE Sound(loops[l])'
  BY DEF LoopsSound
<1>1. CASE loops'[l] = loops[l]
  BY <1>1 DEF LoopsSound, Sound, Grown
<1>2. CASE loops'[l].pc = "idle"
  BY <1>2 DEF Sound
<1>3. CASE loops'[l].pc = "fetch" /\ loops'[l].start = p.off /\ loops'[l].cur = p.off
  BY <1>3 DEF Sound, Position, Offset
<1>4. QED
  BY <1>1, <1>2, <1>3 DEF Moved

\* So does one that goes on by itself.
LEMMA OneSound ==
    ASSUME Grown, LoopsSound, NEW l \in Loops, Sound(loops[l])',
           \A k \in Loops : k # l => loops'[k] = loops[k]
    PROVE  LoopsSound'
<1> SUFFICES ASSUME NEW k \in Loops PROVE Sound(loops[k])'
  BY DEF LoopsSound
<1>1. CASE k = l
  BY <1>1
<1>2. CASE k # l
  <2>1. loops'[k] = loops[k]
    BY <1>2
  <2>2. QED
    BY <2>1 DEF LoopsSound, Sound, Grown
<1>3. QED
  BY <1>1, <1>2

\* The loops that end go on from the position, which has not moved.
LEMMA EndsSound ==
    ASSUME BaseInv, OneInv, Grown, NEW l \in Loops, RunEnds(l), UNCHANGED <<pos, covered, head>>
    PROVE  LoopsSound'
<1>1. pos # None /\ pos \in Position
  BY NoneAssumption DEF OneInv, LogInv
<1>2. \A k \in Loops : Moved(loops[k], loops'[k], pos)
  BY <1>1, RunEndsFacts DEF BaseInv, GapInv
<1>3. QED
  BY <1>1, <1>2, MovedSound DEF OneInv, LogInv

\* A gap fill starts from what is absorbed, and counts as done what it has written.
LEMMA LoopStep ==
    ASSUME FirstEpoch', BaseInv, OneInv, [Next]_vars
    PROVE  LoopsSound'
<1>0. Grown /\ LogInv'
  BY LogStep
<1>1. ASSUME Publish PROVE LoopsSound'
  <2>1. UNCHANGED loops
    BY <1>1 DEF Publish, gapVars
  <2>2. QED
    BY <1>0, <2>1 DEF OneInv, LoopsSound, Sound, Grown
<1>2. ASSUME Rpc PROVE LoopsSound'
  <2>1. UNCHANGED loops
    BY <1>2 DEF Rpc, gapVars
  <2>2. QED
    BY <1>0, <2>1 DEF OneInv, LoopsSound, Sound, Grown
<1>3. ASSUME Drop PROVE LoopsSound'
  <2>1. UNCHANGED loops
    BY <1>3 DEF Drop, gapVars
  <2>2. QED
    BY <1>0, <2>1 DEF OneInv, LoopsSound, Sound, Grown
<1>4. ASSUME NewEpoch PROVE LoopsSound'
  <2>1. UNCHANGED loops
    BY <1>4 DEF NewEpoch, gapVars
  <2>2. QED
    BY <1>0, <2>1 DEF OneInv, LoopsSound, Sound, Grown
<1>5. ASSUME Reject PROVE LoopsSound'
  <2>1. UNCHANGED loops
    BY <1>5 DEF Reject, gapVars
  <2>2. QED
    BY <1>0, <2>1 DEF OneInv, LoopsSound, Sound, Grown
<1>6. ASSUME Restart PROVE LoopsSound'
  <2>1. \A l \in Loops : loops'[l].pc = "idle"
    BY <1>6, IdleFacts DEF Restart
  <2>2. QED
    BY <2>1 DEF LoopsSound, Sound
<1>7. ASSUME NEW l \in Loops, FetchHistory(l) PROVE LoopsSound'
  <2>1. /\ loops'[l].pc \in {"fetch", "flush"} /\ loops'[l].start = loops[l].start
        /\ loops'[l].cur <= head /\ loops'[l].from = 1 /\ loops[l].pc = "fetch"
        /\ loops'[l] \in Loop
        /\ \A k \in Loops : k # l => loops'[k] = loops[k]
    BY <1>7, FetchFacts DEF BaseInv, OneInv, LogInv, GapType
  <2>2. loops'[l].cur \in 0..head
    BY <2>1, BoundAssumption DEF Loop, Offset, BaseInv, Types, ServerType
  <2>3. 1..loops[l].start \subseteq covered
    BY <2>1 DEF OneInv, LoopsSound, Sound
  <2>4. Sound(loops[l])'
    BY <1>0, <2>1, <2>2, <2>3 DEF Sound, Grown
  <2>5. QED
    BY <1>0, <2>1, <2>4, OneSound DEF OneInv
<1>8. ASSUME NEW l \in Loops, HistoryFails(l) PROVE LoopsSound'
  <2>1. UNCHANGED <<pos, covered, head>>
    BY <1>8 DEF HistoryFails, OtherThanGaps, storeVars, serverVars
  <2>2. CASE RunEnds(l)
    BY <1>0, <2>1, <2>2, EndsSound
  <2>3. CASE ~RunEnds(l)
    <3>1. /\ loops'[l].pc = "flush" /\ loops'[l].start = loops[l].start
          /\ loops'[l].cur = loops[l].cur /\ loops'[l].from = loops[l].from
          /\ \A k \in Loops : k # l => loops'[k] = loops[k]
          /\ loops[l].pc # "idle"
      BY <1>8, <2>3, ErrorFacts DEF BaseInv
    <3>2. Sound(loops[l])'
      BY <1>0, <3>1 DEF OneInv, LoopsSound, Sound, Grown
    <3>3. QED
      BY <1>0, <3>1, <3>2, OneSound DEF OneInv
  <2>4. QED
    BY <2>2, <2>3
<1>9. ASSUME NEW l \in Loops, FlushUpdates(l) PROVE LoopsSound'
  <2>1. loops[l].pc = "flush" /\ GoTo(l, "advance")
        /\ UNCHANGED <<head, epoch>> /\ Absorb(Fetched(l), loops[l].from)
    BY <1>9 DEF FlushUpdates, OtherThanGaps, serverVars
  <2>2. /\ loops'[l].pc = "advance" /\ loops'[l].start = loops[l].start
        /\ loops'[l].cur = loops[l].cur /\ loops'[l].from = loops[l].from
        /\ \A k \in Loops : k # l => loops'[k] = loops[k]
    BY <2>1, GoToFacts DEF BaseInv
  <2>3. /\ 1..loops[l].start \subseteq covered /\ loops[l].cur \in 0..head
        /\ loops[l].start < loops[l].cur /\ loops[l].from = 1
        /\ loops[l].start \in Nat /\ loops[l].cur \in Nat
    BY <2>1, BoundAssumption
       DEF OneInv, LoopsSound, Sound, BaseInv, GapInv, LoopsShaped, Shaped, Types, GapType, Loop,
           Offset
  <2>4. covered' = covered \cup Fetched(l)
    BY <2>1, <2>3, FetchedFacts, AbsorbFacts DEF OneInv, LogInv, BaseInv
  <2>5. 1..loops[l].cur \subseteq covered'
    BY <2>3, <2>4 DEF Fetched
  <2>6. Sound(loops[l])'
    BY <1>0, <2>2, <2>3, <2>5 DEF Sound, Grown
  <2>7. QED
    BY <1>0, <2>2, <2>6, OneSound DEF OneInv
<1>10. ASSUME NEW l \in Loops, FlushAdvances(l) PROVE LoopsSound'
  <2>1. loops[l].pc = "advance" /\ GoTo(l, "settle")
    BY <1>10 DEF FlushAdvances
  <2>2. /\ loops'[l].pc = "settle" /\ loops'[l].start = loops[l].start
        /\ loops'[l].cur = loops[l].cur /\ loops'[l].from = loops[l].from
        /\ \A k \in Loops : k # l => loops'[k] = loops[k]
    BY <2>1, GoToFacts DEF BaseInv
  <2>3. Sound(loops[l])'
    BY <1>0, <2>1, <2>2 DEF OneInv, LoopsSound, Sound, Grown
  <2>4. QED
    BY <1>0, <2>2, <2>3, OneSound DEF OneInv
<1>11. ASSUME NEW l \in Loops, FlushSettles(l) PROVE LoopsSound'
  <2>1. loops[l].pc = "settle" /\ UNCHANGED <<pos, covered, head>>
    BY <1>11 DEF FlushSettles, OtherThanGaps, storeVars, serverVars
  <2>2. CASE RunEnds(l)
    BY <1>0, <2>1, <2>2, EndsSound
  <2>3. CASE ~RunEnds(l)
    <3>1. /\ loops'[l].pc = "fetch" /\ loops'[l].start = loops[l].cur
          /\ loops'[l].cur = loops[l].cur
          /\ \A k \in Loops : k # l => loops'[k] = loops[k]
      BY <1>11, <2>3, SettleFacts DEF BaseInv
    <3>2. 1..loops[l].cur \subseteq covered /\ loops[l].cur \in 0..head
      BY <2>1 DEF OneInv, LoopsSound, Sound
    <3>3. Sound(loops[l])'
      BY <1>0, <3>1, <3>2 DEF Sound, Grown
    <3>4. QED
      BY <1>0, <3>1, <3>3, OneSound DEF OneInv
  <2>4. QED
    BY <2>2, <2>3
<1>12. ASSUME NEW l \in Loops, FlushFails(l) PROVE LoopsSound'
  <2>1. UNCHANGED <<pos, covered, head>>
    BY <1>12 DEF FlushFails, OtherThanGaps, storeVars, serverVars
  <2>2. CASE RunEnds(l)
    BY <1>0, <2>1, <2>2, EndsSound
  <2>3. CASE ~RunEnds(l)
    <3>1. /\ loops'[l].pc = "flush" /\ loops'[l].start = loops[l].start
          /\ loops'[l].cur = loops[l].cur /\ loops'[l].from = loops[l].from
          /\ \A k \in Loops : k # l => loops'[k] = loops[k]
          /\ loops[l].pc # "idle"
      BY <1>12, <2>3, ErrorFacts DEF BaseInv
    <3>2. Sound(loops[l])'
      BY <1>0, <3>1 DEF OneInv, LoopsSound, Sound, Grown
    <3>3. QED
      BY <1>0, <3>1, <3>2, OneSound DEF OneInv
  <2>4. QED
    BY <2>2, <2>3
<1>13. ASSUME Publication PROVE LoopsSound'
  <2>1. UNCHANGED loops
    BY <1>13 DEF Publication, gapVars
  <2>2. QED
    BY <1>0, <2>1 DEF OneInv, LoopsSound, Sound, Grown
<1>14. ASSUME NEW off \in rpcs, RpcResponse(off) PROVE LoopsSound'
  <2>1. UNCHANGED loops
    BY <1>14 DEF RpcResponse, gapVars
  <2>2. QED
    BY <1>0, <2>1 DEF OneInv, LoopsSound, Sound, Grown
<1>15. ASSUME SkipDuplicate PROVE LoopsSound'
  <2>1. UNCHANGED loops
    BY <1>15 DEF SkipDuplicate, gapVars
  <2>2. QED
    BY <1>0, <2>1 DEF OneInv, LoopsSound, Sound, Grown
<1>16. ASSUME DetectGap PROVE LoopsSound'
  <2>1. /\ pos \in Position /\ pos.ep \in Epoch /\ Running.off \in 0..(MaxHead + 1)
        /\ UNCHANGED <<pos, covered, head>>
    BY <1>16, HeadFacts, BoundAssumption
       DEF DetectGap, OneInv, LogInv, Position, Update, Offset, storeVars, serverVars
  <2>2. \A l \in Loops : Moved(loops[l], loops'[l], pos)
    BY <1>16, <2>1, ScheduleFacts DEF DetectGap, BaseInv, GapInv
  <2>3. QED
    BY <1>0, <2>1, <2>2, MovedSound DEF OneInv, LogInv
<1>17. ASSUME AcceptUpdate PROVE LoopsSound'
  <2>1. UNCHANGED loops
    BY <1>17 DEF AcceptUpdate, gapVars
  <2>2. QED
    BY <1>0, <2>1 DEF OneInv, LoopsSound, Sound, Grown
<1>18. ASSUME GapFilled PROVE LoopsSound'
  <2>1. UNCHANGED loops
    BY <1>18 DEF GapFilled, gapVars
  <2>2. QED
    BY <1>0, <2>1 DEF OneInv, LoopsSound, Sound, Grown
<1>19. ASSUME WaitFails PROVE LoopsSound'
  <2>1. UNCHANGED loops
    BY <1>19 DEF WaitFails, gapVars
  <2>2. QED
    BY <1>0, <2>1 DEF OneInv, LoopsSound, Sound, Grown
<1>20. ASSUME ApplyUpdate PROVE LoopsSound'
  <2>1. UNCHANGED loops
    BY <1>20 DEF ApplyUpdate, gapVars
  <2>2. QED
    BY <1>0, <2>1 DEF OneInv, LoopsSound, Sound, Grown
<1>21. ASSUME AdvancePosition PROVE LoopsSound'
  <2>1. UNCHANGED loops
    BY <1>21 DEF AdvancePosition, gapVars
  <2>2. QED
    BY <1>0, <2>1 DEF OneInv, LoopsSound, Sound, Grown
<1>22. ASSUME UpdateFails PROVE LoopsSound'
  <2>1. UNCHANGED loops
    BY <1>22 DEF UpdateFails, gapVars
  <2>2. QED
    BY <1>0, <2>1 DEF OneInv, LoopsSound, Sound, Grown
<1>23. ASSUME Connected PROVE LoopsSound'
  <2>1. UNCHANGED loops
    BY <1>23 DEF Connected, gapVars
  <2>2. QED
    BY <1>0, <2>1 DEF OneInv, LoopsSound, Sound, Grown
<1>24. ASSUME SubscribedEvent PROVE LoopsSound'
  <2>1. UNCHANGED loops
    BY <1>24 DEF SubscribedEvent, gapVars
  <2>2. QED
    BY <1>0, <2>1 DEF OneInv, LoopsSound, Sound, Grown
<1>25. ASSUME SubscribedHandler PROVE LoopsSound'
  <2>1. CASE UNCHANGED gapVars
    BY <1>0, <2>1 DEF gapVars, OneInv, LoopsSound, Sound, Grown
  <2>2. CASE ScheduleGapFill(pos', FillTarget(handler.off), handler.ep)
    <3>1. /\ pos' \in Position /\ handler.ep \in Epoch
          /\ FillTarget(handler.off) \in 0..(MaxHead + 1)
      BY <1>25, HandlerFacts DEF BaseInv
    <3>2. \A l \in Loops : Moved(loops[l], loops'[l], pos')
      BY <2>2, <3>1, ScheduleFacts DEF BaseInv, GapInv
    <3>3. pos'.off \in 0..head' /\ 1..pos'.off \subseteq covered'
      BY <1>0 DEF LogInv
    <3> DEFINE p == pos'
    <3>4. p \in Position /\ p.off \in 0..head' /\ 1..p.off \subseteq covered'
          /\ \A l \in Loops : Moved(loops[l], loops'[l], p)
      BY <3>1, <3>2, <3>3
    <3> HIDE DEF p
    <3>5. QED
      BY <1>0, <3>4, MovedSound DEF OneInv
  <2>3. QED
    BY <1>25, <2>1, <2>2 DEF SubscribedHandler
<1>26. ASSUME Reconnect PROVE LoopsSound'
  <2>1. \A l \in Loops : \/ loops'[l] = loops[l]
                         \/ loops'[l] = [loops[l] EXCEPT !.live = FALSE]
    BY <1>26 DEF Reconnect, gapVars
  <2>2. \A l \in Loops :
            /\ loops'[l].pc = loops[l].pc /\ loops'[l].start = loops[l].start
            /\ loops'[l].cur = loops[l].cur /\ loops'[l].from = loops[l].from
    <3>1. \A l \in Loops : loops[l] \in Loop
      BY DEF BaseInv, Types, GapType
    <3>2. QED
      BY <2>1, <3>1, LeftBehind
  <2>3. QED
    BY <1>0, <2>2 DEF OneInv, LoopsSound, Sound, Grown
<1>27. CASE UNCHANGED vars
  <2>1. UNCHANGED loops
    BY <1>27 DEF vars, gapVars
  <2>2. QED
    BY <1>0, <2>1 DEF OneInv, LoopsSound, Sound, Grown
<1>28. QED
  BY <1>1, <1>2, <1>3, <1>4, <1>5, <1>6, <1>7, <1>8, <1>9, <1>10, <1>11, <1>12, <1>13, <1>14, <1>15, <1>16, <1>17, <1>18, <1>19, <1>20, <1>21, <1>22, <1>23, <1>24, <1>25, <1>26, <1>27
  DEF Next, GapFill, Chain

\* Nothing new is on its way, and the chain is where it was.
LEMMA ChainSame ==
    ASSUME ChainInv, Grown, UNCHANGED queueVars, rpcs' \subseteq 1..head',
           subscribed' => wire' >= 1
    PROVE  ChainInv'
BY DEF ChainInv, Grown, queueVars, Queued, Running

\* The chain is between two updates.
LEMMA ChainBetween ==
    ASSUME ChainInv, Grown, Queued' \subseteq Queued, rpcs' \subseteq 1..head',
           subscribed' => wire' >= 1, stage' \in {"start", "wait"}
    PROVE  ChainInv'
BY DEF ChainInv, Grown

\* An update of the log joins; the head of the chain stays.
LEMMA ChainJoined ==
    ASSUME BaseInv, ChainInv, Grown, KeepsHead, stage' = stage,
           NEW u, u.off \in 1..head', u.ep = 1, Queued' \subseteq Queued \cup {u},
           rpcs' \subseteq 1..head', subscribed' => wire' >= 1
    PROVE  ChainInv'
<1>1. \A x \in Queued' : x.off \in 1..head' /\ x.ep = 1
  BY DEF ChainInv, Grown
<1>2. CASE applyUpdatesQueue = <<>>
  <2>1. stage' = "start"
    BY <1>2 DEF BaseInv, QueueInv, EmptyStarts
  <2>2. QED
    BY <1>1, <2>1 DEF ChainInv
<1>3. CASE applyUpdatesQueue # <<>>
  <2>1. Running' = Running
    BY <1>3 DEF KeepsHead, Running
  <2>2. QED
    BY <1>1, <2>1 DEF ChainInv, Grown
<1>4. QED
  BY <1>2, <1>3

\* What is on its way belongs to the log, and the chain works on the next update.
LEMMA ChainStep ==
    ASSUME FirstEpoch', BaseInv, OneInv, [Next]_vars
    PROVE  ChainInv'
<1>0. Grown /\ ChainInv
  BY LogStep DEF OneInv
<1>1. ASSUME Publish PROVE ChainInv'
  <2>1. UNCHANGED queueVars /\ rpcs' \subseteq rpcs /\ (subscribed' => subscribed /\ wire' = wire)
    BY <1>1 DEF Publish, OtherThanGaps, linkVars, serverVars
  <2>2. QED
    BY <1>0, <2>1, ChainSame DEF ChainInv, Grown
<1>2. ASSUME Rpc PROVE ChainInv'
  <2>1. /\ UNCHANGED queueVars /\ rpcs' = rpcs \cup {head + 1} /\ head' = head + 1
        /\ UNCHANGED linkVars
    BY <1>2 DEF Rpc
  <2>2. head + 1 \in 1..head'
    BY <2>1, BoundAssumption DEF BaseInv, Types, ServerType, Offset
  <2>3. rpcs' \subseteq 1..head' /\ (subscribed' => wire' >= 1)
    BY <1>0, <2>1, <2>2 DEF ChainInv, Grown, linkVars
  <2>4. QED
    BY <1>0, <2>1, <2>3, ChainSame
<1>3. ASSUME Drop PROVE ChainInv'
  <2>1. UNCHANGED queueVars /\ rpcs' \subseteq rpcs /\ (subscribed' => subscribed /\ wire' = wire)
    BY <1>3 DEF Drop, OtherThanGaps, linkVars, serverVars
  <2>2. QED
    BY <1>0, <2>1, ChainSame DEF ChainInv, Grown
<1>4. ASSUME NewEpoch PROVE ChainInv'
  <2>1. UNCHANGED queueVars /\ rpcs' \subseteq rpcs /\ (subscribed' => subscribed /\ wire' = wire)
    BY <1>4 DEF NewEpoch, OtherThanGaps, linkVars, serverVars
  <2>2. QED
    BY <1>0, <2>1, ChainSame DEF ChainInv, Grown
<1>5. ASSUME Reject PROVE ChainInv'
  <2>1. UNCHANGED queueVars /\ rpcs' \subseteq rpcs /\ (subscribed' => subscribed /\ wire' = wire)
    BY <1>5 DEF Reject, OtherThanGaps, linkVars, serverVars
  <2>2. QED
    BY <1>0, <2>1, ChainSame DEF ChainInv, Grown
<1>6. ASSUME Restart PROVE ChainInv'
  <2>1. /\ pendingUpdates' = <<>> /\ applyUpdatesQueue' = <<>> /\ stage' = "start"
        /\ rpcs' = {} /\ subscribed' = FALSE
    BY <1>6 DEF Restart
  <2>2. Queued' = {}
    BY <2>1, NoElements DEF Queued
  <2>3. QED
    BY <1>0, <2>1, <2>2, ChainBetween
<1>7. ASSUME NEW l \in Loops, FetchHistory(l) PROVE ChainInv'
  <2>1. UNCHANGED queueVars /\ rpcs' \subseteq rpcs /\ (subscribed' => subscribed /\ wire' = wire)
    BY <1>7 DEF FetchHistory, OtherThanGaps, linkVars, serverVars
  <2>2. QED
    BY <1>0, <2>1, ChainSame DEF ChainInv, Grown
<1>8. ASSUME NEW l \in Loops, HistoryFails(l) PROVE ChainInv'
  <2>1. UNCHANGED queueVars /\ rpcs' \subseteq rpcs /\ (subscribed' => subscribed /\ wire' = wire)
    BY <1>8 DEF HistoryFails, OtherThanGaps, linkVars, serverVars
  <2>2. QED
    BY <1>0, <2>1, ChainSame DEF ChainInv, Grown
<1>9. ASSUME NEW l \in Loops, FlushUpdates(l) PROVE ChainInv'
  <2>1. UNCHANGED queueVars /\ rpcs' \subseteq rpcs /\ (subscribed' => subscribed /\ wire' = wire)
    BY <1>9 DEF FlushUpdates, OtherThanGaps, linkVars, serverVars
  <2>2. QED
    BY <1>0, <2>1, ChainSame DEF ChainInv, Grown
<1>10. ASSUME NEW l \in Loops, FlushAdvances(l) PROVE ChainInv'
  <2>1. UNCHANGED queueVars /\ rpcs' \subseteq rpcs /\ (subscribed' => subscribed /\ wire' = wire)
    BY <1>10 DEF FlushAdvances, OtherThanGaps, linkVars, serverVars
  <2>2. QED
    BY <1>0, <2>1, ChainSame DEF ChainInv, Grown
<1>11. ASSUME NEW l \in Loops, FlushSettles(l) PROVE ChainInv'
  <2>1. UNCHANGED queueVars /\ rpcs' \subseteq rpcs /\ (subscribed' => subscribed /\ wire' = wire)
    BY <1>11 DEF FlushSettles, OtherThanGaps, linkVars, serverVars
  <2>2. QED
    BY <1>0, <2>1, ChainSame DEF ChainInv, Grown
<1>12. ASSUME NEW l \in Loops, FlushFails(l) PROVE ChainInv'
  <2>1. UNCHANGED queueVars /\ rpcs' \subseteq rpcs /\ (subscribed' => subscribed /\ wire' = wire)
    BY <1>12 DEF FlushFails, OtherThanGaps, linkVars, serverVars
  <2>2. QED
    BY <1>0, <2>1, ChainSame DEF ChainInv, Grown
<1>13. ASSUME Publication PROVE ChainInv'
  <2>1. /\ wire <= head /\ wire >= 1 /\ wire' = wire + 1 /\ UNCHANGED <<head, rpcs, stage>>
    BY <1>13, <1>0 DEF Publication, ChainInv, serverVars
  <2>2. wire \in 1..head' /\ wire' >= 1
    BY <2>1, BoundAssumption DEF BaseInv, Types, ServerType, LinkType, Offset
  <2> DEFINE u == [src |-> "pub", off |-> wire, ep |-> epoch]
  <2>3. u.off \in 1..head' /\ u.ep = 1
    BY <2>2 DEF OneInv, LogInv
  <2>4. Queued' \subseteq Queued \cup {u} /\ KeepsHead
    BY <1>13, PublicationFacts DEF BaseInv
  <2> HIDE DEF u
  <2>5. QED
    BY <1>0, <2>1, <2>2, <2>3, <2>4, ChainJoined DEF ChainInv
<1>14. ASSUME NEW off \in rpcs, RpcResponse(off) PROVE ChainInv'
  <2>1. /\ off \in 1..head /\ rpcs' \subseteq rpcs /\ UNCHANGED <<head, stage, subscribed, wire>>
    BY <1>14, <1>0 DEF RpcResponse, ChainInv, linkVars
  <2> DEFINE u == [src |-> "rpc", off |-> off, ep |-> epoch]
  <2>2. u.off \in 1..head' /\ u.ep = 1
    BY <2>1 DEF OneInv, LogInv
  <2>3. Queued' \subseteq Queued \cup {u} /\ KeepsHead
    BY <1>14, ResponseFacts DEF BaseInv
  <2> HIDE DEF u
  <2>4. QED
    BY <1>0, <2>1, <2>2, <2>3, ChainJoined DEF ChainInv
<1>15. ASSUME SkipDuplicate PROVE ChainInv'
  <2>1. Queued' \subseteq Queued /\ stage' = "start"
    BY <1>15, HeadFacts, SucceedFacts DEF SkipDuplicate, OtherThanQueue, linkVars, BaseInv
  <2>2. UNCHANGED <<head, rpcs, subscribed, wire>>
    BY <1>15 DEF SkipDuplicate, OtherThanQueue, serverVars, linkVars
  <2>3. QED
    BY <1>0, <2>1, <2>2, ChainBetween DEF ChainInv
<1>16. ASSUME DetectGap PROVE ChainInv'
  <2>1. /\ stage' = "wait" /\ UNCHANGED <<pendingUpdates, applyUpdatesQueue>>
        /\ UNCHANGED <<head, rpcs, subscribed, wire>>
    BY <1>16 DEF DetectGap, serverVars, linkVars
  <2>2. QED
    BY <1>0, <2>1, ChainBetween DEF ChainInv, Queued
<1>17. ASSUME AcceptUpdate PROVE ChainInv'
  <2>1. /\ stage' = "apply" /\ UNCHANGED <<pendingUpdates, applyUpdatesQueue>>
        /\ UNCHANGED <<head, rpcs, subscribed, wire, covered>>
    BY <1>17 DEF AcceptUpdate, serverVars, linkVars, storeVars
  <2>2. pos.off = Running.off - 1
    <3>1. Running.off \in Nat /\ pos.off \in Nat
      BY <1>17, HeadFacts, BoundAssumption
         DEF AcceptUpdate, OneInv, LogInv, Position, Update, Offset
    <3>2. QED
      BY <1>17, <3>1, NoneAssumption DEF AcceptUpdate, Duplicate, Ahead, OneInv, LogInv
  <2>3. 1..(Running.off - 1) \subseteq covered
    BY <2>2 DEF OneInv, LogInv
  <2>4. QED
    BY <1>0, <2>1, <2>3 DEF ChainInv, Queued, Running
<1>18. ASSUME GapFilled PROVE ChainInv'
  <2>1. /\ stage' = "apply" /\ UNCHANGED <<pendingUpdates, applyUpdatesQueue>>
        /\ UNCHANGED <<head, rpcs, subscribed, wire, covered>>
    BY <1>18 DEF GapFilled, serverVars, linkVars, storeVars
  <2>2. pos.off = Running.off - 1
    BY <1>18 DEF GapFilled, FilledExactly
  <2>3. 1..(Running.off - 1) \subseteq covered
    BY <2>2 DEF OneInv, LogInv
  <2>4. QED
    BY <1>0, <2>1, <2>3 DEF ChainInv, Queued, Running
<1>19. ASSUME WaitFails PROVE ChainInv'
  <2>1. /\ Queued' \subseteq Queued /\ stage' = "start" /\ rpcs' \subseteq rpcs
        /\ (subscribed' => subscribed) /\ UNCHANGED <<head, wire>>
    BY <1>19, FailFacts DEF WaitFails, Fail, BaseInv
  <2>2. QED
    BY <1>0, <2>1, ChainBetween DEF ChainInv
<1>20. ASSUME ApplyUpdate PROVE ChainInv'
  <2>1. /\ stage' = "advance" /\ UNCHANGED <<pendingUpdates, applyUpdatesQueue>>
        /\ UNCHANGED <<head, rpcs, subscribed, wire>>
        /\ Runs("apply") /\ Absorb({Running.off}, Running.ep)
    BY <1>20 DEF ApplyUpdate, serverVars, linkVars
  <2>2. covered' = covered \cup {Running.off}
    BY <2>1, RunningFacts, HeadFacts, AbsorbFacts DEF OneInv, LogInv, BaseInv
  <2>3. 1..(Running.off - 1) \subseteq covered
    BY <1>0, <2>1 DEF Runs, ChainInv
  <2>4. QED
    BY <1>0, <2>1, <2>2, <2>3 DEF ChainInv, Queued, Running
<1>21. ASSUME AdvancePosition PROVE ChainInv'
  <2>1. Queued' \subseteq Queued /\ stage' = "start"
    BY <1>21, HeadFacts, SucceedFacts DEF AdvancePosition, OtherThanQueue, linkVars, BaseInv
  <2>2. UNCHANGED <<head, rpcs, subscribed, wire>>
    BY <1>21 DEF AdvancePosition, OtherThanQueue, serverVars, linkVars
  <2>3. QED
    BY <1>0, <2>1, <2>2, ChainBetween DEF ChainInv
<1>22. ASSUME UpdateFails PROVE ChainInv'
  <2>1. /\ Queued' \subseteq Queued /\ stage' = "start" /\ rpcs' \subseteq rpcs
        /\ (subscribed' => subscribed) /\ UNCHANGED <<head, wire>>
    BY <1>22, FailFacts DEF UpdateFails, Fail, BaseInv
  <2>2. QED
    BY <1>0, <2>1, ChainBetween DEF ChainInv
<1>23. ASSUME Connected PROVE ChainInv'
  <2>1. UNCHANGED queueVars /\ rpcs' \subseteq rpcs /\ (subscribed' => subscribed /\ wire' = wire)
    BY <1>23 DEF Connected, OtherThanGaps, linkVars, serverVars
  <2>2. QED
    BY <1>0, <2>1, ChainSame DEF ChainInv, Grown
<1>24. ASSUME SubscribedEvent PROVE ChainInv'
  <2>1. UNCHANGED queueVars /\ UNCHANGED serverVars
        /\ (wire' = head + 1 \/ (wire > 0 /\ wire' = wire))
    BY <1>24 DEF SubscribedEvent
  <2>2. wire' >= 1
    BY <2>1, BoundAssumption DEF BaseInv, Types, ServerType, LinkType, Offset
  <2>3. QED
    BY <1>0, <2>1, <2>2, ChainSame DEF ChainInv, serverVars
<1>25. ASSUME SubscribedHandler PROVE ChainInv'
  <2>1. UNCHANGED queueVars /\ rpcs' \subseteq rpcs /\ (subscribed' => subscribed /\ wire' = wire)
    BY <1>25 DEF SubscribedHandler, OtherThanGaps, linkVars, serverVars
  <2>2. QED
    BY <1>0, <2>1, ChainSame DEF ChainInv, Grown
<1>26. ASSUME Reconnect PROVE ChainInv'
  <2>1. CASE link # "off"
    BY <1>26, <2>1 DEF BaseInv, QueueInv, TimerIsOff, Reconnect
  <2>2. CASE link = "off"
    <3>1. /\ pendingUpdates' = <<>> /\ rpcs' = {} /\ subscribed' = FALSE
          /\ \/ applyUpdatesQueue' = <<>> /\ stage' = "start"
             \/ applyUpdatesQueue' = applyUpdatesQueue /\ stage' = stage
      BY <1>26, <2>2 DEF Reconnect
    <3>2. Elements(pendingUpdates') = {}
      BY <3>1, NoElements
    <3>3. CASE applyUpdatesQueue' = <<>> /\ stage' = "start"
      <4>1. Queued' = {}
        BY <3>2, <3>3, NoElements DEF Queued
      <4>2. QED
        BY <1>0, <3>1, <3>3, <4>1, ChainBetween
    <3>4. CASE applyUpdatesQueue' = applyUpdatesQueue /\ stage' = stage
      BY <1>0, <3>1, <3>2, <3>4 DEF ChainInv, Grown, Queued, Running
    <3>5. QED
      BY <3>1, <3>3, <3>4
  <2>3. QED
    BY <2>1, <2>2
<1>27. CASE UNCHANGED vars
  <2>1. UNCHANGED queueVars /\ rpcs' \subseteq rpcs /\ (subscribed' => subscribed /\ wire' = wire)
    BY <1>27 DEF vars, OtherThanGaps, linkVars, serverVars
  <2>2. QED
    BY <1>0, <2>1, ChainSame DEF ChainInv, Grown
<1>28. QED
  BY <1>1, <1>2, <1>3, <1>4, <1>5, <1>6, <1>7, <1>8, <1>9, <1>10, <1>11, <1>12, <1>13, <1>14, <1>15, <1>16, <1>17, <1>18, <1>19, <1>20, <1>21, <1>22, <1>23, <1>24, <1>25, <1>26, <1>27
  DEF Next, GapFill, Chain

-----------------------------------------------------------------------------

LEMMA OneInit == Known /\ Init => OneInv
<1> SUFFICES ASSUME Known, Init PROVE OneInv
  OBVIOUS
<1>1. PICK n \in 0..head : pos = [off |-> n, ep |-> 1] /\ covered = 1..n
  BY DEF Init, Known
<1>2. head \in Nat /\ n \in Offset /\ 1 \in Epoch
  BY BoundAssumption DEF Init, Offset, Epoch
<1>3. LogInv
  BY <1>1, <1>2 DEF Init, LogInv, Position
<1>4. HandlerInv /\ StaleIsCovered /\ LoopsSound
  BY IdleFacts DEF Init, HandlerInv, StaleIsCovered, LoopsSound, Sound
<1>5. Queued = {}
  BY NoElements DEF Init, Queued
<1>6. ChainInv
  BY <1>5 DEF Init, ChainInv
<1>7. QED
  BY <1>3, <1>4, <1>6 DEF OneInv

LEMMA OneStep == FirstEpoch' /\ BaseInv /\ OneInv /\ [Next]_vars => OneInv'
BY LogStep, HandlerStep, CacheStep, LoopStep, ChainStep DEF OneInv

\* Epochs are counted up, from one.
LEMMA EpochStep == epoch \in Nat \ {0} /\ [Next]_vars => epoch' \in {epoch, epoch + 1}
<1> SUFFICES ASSUME epoch \in Nat \ {0}, [Next]_vars PROVE epoch' \in {epoch, epoch + 1}
  OBVIOUS
<1>1. CASE Publish \/ Rpc \/ Drop \/ NewEpoch \/ Reject \/ Restart
  BY <1>1 DEF Publish, Rpc, Drop, NewEpoch, Reject, Restart, serverVars
<1>2. ASSUME NEW l \in Loops, GapFill(l) \/ FlushFails(l) PROVE epoch' = epoch
  BY <1>2
  DEF GapFill, FetchHistory, HistoryFails, FlushUpdates, FlushAdvances, FlushSettles, FlushFails,
      OtherThanGaps, serverVars
<1>3. CASE Publication
  BY <1>3 DEF Publication, OtherThanQueue, serverVars
<1>8. ASSUME NEW off \in rpcs, RpcResponse(off) PROVE epoch' = epoch
  BY <1>8 DEF RpcResponse, OtherThanQueue, serverVars
<1>4. CASE Chain \/ UpdateFails
  <2>1. CASE WaitFails \/ UpdateFails
    BY <2>1 DEF WaitFails, UpdateFails, Fail
  <2>2. CASE SkipDuplicate \/ DetectGap \/ AcceptUpdate \/ GapFilled \/ ApplyUpdate \/ AdvancePosition
    BY <2>2
    DEF SkipDuplicate, DetectGap, AcceptUpdate, GapFilled, ApplyUpdate, AdvancePosition,
        OtherThanQueue, serverVars
  <2>3. QED
    BY <1>4, <2>1, <2>2 DEF Chain
<1>5. CASE Connected \/ SubscribedEvent \/ SubscribedHandler \/ Reconnect
  BY <1>5 DEF Connected, SubscribedEvent, SubscribedHandler, Reconnect, serverVars
<1>6. CASE UNCHANGED vars
  BY <1>6 DEF vars, serverVars
<1>7. QED
  BY <1>1, <1>2, <1>3, <1>4, <1>5, <1>6, <1>8 DEF Next

(* Continuity is inductive for as long as the server has not restarted,    *)
(* however often it does so later.                                         *)
THEOREM Continuity == Known /\ Spec => [](FirstEpoch => OneInv)
<1> DEFINE Counted == epoch \in Nat \ {0}
<1>1. Known /\ Init => Counted /\ OneInv
  BY OneInit DEF Init
<1>2. Counted /\ [Next]_vars => Counted'
  BY EpochStep
<1>3. Counted /\ BaseInv /\ (FirstEpoch => OneInv) /\ [Next]_vars => (FirstEpoch => OneInv)'
  <2> SUFFICES ASSUME Counted, BaseInv, FirstEpoch => OneInv, [Next]_vars, FirstEpoch' PROVE OneInv'
    OBVIOUS
  <2>1. FirstEpoch
    BY EpochStep DEF FirstEpoch
  <2>2. QED
    BY <2>1, OneStep
<1>4. QED
  BY <1>1, <1>2, <1>3, Invariance, PTL DEF Spec

(* Until the server restarts, the position never runs past an update that  *)
(* is not absorbed, whatever drops, fails, times out or dies in between.   *)
THEOREM NothingSkipped == Known /\ Spec => [](FirstEpoch => NoSkippedUpdate)
<1>1. OneInv => NoSkippedUpdate
  BY DEF OneInv, LogInv, NoSkippedUpdate
<1>2. QED
  BY <1>1, Continuity, PTL

(* Until then the cached offset, by which publications are dropped, never  *)
(* covers an update that is not absorbed.                                  *)
THEOREM StaleCovered == Known /\ Spec => [](FirstEpoch => StaleIsCovered)
<1>1. OneInv => StaleIsCovered
  BY DEF OneInv
<1>2. QED
  BY <1>1, Continuity, PTL

(* While the server does not restart the channel implements a consumer of  *)
(* a log: each of its steps stores entries, commits a position onto a      *)
(* stored prefix, extends the log or changes nothing the log speaks of.    *)
THEOREM Refinement == Known /\ Spec /\ []FirstEpoch => ImplementsTopicLog
<1>1. Known /\ Init => Log!Init
  <2> SUFFICES ASSUME Known, Init PROVE Log!Init
    OBVIOUS
  <2>1. PICK n \in 0..head : pos = [off |-> n, ep |-> 1] /\ covered = 1..n
    BY DEF Init, Known
  <2>2. head \in Nat /\ pos \in Position
    BY <2>1, BoundAssumption DEF Init, Offset, Epoch, Position
  <2>3. (IF pos = None THEN 0 ELSE pos.off) = n
    BY <2>1, <2>2, NoneAssumption
  <2>4. QED
    BY <2>1, <2>2, <2>3 DEF Log!Init
<1>2. BaseInv /\ OneInv /\ FirstEpoch' /\ [Next]_vars => [Log!Next]_(Log!vars)
  <2> SUFFICES ASSUME BaseInv, OneInv, FirstEpoch', [Next]_vars PROVE [Log!Next]_(Log!vars)
    OBVIOUS
  <2>1. StoreMoves /\ LogInv /\ LogInv'
    BY StoreMove, LogStep DEF OneInv
  <2> DEFINE position == IF pos = None THEN 0 ELSE pos.off
  <2>2. position = pos.off /\ position' = pos'.off
    BY <2>1, NoneAssumption DEF LogInv
  <2>3. CASE UNCHANGED <<pos, covered>> /\ head' \in {head, head + 1}
    BY <2>3 DEF Log!Next, Log!Extend, Log!vars
  <2>4. CASE UNCHANGED <<head, pos>> /\ \E S \in SUBSET (1..head) : covered' = covered \cup S
    BY <2>4 DEF Log!Next, Log!Store
  <2>5. CASE /\ UNCHANGED <<head, covered>>
             /\ pos' \in Position /\ pos'.off \in 0..head /\ 1..pos'.off \subseteq covered
    <3>1. \E n \in 0..head : 1..n \subseteq covered /\ position' = n
      BY <2>2, <2>5
    <3>2. QED
      BY <2>5, <3>1 DEF Log!Next, Log!Commit
  <2>6. QED
    BY <2>1, <2>3, <2>4, <2>5 DEF StoreMoves
<1>3. QED
  BY <1>1, <1>2, Invariance, Continuity, PTL DEF Spec, ImplementsTopicLog, Log!Spec


=============================================================================
