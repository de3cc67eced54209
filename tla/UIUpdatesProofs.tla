--------------------------- MODULE UIUpdatesProofs ---------------------------
(***************************************************************************)
(* UIUpdates for every number of writes, of fills that overlap and of      *)
(* visits, and every limit on the events held.                             *)
(***************************************************************************)
EXTENDS UIUpdates, TLAPS, FiniteSetTheorems, SequenceTheorems

\* Where a fill can be.
Places == {"new", "fetch", "apply", "end", "over"}

\* The fills whose flush has suspended the bus.
Suspenders == {f \in Fill : Flushing(f) /\ mode[f] = "suspend"}

\* A flush collects in one of the two ways.
FlushHasMode == \A f \in Fill : Flushing(f) => mode[f] \in {"batch", "suspend"}

\* The bus is in batch mode for a flush that is still running.
BatchHasOwner == batchMode => \E f \in Fill : Flushing(f) /\ mode[f] = "batch"

\* What it collected goes with the mode.
BatchIsOn == batchEvents # {} => batchMode

\* It is suspended no deeper than flushes will resume it, ...
DepthHasOwners == suspendDepth <= Cardinality(Suspenders)

\* ... and what it holds goes with the last of them.
SuspensionIsOn == suspendedEvents # {} => suspendDepth > 0

\* Fills of large gaps only, when there are no others.
LargeOnly == ~SmallFills => \A f \in Fill : pc[f] # "new" => large[f]

\* A small fill has come to its end, and told nobody.
SmallEnded == \E f \in Fill : pc[f] = "over" /\ ~large[f]

BusInv == FlushHasMode /\ BatchHasOwner /\ BatchIsOn /\ DepthHasOwners /\ SuspensionIsOn
IInv == TypeOK /\ BusInv /\ LargeOnly /\ (SmallEnded \/ NothingHidden)

-----------------------------------------------------------------------------
(* Sequences and sets. *)

\* What a sequence holds, one element longer.
LEMMA RangeAppend ==
    ASSUME NEW S, NEW q \in Seq(S), NEW m \in S
    PROVE  Append(q, m) \in Seq(S) /\ Range(Append(q, m)) = Range(q) \union {m}
<1>1. /\ Append(q, m) \in Seq(S) /\ Len(Append(q, m)) = Len(q) + 1
      /\ \A i \in 1..Len(q) : Append(q, m)[i] = q[i]
      /\ Append(q, m)[Len(q) + 1] = m /\ Len(q) \in Nat
  BY AppendProperties
<1>2. DOMAIN Append(q, m) = 1..(Len(q) + 1) /\ DOMAIN q = 1..Len(q)
  BY <1>1, LenProperties
<1>3. ASSUME NEW x PROVE x \in Range(Append(q, m)) <=> x \in Range(q) \/ x = m
  BY <1>1, <1>2 DEF Range
<1>4. QED
  BY <1>1, <1>3

\* A sequence holds its head and what its tail holds.
LEMMA RangeHeadTail ==
    ASSUME NEW S, NEW q \in Seq(S), q # <<>>
    PROVE  /\ Head(q) \in S /\ Tail(q) \in Seq(S)
           /\ Range(q) = {Head(q)} \union Range(Tail(q))
<1>1. /\ Head(q) \in S /\ Tail(q) \in Seq(S) /\ Len(Tail(q)) = Len(q) - 1
      /\ \A i \in 1..Len(Tail(q)) : Tail(q)[i] = q[i + 1]
  BY HeadTailProperties
<1>2. Head(q) = q[1] /\ Len(q) \in Nat \ {0}
  BY EmptySeq, LenProperties
<1>3. DOMAIN q = 1..Len(q) /\ DOMAIN Tail(q) = 1..(Len(q) - 1)
  BY <1>1, LenProperties
<1>4. ASSUME NEW x \in Range(q) PROVE x = Head(q) \/ x \in Range(Tail(q))
  <2>1. PICK i \in 1..Len(q) : x = q[i]
    BY <1>3 DEF Range
  <2>2. CASE i = 1
    BY <1>2, <2>1, <2>2
  <2>3. CASE i # 1
    <3>1. i - 1 \in 1..Len(Tail(q)) /\ Tail(q)[i - 1] = q[i]
      BY <1>1, <1>2, <2>3
    <3>2. QED
      BY <1>1, <1>3, <2>1, <3>1 DEF Range
  <2>4. QED
    BY <2>2, <2>3
<1>5. Head(q) \in Range(q)
  BY <1>2, <1>3 DEF Range
<1>6. ASSUME NEW x \in Range(Tail(q)) PROVE x \in Range(q)
  <2>1. PICK i \in 1..(Len(q) - 1) : x = Tail(q)[i]
    BY <1>3 DEF Range
  <2>2. i + 1 \in 1..Len(q) /\ Tail(q)[i] = q[i + 1]
    BY <1>1, <1>2
  <2>3. QED
    BY <1>3, <2>1, <2>2 DEF Range
<1>7. QED
  BY <1>1, <1>4, <1>5, <1>6

LEMMA SuspendersFacts == IsFiniteSet(Suspenders) /\ Cardinality(Suspenders) \in Nat
<1>1. Suspenders \in SUBSET Fill
  BY DEF Suspenders
<1>2. QED
  BY <1>1, FS_Subset, FS_CardinalityType, FillAssumption

-----------------------------------------------------------------------------
(* What the operations of the bus do. *)

LEMMA GoToFacts ==
    ASSUME TypeOK, NEW f \in Fill, NEW s \in Places, GoTo(f, s)
    PROVE  /\ pc' \in [Fill -> Places] /\ pc'[f] = s
           /\ \A g \in Fill : g # f => pc'[g] = pc[g]
BY DEF TypeOK, GoTo, Places

\* Older writes stay what they are when there are more.
LEMMA GrowFacts ==
    ASSUME TypeOK, written' \in {written, written + 1}
    PROVE  /\ 1..written \subseteq 1..written'
           /\ \A q : q \in Seq(0..written) => q \in Seq(0..written')
<1>1. 1..written \subseteq 1..written' /\ 0..written \subseteq 0..written'
  BY BoundAssumption DEF TypeOK
<1>2. QED
  BY <1>1, SeqMonotonic

LEMMA BroadcastFacts ==
    ASSUME TypeOK, written' \in {written, written + 1}, NEW m \in 0..written', Broadcast(m)
    PROVE  /\ inbox' \in Seq(0..written')
           /\ Range(inbox) \subseteq Range(inbox')
           /\ tab # "away" => Range(inbox') = Range(inbox) \union {m}
<1>1. inbox \in Seq(0..written')
  BY GrowFacts DEF TypeOK
<1>2. CASE tab = "away"
  BY <1>1, <1>2 DEF Broadcast
<1>3. CASE tab # "away"
  <2>1. inbox' = Append(inbox, m)
    BY <1>3 DEF Broadcast
  <2> DEFINE S == 0..written'
  <2>2. inbox \in Seq(S) /\ m \in S
    BY <1>1
  <2> HIDE DEF S
  <2>3. Append(inbox, m) \in Seq(S) /\ Range(Append(inbox, m)) = Range(inbox) \union {m}
    BY <2>2, RangeAppend
  <2>4. QED
    BY <2>1, <2>3, Zenon DEF S
<1>4. QED
  BY <1>2, <1>3

\* A published event is collected, in one way or the other, or goes out.
LEMMA PublishFacts ==
    ASSUME TypeOK, ~LimitReached, Publish(written + 1), written' = written + 1
    PROVE  /\ batchEvents' \subseteq 1..written' /\ suspendedEvents' \subseteq 1..written'
           /\ Cardinality(suspendedEvents') <= MaxHeld
           /\ inbox' \in Seq(0..written') /\ Range(inbox) \subseteq Range(inbox')
           /\ ~batchMode => batchEvents' = batchEvents
           /\ suspendDepth = 0 => suspendedEvents' = suspendedEvents
           /\ ~batchMode /\ suspendDepth = 0 /\ tab # "away" => written' \in Range(inbox')
<1>1. /\ written \in Nat /\ written' \in 1..written'
      /\ batchEvents \subseteq 1..written' /\ suspendedEvents \subseteq 1..written'
      /\ inbox \in Seq(0..written')
  BY GrowFacts, BoundAssumption DEF TypeOK
<1>2. CASE batchMode
  BY <1>1, <1>2 DEF Publish, TypeOK
<1>3. CASE ~batchMode /\ suspendDepth > 0
  <2>1. suspendedEvents' = suspendedEvents \union {written'} /\ UNCHANGED <<batchEvents, inbox>>
    BY <1>3 DEF Publish
  <2>2. IsFiniteSet(suspendedEvents)
    <3>1. IsFiniteSet(1..written)
      BY <1>1, FS_Interval
    <3>2. QED
      BY <3>1, FS_Subset DEF TypeOK
  <2>3. Cardinality(suspendedEvents) < MaxHeld
    BY <1>3, <2>2, FS_CardinalityType, BoundAssumption DEF LimitReached
  <2>4. Cardinality(suspendedEvents') <= MaxHeld
    BY <2>1, <2>2, <2>3, FS_AddElement, FS_CardinalityType, BoundAssumption
  <2>5. suspendDepth # 0
    BY <1>3
  <2>6. QED
    BY <1>1, <1>3, <2>1, <2>4, <2>5
<1>4. CASE ~batchMode /\ ~(suspendDepth > 0)
  <2>1. Broadcast(written') /\ UNCHANGED <<batchEvents, suspendedEvents>>
    BY <1>4 DEF Publish
  <2>2. written' \in 0..written'
    BY <1>1
  <2>3. /\ inbox' \in Seq(0..written') /\ Range(inbox) \subseteq Range(inbox')
        /\ tab # "away" => Range(inbox') = Range(inbox) \union {written'}
    BY <2>1, <2>2, BroadcastFacts
  <2>4. QED
    BY <1>1, <2>1, <2>3 DEF TypeOK
<1>5. QED
  BY <1>2, <1>3, <1>4

-----------------------------------------------------------------------------

\* Every variable keeps its type.
LEMMA TypeStep ==
    ASSUME TypeOK, [Next]_vars
    PROVE  TypeOK'
<1> USE BoundAssumption DEF TypeOK, Places
<1>1. ASSUME Write PROVE TypeOK'
  BY <1>1, GoToFacts, PublishFacts, GrowFacts
  DEF Write, busVars, fillVars, tabVars
<1>2. ASSUME ForceResume PROVE TypeOK'
  <2>1. suspendedEvents' = {} /\ Cardinality(suspendedEvents') <= MaxHeld
    BY <1>2, FS_EmptySet DEF ForceResume
  <2>2. QED
    BY <1>2, <2>1 DEF ForceResume, fillVars, tabVars
<1>3. ASSUME NEW f \in Fill, StartFill(f) PROVE TypeOK'
  BY <1>3, GoToFacts, PublishFacts, GrowFacts
  DEF StartFill, busVars, fillVars, tabVars, Sizes
<1>4. ASSUME NEW f \in Fill, NEW m \in {"batch", "suspend"}, BeginFlush(f, m) PROVE TypeOK'
  <2>1. UNCHANGED <<written, large, tabVars>> /\ pc' \in [Fill -> Places]
        /\ mode' \in [Fill -> {"none", "batch", "suspend"}]
    BY <1>4, GoToFacts DEF BeginFlush
  <2>2. CASE m = "batch"
    BY <1>4, <2>1, <2>2 DEF BeginFlush, StartBatch, tabVars
  <2>3. CASE m = "suspend"
    <3>1. suspendDepth' \in Nat /\ UNCHANGED <<batchMode, batchEvents, suspendedEvents>>
      BY <1>4, <2>3 DEF BeginFlush, Suspend
    <3>2. QED
      BY <2>1, <3>1 DEF tabVars
  <2>4. QED
    BY <2>2, <2>3
<1>5. ASSUME NEW f \in Fill, Apply(f) PROVE TypeOK'
  <2>1. /\ written' = written + 1 /\ written' \in 0..MaxWrites /\ pc' \in [Fill -> Places]
        /\ UNCHANGED <<batchMode, suspendDepth, large, mode, tab, shown, visits>>
    BY <1>5, GoToFacts DEF Apply
  <2>2. /\ batchEvents \subseteq 1..written' /\ suspendedEvents \subseteq 1..written'
        /\ shown \subseteq 1..written' /\ inbox \in Seq(0..written')
    BY <2>1, GrowFacts
  <2>3. CASE LimitReached
    BY <1>5, <2>1, <2>2, <2>3 DEF Apply
  <2>4. CASE ~LimitReached
    <3>1. Publish(written + 1)
      BY <1>5, <2>4 DEF Apply
    <3>2. /\ batchEvents' \subseteq 1..written' /\ suspendedEvents' \subseteq 1..written'
          /\ Cardinality(suspendedEvents') <= MaxHeld /\ inbox' \in Seq(0..written')
      BY <2>1, <2>4, <3>1, PublishFacts
    <3>3. QED
      BY <2>1, <2>2, <3>2
  <2>5. QED
    BY <2>3, <2>4
<1>6. ASSUME NEW f \in Fill, ApplyFails(f) PROVE TypeOK'
  BY <1>6, GoToFacts, PublishFacts, GrowFacts
  DEF ApplyFails, busVars, fillVars, tabVars
<1>7. ASSUME NEW f \in Fill, EndFlush(f) PROVE TypeOK'
  <2>1. UNCHANGED <<written, large, mode, tabVars>> /\ pc' \in [Fill -> Places]
    BY <1>7, GoToFacts DEF EndFlush
  <2>2. CASE mode[f] = "batch"
    BY <1>7, <2>1, <2>2 DEF EndFlush, EndBatch, tabVars
  <2>3. CASE mode[f] # "batch"
    <3>1. batchMode' = batchMode /\ batchEvents' = batchEvents /\ suspendDepth' \in Nat
      BY <1>7, <2>3 DEF EndFlush, Resume
    <3>2. suspendedEvents' \in {{}, suspendedEvents}
      BY <1>7, <2>3 DEF EndFlush, Resume
    <3>3. suspendedEvents' \subseteq 1..written /\ Cardinality(suspendedEvents') <= MaxHeld
      <4>1. CASE suspendedEvents' = {}
        <5>1. Cardinality(suspendedEvents') = 0
          BY <4>1, FS_EmptySet
        <5>2. QED
          BY <4>1, <5>1
      <4>2. CASE suspendedEvents' = suspendedEvents
        BY <4>2
      <4>3. QED
        BY <3>2, <4>1, <4>2
    <3>4. QED
      BY <2>1, <3>1, <3>3 DEF tabVars
  <2>4. QED
    BY <2>2, <2>3
<1>8. ASSUME NEW f \in Fill, EndFill(f) PROVE TypeOK'
  <2>1. Reload \in 0..written' /\ written' \in {written, written + 1}
    BY <1>8 DEF EndFill, Reload
  <2>2. inbox' \in Seq(0..written')
    BY <1>8, <2>1, BroadcastFacts DEF EndFill
  <2>3. QED
    BY <1>8, <2>2, GoToFacts DEF EndFill, busVars, fillVars
<1>9. ASSUME Register PROVE TypeOK'
  BY <1>9, GoToFacts, PublishFacts, GrowFacts
  DEF Register, busVars, fillVars, tabVars
<1>10. ASSUME Load PROVE TypeOK'
  BY <1>10, GoToFacts, PublishFacts, GrowFacts
  DEF Load, busVars, fillVars, tabVars
<1>11. ASSUME Deliver PROVE TypeOK'
  <2>1. Head(inbox) \in 0..written /\ Tail(inbox) \in Seq(0..written)
    BY <1>11, RangeHeadTail DEF Deliver
  <2>2. Handled(Head(inbox)) \subseteq 1..written
    <3>1. Head(inbox) # 0 => Head(inbox) \in 1..written
      BY <2>1
    <3>2. shown \subseteq 1..written
      OBVIOUS
    <3>3. QED
      BY <3>1, <3>2 DEF Handled, Reload
  <2>3. QED
    BY <1>11, <2>1, <2>2 DEF Deliver, busVars, fillVars
<1>12. ASSUME Leave PROVE TypeOK'
  BY <1>12, GoToFacts, PublishFacts, GrowFacts
  DEF Leave, busVars, fillVars, tabVars
<1>13. CASE UNCHANGED vars
  BY <1>13 DEF vars, busVars, fillVars, tabVars
<1>14. QED
  BY <1>1, <1>2, <1>3, <1>4, <1>5, <1>6, <1>7, <1>8, <1>9, <1>10, <1>11, <1>12, <1>13
  DEF Next, FillStep

\* Only a flush that runs keeps the bus in batch mode.
LEMMA BatchStep ==
    ASSUME TypeOK, FlushHasMode, BatchHasOwner, BatchIsOn, [Next]_vars
    PROVE  (FlushHasMode /\ BatchHasOwner /\ BatchIsOn)'
<1> USE DEF TypeOK, Places, Flushing, FlushHasMode, BatchHasOwner, BatchIsOn
<1>1. ASSUME Write PROVE (FlushHasMode /\ BatchHasOwner /\ BatchIsOn)'
  BY <1>1, GoToFacts, PublishFacts, GrowFacts
  DEF Write, busVars, fillVars, tabVars
<1>2. ASSUME ForceResume PROVE (FlushHasMode /\ BatchHasOwner /\ BatchIsOn)'
  BY <1>2, GoToFacts, PublishFacts, GrowFacts
  DEF ForceResume, busVars, fillVars, tabVars
<1>3. ASSUME NEW f \in Fill, StartFill(f) PROVE (FlushHasMode /\ BatchHasOwner /\ BatchIsOn)'
  BY <1>3, GoToFacts, PublishFacts, GrowFacts
  DEF StartFill, busVars, fillVars, tabVars, Sizes
<1>4. ASSUME NEW f \in Fill, NEW m \in {"batch", "suspend"}, BeginFlush(f, m)
      PROVE  (FlushHasMode /\ BatchHasOwner /\ BatchIsOn)'
  BY <1>4, GoToFacts, PublishFacts, GrowFacts
  DEF BeginFlush, busVars, fillVars, tabVars, StartBatch, Suspend
<1>5. ASSUME NEW f \in Fill, Apply(f) PROVE (FlushHasMode /\ BatchHasOwner /\ BatchIsOn)'
  BY <1>5, GoToFacts, PublishFacts, GrowFacts
  DEF Apply, busVars, fillVars, tabVars
<1>6. ASSUME NEW f \in Fill, ApplyFails(f) PROVE (FlushHasMode /\ BatchHasOwner /\ BatchIsOn)'
  BY <1>6, GoToFacts, PublishFacts, GrowFacts
  DEF ApplyFails, busVars, fillVars, tabVars
<1>7. ASSUME NEW f \in Fill, EndFlush(f) PROVE (FlushHasMode /\ BatchHasOwner /\ BatchIsOn)'
  BY <1>7, GoToFacts, PublishFacts, GrowFacts
  DEF EndFlush, busVars, fillVars, tabVars, EndBatch, Resume
<1>8. ASSUME NEW f \in Fill, EndFill(f) PROVE (FlushHasMode /\ BatchHasOwner /\ BatchIsOn)'
  BY <1>8, GoToFacts, PublishFacts, GrowFacts
  DEF EndFill, busVars, fillVars, tabVars
<1>9. ASSUME Register PROVE (FlushHasMode /\ BatchHasOwner /\ BatchIsOn)'
  BY <1>9, GoToFacts, PublishFacts, GrowFacts
  DEF Register, busVars, fillVars, tabVars
<1>10. ASSUME Load PROVE (FlushHasMode /\ BatchHasOwner /\ BatchIsOn)'
  BY <1>10, GoToFacts, PublishFacts, GrowFacts
  DEF Load, busVars, fillVars, tabVars
<1>11. ASSUME Deliver PROVE (FlushHasMode /\ BatchHasOwner /\ BatchIsOn)'
  BY <1>11, GoToFacts, PublishFacts, GrowFacts
  DEF Deliver, busVars, fillVars, tabVars
<1>12. ASSUME Leave PROVE (FlushHasMode /\ BatchHasOwner /\ BatchIsOn)'
  BY <1>12, GoToFacts, PublishFacts, GrowFacts
  DEF Leave, busVars, fillVars, tabVars
<1>13. CASE UNCHANGED vars
  BY <1>13 DEF vars, busVars, fillVars, tabVars
<1>14. QED
  BY <1>1, <1>2, <1>3, <1>4, <1>5, <1>6, <1>7, <1>8, <1>9, <1>10, <1>11, <1>12, <1>13
  DEF Next, FillStep

LEMMA BeginFlushFacts ==
    ASSUME TypeOK, NEW f \in Fill, NEW m \in {"batch", "suspend"}, BeginFlush(f, m)
    PROVE  /\ m = "batch" => Suspenders' = Suspenders
           /\ m = "suspend" => Cardinality(Suspenders') = Cardinality(Suspenders) + 1
<1>1. /\ pc[f] = "fetch" /\ pc'[f] = "apply" /\ mode'[f] = m
      /\ \A g \in Fill : g # f => pc'[g] = pc[g] /\ mode'[g] = mode[g]
  BY GoToFacts DEF BeginFlush, TypeOK, Places
<1>2. f \notin Suspenders
  BY <1>1 DEF Suspenders, Flushing
<1>3. m = "batch" => Suspenders' = Suspenders
  BY <1>1, <1>2 DEF Suspenders, Flushing
<1>4. m = "suspend" => Suspenders' = Suspenders \union {f}
  BY <1>1 DEF Suspenders, Flushing
<1>5. QED
  BY <1>2, <1>3, <1>4, SuspendersFacts, FS_AddElement

LEMMA EndFlushFacts ==
    ASSUME TypeOK, NEW f \in Fill, EndFlush(f)
    PROVE  /\ mode[f] = "batch" => Suspenders' = Suspenders
           /\ mode[f] = "suspend" => Cardinality(Suspenders') = Cardinality(Suspenders) - 1
           /\ IsFiniteSet(Suspenders') /\ Cardinality(Suspenders') \in Nat
<1>1. /\ pc[f] = "end" /\ pc'[f] = "fetch" /\ mode' = mode
      /\ \A g \in Fill : g # f => pc'[g] = pc[g]
  BY GoToFacts DEF EndFlush, Places
<1>2. mode[f] = "batch" => Suspenders' = Suspenders
  BY <1>1 DEF Suspenders, Flushing
<1>3. Suspenders' = Suspenders \ {f}
  BY <1>1 DEF Suspenders, Flushing
<1>4. mode[f] = "suspend" => f \in Suspenders
  BY <1>1 DEF Suspenders, Flushing
<1>5. QED
  BY <1>2, <1>3, <1>4, SuspendersFacts, FS_RemoveElement, FS_CardinalityType

\* Every suspension is the business of one flush.
LEMMA SuspendStep ==
    ASSUME TypeOK, FlushHasMode, DepthHasOwners, SuspensionIsOn, [Next]_vars
    PROVE  (DepthHasOwners /\ SuspensionIsOn)'
<1> USE DEF TypeOK, Places, DepthHasOwners, SuspensionIsOn
<1>1. ASSUME Write PROVE (DepthHasOwners /\ SuspensionIsOn)'
  <2>1. Suspenders' = Suspenders
    BY <1>1, GoToFacts DEF Write, Suspenders, Flushing, fillVars
  <2>2. \/ suspendDepth' = 0 /\ suspendedEvents' = {}
        \/ suspendDepth' = suspendDepth
           /\ (suspendedEvents' = suspendedEvents \/ suspendDepth # 0)
    BY <1>1, PublishFacts DEF Write, busVars
  <2>3. QED
    BY <2>1, <2>2, SuspendersFacts
<1>2. ASSUME ForceResume PROVE (DepthHasOwners /\ SuspensionIsOn)'
  <2>1. Suspenders' = Suspenders
    BY <1>2, GoToFacts DEF ForceResume, Suspenders, Flushing, fillVars
  <2>2. \/ suspendDepth' = 0 /\ suspendedEvents' = {}
        \/ suspendDepth' = suspendDepth
           /\ (suspendedEvents' = suspendedEvents \/ suspendDepth # 0)
    BY <1>2, PublishFacts DEF ForceResume, busVars
  <2>3. QED
    BY <2>1, <2>2, SuspendersFacts
<1>3. ASSUME NEW f \in Fill, StartFill(f) PROVE (DepthHasOwners /\ SuspensionIsOn)'
  <2>1. Suspenders' = Suspenders
    BY <1>3, GoToFacts DEF StartFill, Suspenders, Flushing, fillVars
  <2>2. \/ suspendDepth' = 0 /\ suspendedEvents' = {}
        \/ suspendDepth' = suspendDepth
           /\ (suspendedEvents' = suspendedEvents \/ suspendDepth # 0)
    BY <1>3, PublishFacts DEF StartFill, busVars
  <2>3. QED
    BY <2>1, <2>2, SuspendersFacts
<1>4. ASSUME NEW f \in Fill, NEW m \in {"batch", "suspend"}, BeginFlush(f, m)
      PROVE  (DepthHasOwners /\ SuspensionIsOn)'
  <2>1. CASE m = "batch"
    BY <1>4, <2>1, BeginFlushFacts DEF BeginFlush, StartBatch
  <2>2. CASE m = "suspend"
    <3>1. Cardinality(Suspenders') = Cardinality(Suspenders) + 1
      BY <1>4, <2>2, BeginFlushFacts
    <3>2. suspendDepth' = suspendDepth + 1
      BY <1>4, <2>2 DEF BeginFlush, Suspend
    <3>3. QED
      BY <3>1, <3>2, SuspendersFacts
  <2>3. QED
    BY <2>1, <2>2
<1>5. ASSUME NEW f \in Fill, Apply(f) PROVE (DepthHasOwners /\ SuspensionIsOn)'
  <2>1. Suspenders' = Suspenders
    BY <1>5, GoToFacts DEF Apply, Suspenders, Flushing, fillVars
  <2>2. \/ suspendDepth' = 0 /\ suspendedEvents' = {}
        \/ suspendDepth' = suspendDepth
           /\ (suspendedEvents' = suspendedEvents \/ suspendDepth # 0)
    BY <1>5, PublishFacts DEF Apply, busVars
  <2>3. QED
    BY <2>1, <2>2, SuspendersFacts
<1>6. ASSUME NEW f \in Fill, ApplyFails(f) PROVE (DepthHasOwners /\ SuspensionIsOn)'
  <2>1. Suspenders' = Suspenders
    BY <1>6, GoToFacts DEF ApplyFails, Suspenders, Flushing, fillVars
  <2>2. \/ suspendDepth' = 0 /\ suspendedEvents' = {}
        \/ suspendDepth' = suspendDepth
           /\ (suspendedEvents' = suspendedEvents \/ suspendDepth # 0)
    BY <1>6, PublishFacts DEF ApplyFails, busVars
  <2>3. QED
    BY <2>1, <2>2, SuspendersFacts
<1>7. ASSUME NEW f \in Fill, EndFlush(f) PROVE (DepthHasOwners /\ SuspensionIsOn)'
  <2>1. CASE mode[f] = "batch"
    BY <1>7, <2>1, EndFlushFacts DEF EndFlush, EndBatch
  <2>2. CASE mode[f] = "suspend"
    <3>1. Cardinality(Suspenders') = Cardinality(Suspenders) - 1
      BY <1>7, <2>2, EndFlushFacts
    <3>2. /\ suspendDepth' = IF suspendDepth = 0 THEN 0 ELSE suspendDepth - 1
          /\ suspendedEvents' = IF suspendDepth <= 1 THEN {} ELSE suspendedEvents
          /\ Cardinality(Suspenders') \in Nat
      BY <1>7, <2>2, SuspendersFacts, EndFlushFacts DEF EndFlush, Resume
    <3>3. QED
      BY <3>1, <3>2, SuspendersFacts
  <2>3. mode[f] \in {"batch", "suspend"}
    BY <1>7 DEF EndFlush, FlushHasMode, Flushing
  <2>4. QED
    BY <2>1, <2>2, <2>3
<1>8. ASSUME NEW f \in Fill, EndFill(f) PROVE (DepthHasOwners /\ SuspensionIsOn)'
  <2>1. Suspenders' = Suspenders
    BY <1>8, GoToFacts DEF EndFill, Suspenders, Flushing, fillVars
  <2>2. \/ suspendDepth' = 0 /\ suspendedEvents' = {}
        \/ suspendDepth' = suspendDepth
           /\ (suspendedEvents' = suspendedEvents \/ suspendDepth # 0)
    BY <1>8, PublishFacts DEF EndFill, busVars
  <2>3. QED
    BY <2>1, <2>2, SuspendersFacts
<1>9. ASSUME Register PROVE (DepthHasOwners /\ SuspensionIsOn)'
  <2>1. Suspenders' = Suspenders
    BY <1>9, GoToFacts DEF Register, Suspenders, Flushing, fillVars
  <2>2. \/ suspendDepth' = 0 /\ suspendedEvents' = {}
        \/ suspendDepth' = suspendDepth
           /\ (suspendedEvents' = suspendedEvents \/ suspendDepth # 0)
    BY <1>9, PublishFacts DEF Register, busVars
  <2>3. QED
    BY <2>1, <2>2, SuspendersFacts
<1>10. ASSUME Load PROVE (DepthHasOwners /\ SuspensionIsOn)'
  <2>1. Suspenders' = Suspenders
    BY <1>10, GoToFacts DEF Load, Suspenders, Flushing, fillVars
  <2>2. \/ suspendDepth' = 0 /\ suspendedEvents' = {}
        \/ suspendDepth' = suspendDepth
           /\ (suspendedEvents' = suspendedEvents \/ suspendDepth # 0)
    BY <1>10, PublishFacts DEF Load, busVars
  <2>3. QED
    BY <2>1, <2>2, SuspendersFacts
<1>11. ASSUME Deliver PROVE (DepthHasOwners /\ SuspensionIsOn)'
  <2>1. Suspenders' = Suspenders
    BY <1>11, GoToFacts DEF Deliver, Suspenders, Flushing, fillVars
  <2>2. \/ suspendDepth' = 0 /\ suspendedEvents' = {}
        \/ suspendDepth' = suspendDepth
           /\ (suspendedEvents' = suspendedEvents \/ suspendDepth # 0)
    BY <1>11, PublishFacts DEF Deliver, busVars
  <2>3. QED
    BY <2>1, <2>2, SuspendersFacts
<1>12. ASSUME Leave PROVE (DepthHasOwners /\ SuspensionIsOn)'
  <2>1. Suspenders' = Suspenders
    BY <1>12, GoToFacts DEF Leave, Suspenders, Flushing, fillVars
  <2>2. \/ suspendDepth' = 0 /\ suspendedEvents' = {}
        \/ suspendDepth' = suspendDepth
           /\ (suspendedEvents' = suspendedEvents \/ suspendDepth # 0)
    BY <1>12, PublishFacts DEF Leave, busVars
  <2>3. QED
    BY <2>1, <2>2, SuspendersFacts
<1>13. CASE UNCHANGED vars
  BY <1>13 DEF vars, busVars, fillVars, tabVars, Suspenders, Flushing
<1>14. QED
  BY <1>1, <1>2, <1>3, <1>4, <1>5, <1>6, <1>7, <1>8, <1>9, <1>10, <1>11, <1>12, <1>13
  DEF Next, FillStep

\* A fill that starts has a large gap when there are no others.
LEMMA LargeStep ==
    ASSUME TypeOK, LargeOnly, [Next]_vars
    PROVE  LargeOnly'
<1> USE DEF TypeOK, Places, LargeOnly
<1>1. ASSUME Write PROVE LargeOnly'
  BY <1>1, GoToFacts
  DEF Write, busVars, fillVars, tabVars
<1>2. ASSUME ForceResume PROVE LargeOnly'
  BY <1>2, GoToFacts
  DEF ForceResume, busVars, fillVars, tabVars
<1>3. ASSUME NEW f \in Fill, StartFill(f) PROVE LargeOnly'
  BY <1>3, GoToFacts
  DEF StartFill, busVars, fillVars, tabVars, Sizes
<1>4. ASSUME NEW f \in Fill, NEW m \in {"batch", "suspend"}, BeginFlush(f, m) PROVE LargeOnly'
  BY <1>4, GoToFacts
  DEF BeginFlush, busVars, fillVars, tabVars, StartBatch, Suspend
<1>5. ASSUME NEW f \in Fill, Apply(f) PROVE LargeOnly'
  BY <1>5, GoToFacts
  DEF Apply, busVars, fillVars, tabVars
<1>6. ASSUME NEW f \in Fill, ApplyFails(f) PROVE LargeOnly'
  BY <1>6, GoToFacts
  DEF ApplyFails, busVars, fillVars, tabVars
<1>7. ASSUME NEW f \in Fill, EndFlush(f) PROVE LargeOnly'
  BY <1>7, GoToFacts
  DEF EndFlush, busVars, fillVars, tabVars, EndBatch, Resume
<1>8. ASSUME NEW f \in Fill, EndFill(f) PROVE LargeOnly'
  BY <1>8, GoToFacts
  DEF EndFill, busVars, fillVars, tabVars
<1>9. ASSUME Register PROVE LargeOnly'
  BY <1>9, GoToFacts
  DEF Register, busVars, fillVars, tabVars
<1>10. ASSUME Load PROVE LargeOnly'
  BY <1>10, GoToFacts
  DEF Load, busVars, fillVars, tabVars
<1>11. ASSUME Deliver PROVE LargeOnly'
  BY <1>11, GoToFacts
  DEF Deliver, busVars, fillVars, tabVars
<1>12. ASSUME Leave PROVE LargeOnly'
  BY <1>12, GoToFacts
  DEF Leave, busVars, fillVars, tabVars
<1>13. CASE UNCHANGED vars
  BY <1>13 DEF vars, busVars, fillVars, tabVars
<1>14. QED
  BY <1>1, <1>2, <1>3, <1>4, <1>5, <1>6, <1>7, <1>8, <1>9, <1>10, <1>11, <1>12, <1>13
  DEF Next, FillStep

\* The bus only collects while a fill is under way.
LEMMA OwnerFacts ==
    ASSUME TypeOK, BusInv, batchMode \/ suspendDepth > 0
    PROVE  \E f \in Fill : Filling(f)
<1>1. CASE batchMode
  BY <1>1 DEF BusInv, BatchHasOwner, Flushing, Filling
<1>2. CASE suspendDepth > 0
  <2>1. Suspenders # {}
    BY <1>2, FS_EmptySet, SuspendersFacts DEF BusInv, DepthHasOwners, TypeOK
  <2>2. QED
    BY <2>1 DEF Suspenders, Flushing, Filling
<1>3. QED
  BY <1>1, <1>2

\* A write the tab does not show is on its way.
LEMMA HiddenStep ==
    ASSUME ~SmallEnded', TypeOK, BusInv, NothingHidden, [Next]_vars
    PROVE  NothingHidden'
<1> USE DEF TypeOK, Places, Filling, NothingHidden
<1>1. ASSUME Write PROVE NothingHidden'
  <2>1. CASE batchMode \/ suspendDepth > 0
    BY <1>1, <2>1, OwnerFacts DEF Write, fillVars, Filling
  <2>2. CASE ~batchMode /\ suspendDepth = 0
    <3>1. written' = written + 1 /\ UNCHANGED <<shown, tab, pc>>
      BY <1>1 DEF Write, fillVars
    <3>2. /\ Range(inbox) \subseteq Range(inbox')
          /\ tab # "away" => written' \in Range(inbox')
      BY <1>1, <2>2, <3>1, PublishFacts DEF Write
    <3>3. \A w \in 1..written' : w \in 1..written \/ w = written'
      BY <3>1, BoundAssumption
    <3>4. QED
      BY <3>1, <3>2, <3>3
  <2>3. QED
    BY <2>1, <2>2
<1>2. ASSUME ForceResume PROVE NothingHidden'
  BY <1>2, GoToFacts, PublishFacts, GrowFacts
  DEF ForceResume, busVars, fillVars, tabVars
<1>3. ASSUME NEW f \in Fill, StartFill(f) PROVE NothingHidden'
  BY <1>3, GoToFacts, PublishFacts, GrowFacts
  DEF StartFill, busVars, fillVars, tabVars, Sizes
<1>4. ASSUME NEW f \in Fill, NEW m \in {"batch", "suspend"}, BeginFlush(f, m) PROVE NothingHidden'
  BY <1>4, GoToFacts, PublishFacts, GrowFacts
  DEF BeginFlush, busVars, fillVars, tabVars, StartBatch, Suspend
<1>5. ASSUME NEW f \in Fill, Apply(f) PROVE NothingHidden'
  BY <1>5, GoToFacts, PublishFacts, GrowFacts
  DEF Apply, busVars, fillVars, tabVars
<1>6. ASSUME NEW f \in Fill, ApplyFails(f) PROVE NothingHidden'
  BY <1>6, GoToFacts, PublishFacts, GrowFacts
  DEF ApplyFails, busVars, fillVars, tabVars
<1>7. ASSUME NEW f \in Fill, EndFlush(f) PROVE NothingHidden'
  BY <1>7, GoToFacts, PublishFacts, GrowFacts
  DEF EndFlush, busVars, fillVars, tabVars, EndBatch, Resume
<1>8. ASSUME NEW f \in Fill, EndFill(f) PROVE NothingHidden'
  <2>1. CASE tab = "live"
    <3>1. large[f] /\ written' \in {written, written + 1} /\ Reload \in 0..written'
      BY <1>8, GoToFacts DEF EndFill, SmallEnded, fillVars, Reload
    <3>2. Reload \in Range(inbox')
      BY <1>8, <2>1, <3>1, BroadcastFacts DEF EndFill
    <3>3. QED
      BY <3>2
  <2>2. CASE tab # "live"
    BY <1>8, <2>2 DEF EndFill
  <2>3. QED
    BY <2>1, <2>2
<1>9. ASSUME Register PROVE NothingHidden'
  BY <1>9, GoToFacts, PublishFacts, GrowFacts
  DEF Register, busVars, fillVars, tabVars
<1>10. ASSUME Load PROVE NothingHidden'
  BY <1>10, GoToFacts, PublishFacts, GrowFacts
  DEF Load, busVars, fillVars, tabVars
<1>11. ASSUME Deliver PROVE NothingHidden'
  <2>1. Range(inbox) = {Head(inbox)} \union Range(inbox') /\ shown' = Handled(Head(inbox))
    BY <1>11, RangeHeadTail DEF Deliver
  <2>2. /\ Head(inbox) = Reload => shown' = 1..written
        /\ Head(inbox) # Reload => shown' = shown \union {Head(inbox)}
    BY <2>1 DEF Handled
  <2>3. UNCHANGED <<written, pc, tab>>
    BY <1>11 DEF Deliver, fillVars
  <2>4. CASE Head(inbox) = Reload
    BY <2>2, <2>3, <2>4
  <2>5. CASE Head(inbox) # Reload
    BY <2>1, <2>2, <2>3, <2>5
  <2>6. QED
    BY <2>4, <2>5
<1>12. ASSUME Leave PROVE NothingHidden'
  BY <1>12, GoToFacts, PublishFacts, GrowFacts
  DEF Leave, busVars, fillVars, tabVars
<1>13. CASE UNCHANGED vars
  BY <1>13 DEF vars, busVars, fillVars, tabVars
<1>14. QED
  BY <1>1, <1>2, <1>3, <1>4, <1>5, <1>6, <1>7, <1>8, <1>9, <1>10, <1>11, <1>12, <1>13
  DEF Next, FillStep

-----------------------------------------------------------------------------

LEMMA InitHolds == Init => IInv
<1> SUFFICES ASSUME Init PROVE IInv
  OBVIOUS
<1>1. <<>> \in Seq(0..written) /\ Cardinality({}) = 0
  BY FS_EmptySet, EmptySeq
<1>2. TypeOK
  <2>1. /\ written \in 0..MaxWrites /\ suspendDepth \in Nat /\ visits \in 0..MaxVisits
        /\ batchEvents \subseteq 1..written /\ suspendedEvents \subseteq 1..written
        /\ shown \subseteq 1..written /\ Cardinality(suspendedEvents) <= MaxHeld
    BY <1>1, BoundAssumption DEF Init
  <2>2. inbox \in Seq(0..written)
    BY <1>1 DEF Init
  <2>3. QED
    BY <2>1, <2>2 DEF Init, TypeOK
<1>3. BusInv
  BY SuspendersFacts
     DEF Init, BusInv, FlushHasMode, BatchHasOwner, BatchIsOn, DepthHasOwners, SuspensionIsOn,
         Flushing
<1>4. QED
  BY <1>2, <1>3 DEF Init, IInv, LargeOnly, NothingHidden

\* A fill that is over stays over.
LEMMA EndedStep ==
    ASSUME TypeOK, SmallEnded, [Next]_vars
    PROVE  SmallEnded'
<1>1. PICK f \in Fill : pc[f] = "over" /\ ~large[f]
  BY DEF SmallEnded
<1>2. ASSUME NEW g \in Fill, StartFill(g) \/ FillStep(g) PROVE SmallEnded'
  <2>1. pc[g] # "over"
    BY <1>2 DEF StartFill, FillStep, BeginFlush, Apply, ApplyFails, EndFlush, EndFill
  <2>2. pc'[f] = pc[f]
    BY <1>1, <1>2, <2>1, GoToFacts
    DEF StartFill, FillStep, BeginFlush, Apply, ApplyFails, EndFlush, EndFill, Places
  <2>3. large'[f] = large[f]
    BY <1>1, <1>2, <2>1
    DEF StartFill, FillStep, BeginFlush, Apply, ApplyFails, EndFlush, EndFill, TypeOK
  <2>4. QED
    BY <1>1, <2>2, <2>3 DEF SmallEnded
<1>3. CASE Write \/ ForceResume \/ Register \/ Load \/ Deliver \/ Leave \/ UNCHANGED vars
  BY <1>1, <1>3 DEF Write, ForceResume, Register, Load, Deliver, Leave, fillVars, vars, SmallEnded
<1>4. QED
  BY <1>2, <1>3 DEF Next

LEMMA StepHolds == IInv /\ [Next]_vars => IInv'
BY TypeStep, BatchStep, SuspendStep, LargeStep, HiddenStep, EndedStep DEF IInv, BusInv

(* The inductive invariant holds in every reachable state.                 *)
THEOREM Invariance == Spec => []IInv
BY InitHolds, StepHolds, PTL DEF Spec

(* Every variable keeps its type: no more events are held than the bus     *)
(* allows, and only writes that happened are shown or announced.           *)
THEOREM TypeCorrect == Spec => []TypeOK
BY Invariance, PTL DEF IInv

(* Without a flush under way the bus collects nothing: overlapping batches *)
(* and suspensions, and the safety timer, all come to an end.              *)
THEOREM BusIsReleased == Spec => []HeldIsReleased
<1>1. IInv => HeldIsReleased
  <2> SUFFICES ASSUME IInv, \A f \in Fill : ~Flushing(f)
               PROVE  ~batchMode /\ batchEvents = {} /\ suspendDepth = 0 /\ suspendedEvents = {}
    BY DEF HeldIsReleased
  <2>1. ~batchMode /\ batchEvents = {}
    BY DEF IInv, BusInv, BatchHasOwner, BatchIsOn
  <2>2. Suspenders = {}
    BY DEF Suspenders
  <2>3. suspendDepth = 0
    BY <2>2, FS_EmptySet DEF IInv, BusInv, DepthHasOwners, TypeOK
  <2>4. QED
    BY <2>1, <2>3 DEF IInv, BusInv, SuspensionIsOn
<1>2. QED
  BY Invariance, <1>1, PTL

(* A write the tab does not show is on its way to it, as an event or in    *)
(* the reload a fill ends with, unless a fill of a small gap has ended:    *)
(* nothing else the bus does ever hides a write for good.                  *)
THEOREM OnlySmallFillsHide == Spec => [](SmallEnded \/ NothingHidden)
BY Invariance, PTL DEF IInv

(* Where every gap is a large one nothing is hidden.                       *)
THEOREM WritesReachTheTab == ASSUME ~SmallFills PROVE Spec => []NothingHidden
<1>1. IInv => NothingHidden
  BY DEF IInv, SmallEnded, LargeOnly
<1>2. QED
  BY Invariance, <1>1, PTL

(* What the code says of every fill holds until a small one ends: when all *)
(* is handled and no fill is under way, the tab shows what is stored.      *)
THEOREM QuietUntilSmall == Spec => [](SmallEnded \/ QuietViews)
<1>1. ASSUME IInv, NothingHidden PROVE QuietViews
  <2> SUFFICES ASSUME tab = "live", inbox = <<>>, \A f \in Fill : ~Filling(f)
               PROVE  shown = 1..written
    BY DEF QuietViews
  <2>1. Range(inbox) = {}
    BY DEF Range
  <2>2. 1..written \subseteq shown
    BY <1>1, <2>1 DEF NothingHidden
  <2>3. QED
    BY <1>1, <2>2 DEF IInv, TypeOK
<1>2. IInv => SmallEnded \/ QuietViews
  BY <1>1 DEF IInv
<1>3. QED
  BY Invariance, <1>2, PTL

=============================================================================
