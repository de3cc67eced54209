------------------------------ MODULE UIUpdates ------------------------------
(***************************************************************************)
(* How a write in the worker becomes visible in a tab.  Every write to     *)
(* IndexedDB is published on the worker's UIUpdateBus, and WorkerCore      *)
(* sends what the bus dispatches to the tabs.  While a gap fill flushes,   *)
(* the bus collects events instead: nothing in the worker listens to the   *)
(* bulk update it makes of them, so they end there, and the tabs depend on *)
(* the end of the fill, which makes them read everything again.            *)
(*                                                                         *)
(* The worker never waits for a tab, and tabs do not meet here: one stands *)
(* for all.  Each write is an event of its own.                            *)
(***************************************************************************)
EXTENDS Naturals, Sequences, FiniteSets, SequencesExt

CONSTANTS
    Fill,        \* runs of runGapFill; each happens once
    MaxWrites,   \* bound on the writes
    MaxHeld,     \* MAX_SUSPENDED_EVENTS
    MaxVisits,   \* bound on how often the tab opens
    SmallFills   \* may a gap be below SUSPEND_THRESHOLD

ASSUME FillAssumption == IsFiniteSet(Fill)
ASSUME BoundAssumption == MaxWrites \in Nat /\ MaxHeld \in Nat /\ MaxVisits \in Nat
ASSUME ChoiceAssumption == SmallFills \in BOOLEAN

VARIABLES
    written,          \* the writes in IndexedDB are 1..written
    batchMode,        \* _batchMode
    batchEvents,      \* _batchEvents
    suspendDepth,     \* _suspendDepth; the safety timer runs while it is positive
    suspendedEvents,  \* _suspendedEvents
    pc,               \* where each gap fill is
    large,            \* isLargeGap
    mode,             \* how its flush collects: "batch" or "suspend"
    tab,              \* "away", "loading" (registered, nothing read yet), "live"
    inbox,            \* messages to the tab that it has not handled
    shown,            \* the writes its views show
    visits

busVars == <<batchMode, batchEvents, suspendDepth, suspendedEvents>>
fillVars == <<pc, large, mode>>
tabVars == <<tab, inbox, shown, visits>>
vars == <<written, busVars, fillVars, tabVars>>

Reload == 0    \* the message onGapFillState(false); any other is an event

Init ==
    /\ written = 0
    /\ batchMode = FALSE /\ batchEvents = {}
    /\ suspendDepth = 0 /\ suspendedEvents = {}
    /\ pc = [f \in Fill |-> "new"]
    /\ large = [f \in Fill |-> FALSE]
    /\ mode = [f \in Fill |-> "none"]
    /\ tab = "away" /\ inbox = <<>> /\ shown = {} /\ visits = 0

-----------------------------------------------------------------------------
(* The bus. *)

\* a broadcast reaches the tabs that are registered
Broadcast(m) == inbox' = IF tab = "away" THEN inbox ELSE Append(inbox, m)

\* a plausible slip: one event too many is let in
LimitPassed == ~batchMode /\ suspendDepth > 0 /\ Cardinality(suspendedEvents) > MaxHeld

\* publish throws
LimitReached == ~batchMode /\ suspendDepth > 0 /\ Cardinality(suspendedEvents) >= MaxHeld

\* batch mode has priority over suspension, and only what is not collected goes out
Publish(w) ==
    CASE batchMode ->
           batchEvents' = batchEvents \union {w} /\ UNCHANGED <<suspendedEvents, inbox>>
      [] ~batchMode /\ suspendDepth > 0 ->
           suspendedEvents' = suspendedEvents \union {w} /\ UNCHANGED <<batchEvents, inbox>>
      [] OTHER -> Broadcast(w) /\ UNCHANGED <<batchEvents, suspendedEvents>>

\* a second startBatch is ignored
StartBatch ==
    /\ batchMode' = TRUE
    /\ batchEvents' = IF batchMode THEN batchEvents ELSE {}
    /\ UNCHANGED <<suspendDepth, suspendedEvents>>

\* a plausible slip: batch mode stays on while another flush runs
EndBatchUnlessOthers(f) ==
    /\ batchMode' = (batchMode /\ \E g \in Fill \ {f} : pc[g] \in {"apply", "end"})
    /\ batchEvents' = {}
    /\ UNCHANGED <<suspendDepth, suspendedEvents>>

\* endBatch: the first one ends it for all
EndBatch(f) ==
    /\ batchMode' = FALSE
    /\ batchEvents' = {}
    /\ UNCHANGED <<suspendDepth, suspendedEvents>>

Suspend ==
    /\ suspendDepth' = suspendDepth + 1
    /\ UNCHANGED <<batchMode, batchEvents, suspendedEvents>>

\* resume: ignored when nothing is suspended, as after the safety timer
Resume ==
    /\ suspendDepth' = IF suspendDepth = 0 THEN 0 ELSE suspendDepth - 1
    /\ suspendedEvents' = IF suspendDepth <= 1 THEN {} ELSE suspendedEvents
    /\ UNCHANGED <<batchMode, batchEvents>>

\* _forceResume, after MAX_SUSPEND_MS
ForceResume ==
    /\ suspendDepth > 0
    /\ suspendDepth' = 0
    /\ suspendedEvents' = {}
    /\ UNCHANGED <<written, batchMode, batchEvents, fillVars, tabVars>>

\* a publication, or a write of the user's: its transaction fails when publish throws
Write ==
    /\ written < MaxWrites /\ ~LimitReached
    /\ written' = written + 1
    /\ Publish(written + 1)
    /\ UNCHANGED <<batchMode, suspendDepth, fillVars, tab, shown, visits>>

-----------------------------------------------------------------------------
(* runGapFill and flushGapFillBuffer. *)

GoTo(f, s) == pc' = [pc EXCEPT ![f] = s]

\* the sizes of gap a fill may find
Sizes == IF SmallFills THEN BOOLEAN ELSE {TRUE}

StartFill(f) ==
    /\ pc[f] = "new"
    /\ \E b \in Sizes : large' = [large EXCEPT ![f] = b]
    /\ GoTo(f, "fetch")
    /\ UNCHANGED <<written, busVars, mode, tabVars>>

\* 100 updates or more are collected in batch mode, fewer by suspending the bus
BeginFlush(f, m) ==
    /\ pc[f] = "fetch"
    /\ IF m = "batch" THEN StartBatch ELSE Suspend
    /\ mode' = [mode EXCEPT ![f] = m]
    /\ GoTo(f, "apply")
    /\ UNCHANGED <<written, large, tabVars>>

\* the batch is written; its events follow the transaction, and one too many is an error
Apply(f) ==
    /\ pc[f] = "apply"
    /\ written < MaxWrites
    /\ written' = written + 1
    /\ IF LimitReached
       THEN UNCHANGED <<batchEvents, suspendedEvents, inbox>>
       ELSE Publish(written + 1)
    /\ GoTo(f, "end")
    /\ UNCHANGED <<batchMode, suspendDepth, large, mode, tab, shown, visits>>

ApplyFails(f) ==
    /\ pc[f] = "apply"
    /\ GoTo(f, "end")
    /\ UNCHANGED <<written, busVars, large, mode, tabVars>>

\* the finally block of the flush
EndFlush(f) ==
    /\ pc[f] = "end"
    /\ IF mode[f] = "batch" THEN EndBatch(f) ELSE Resume
    /\ GoTo(f, "fetch")
    /\ UNCHANGED <<written, large, mode, tabVars>>

\* the finally block of the fill: onGapFillEnd
EndFill(f) ==
    /\ pc[f] = "fetch"
    /\ IF large[f] THEN Broadcast(Reload) ELSE UNCHANGED inbox
    /\ GoTo(f, "over")
    /\ UNCHANGED <<written, busVars, large, mode, tab, shown, visits>>

-----------------------------------------------------------------------------
(* The tab. *)

\* the callbacks are registered before anything is read
Register ==
    /\ tab = "away" /\ visits < MaxVisits
    /\ tab' = "loading"
    /\ visits' = visits + 1
    /\ UNCHANGED <<written, busVars, fillVars, inbox, shown>>

Load ==
    /\ tab = "loading"
    /\ tab' = "live"
    /\ shown' = 1..written
    /\ UNCHANGED <<written, busVars, fillVars, inbox, visits>>

\* a plausible slip: the end of a fill only hides the overlay
HandledWithoutReload(m) == IF m = Reload THEN shown ELSE shown \union {m}

\* an event makes the tab read one row, the end of a fill everything
Handled(m) == IF m = Reload THEN 1..written ELSE shown \union {m}

Deliver ==
    /\ inbox # <<>>
    /\ shown' = Handled(Head(inbox))
    /\ inbox' = Tail(inbox)
    /\ UNCHANGED <<written, busVars, fillVars, tab, visits>>

\* the page is closed or loaded anew
Leave ==
    /\ tab # "away"
    /\ tab' = "away" /\ inbox' = <<>> /\ shown' = {}
    /\ UNCHANGED <<written, busVars, fillVars, visits>>

-----------------------------------------------------------------------------

FillStep(f) ==
    \/ \E m \in {"batch", "suspend"} : BeginFlush(f, m)
    \/ Apply(f) \/ ApplyFails(f) \/ EndFlush(f) \/ EndFill(f)

Next ==
    \/ Write \/ ForceResume
    \/ \E f \in Fill : StartFill(f) \/ FillStep(f)
    \/ Register \/ Load \/ Deliver \/ Leave

(* The tab's event loop runs; a fill that was started ends, whether the    *)
(* server answers or the connection is lost, after finitely many flushes.  *)
Fairness ==
    /\ WF_vars(Load) /\ WF_vars(Deliver)
    /\ \A f \in Fill : WF_vars(Apply(f) \/ ApplyFails(f)) /\ WF_vars(EndFlush(f)) /\ SF_vars(EndFill(f))

Spec == Init /\ [][Next]_vars /\ Fairness

-----------------------------------------------------------------------------

Filling(f) == pc[f] \in {"fetch", "apply", "end"}
Flushing(f) == pc[f] \in {"apply", "end"}

TypeOK ==
    /\ written \in 0..MaxWrites
    /\ batchMode \in BOOLEAN /\ batchEvents \subseteq 1..written
    /\ suspendDepth \in Nat /\ suspendedEvents \subseteq 1..written
    /\ Cardinality(suspendedEvents) <= MaxHeld
    /\ pc \in [Fill -> {"new", "fetch", "apply", "end", "over"}]
    /\ large \in [Fill -> BOOLEAN]
    /\ mode \in [Fill -> {"none", "batch", "suspend"}]
    /\ tab \in {"away", "loading", "live"}
    /\ inbox \in Seq(0..written)
    /\ shown \subseteq 1..written
    /\ visits \in 0..MaxVisits

(* A write a tab does not show is on its way to it: as an event, or by a   *)
(* reload that was sent, or by the one a fill under way will send.  What   *)
(* the bus collects and drops meanwhile, of the fill's and of everybody    *)
(* else's writes, is never lost to a tab for good.                         *)
NothingHidden ==
    tab = "live" =>
        \A w \in 1..written :
            w \in shown \union Range(inbox) \/ Reload \in Range(inbox) \/ \E f \in Fill : Filling(f)

(* When no flush is under way the bus hands events out: no overlap of      *)
(* batches, suspensions, late resumes and the safety timer leaves it       *)
(* collecting, with events that nobody will release.                       *)
HeldIsReleased ==
    (\A f \in Fill : ~Flushing(f)) =>
        /\ ~batchMode /\ batchEvents = {}
        /\ suspendDepth = 0 /\ suspendedEvents = {}

(* Once the fills have ended and the tab has handled its messages it shows *)
(* what is stored, after small gaps too: they "can update UI normally".    *)
QuietViews ==
    tab = "live" /\ inbox = <<>> /\ (\A f \in Fill : ~Filling(f)) => shown = 1..written

(* What was written is shown in the end, in every tab that stays open.     *)
ShownInTheEnd ==
    \A w \in 1..MaxWrites :
        (w <= written /\ tab = "live") ~> (w \in shown \/ tab # "live")

=============================================================================
