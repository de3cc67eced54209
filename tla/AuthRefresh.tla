----------------------------- MODULE AuthRefresh -----------------------------
(***************************************************************************)
(* AuthController: how the tabs of one user renew an access token that     *)
(* expires for all of them.  A tab announces its refresh on a              *)
(* BroadcastChannel; a tab that hears of one before it starts its own      *)
(* waits for the result, or for a timer.  Everything but the channel is    *)
(* the tab's own, and runs between two of its awaits without interruption. *)
(***************************************************************************)
EXTENDS Naturals, Sequences

CONSTANTS
    Tab,
    MaxCalls,   \* calls of handleTokenExpired in each tab
    MaxTime,    \* bound on Date.now()
    Internal    \* the built-in endpoint, or else an auth provider of the host

Call == Tab \X (1..MaxCalls)

VARIABLES
    loggedIn,
    refreshing,    \* _refreshing: the call whose refresh it is
    startTime,     \* _refreshStartTime
    deferred,      \* _deferredRefresh: the number of a promise
    resolver,      \* _deferredResolve: the number of the promise it settles
    made,          \* deferred promises made so far
    settled,       \* outcome of each promise
    timers,        \* 15 second timers that run
    inbox,         \* the channel's messages to the tab, in order
    pc,            \* where each call is
    waits,         \* what it awaits: a call's refresh, or a deferred promise
    clock

tabVars == <<loggedIn, refreshing, startTime, deferred, resolver, made, settled, timers>>
vars == <<tabVars, inbox, pc, waits, clock>>

None == 0    \* undefined: no call, no time, no promise

Init ==
    /\ loggedIn = [t \in Tab |-> TRUE]
    /\ refreshing = [t \in Tab |-> None]
    /\ startTime = [t \in Tab |-> None]
    /\ deferred = [t \in Tab |-> None]
    /\ resolver = [t \in Tab |-> None]
    /\ made = [t \in Tab |-> 0]
    /\ settled = [t \in Tab |-> <<>>]
    /\ timers = [t \in Tab |-> 0]
    /\ inbox = [t \in Tab |-> <<>>]
    /\ pc = [c \in Call |-> "new"]
    /\ waits = [c \in Call |-> None]
    /\ clock = 1

-----------------------------------------------------------------------------

GoTo(c, s) == pc' = [pc EXCEPT ![c] = s]

\* a logged-out tab has closed its channel
Heard(from, m) ==
    [t \in Tab |-> IF t # from /\ loggedIn[t] THEN Append(inbox[t], m) ELSE inbox[t]]

\* what a waiting tab does with the result; no promise is settled twice
Settle(t, ok) ==
    /\ settled' = IF resolver[t] = None THEN settled
                  ELSE [settled EXCEPT ![t][resolver[t]] = ok]
    /\ resolver' = [resolver EXCEPT ![t] = None]
    /\ deferred' = [deferred EXCEPT ![t] = IF resolver[t] = None THEN @ ELSE None]

\* ... and with its timer, or a logout
Unblock(t, ok) ==
    IF deferred[t] = None THEN UNCHANGED <<settled, resolver, deferred>> ELSE Settle(t, ok)

Forget(t) ==
    /\ refreshing' = [refreshing EXCEPT ![t] = None]
    /\ startTime' = [startTime EXCEPT ![t] = None]

\* a wait that is settled ends before the tab's next event: its rest is a microtask
Idle(t) ==
    \A c \in Call : c[1] = t /\ pc[c] = "defer" => settled[t][waits[c]] = "pending"

-----------------------------------------------------------------------------
(* _executeRefreshWithGuard. *)

\* announce the refresh and begin it
Begin(c) ==
    /\ \E now \in clock..MaxTime :
           /\ clock' = now
           /\ startTime' = [startTime EXCEPT ![c[1]] = now]
           /\ inbox' = Heard(c[1], [type |-> "start", time |-> now])
    /\ refreshing' = [refreshing EXCEPT ![c[1]] = c[2]]
    /\ GoTo(c, "fetch")

\* handleTokenExpired, by the timer, the visible page or the worker
TokenExpired(c) ==
    /\ pc[c] = "new"
    /\ loggedIn[c[1]] /\ Idle(c[1])
    /\ CASE refreshing[c[1]] # None ->
              /\ GoTo(c, "join")
              /\ waits' = [waits EXCEPT ![c] = refreshing[c[1]]]
              /\ UNCHANGED <<tabVars, inbox, clock>>
         [] refreshing[c[1]] = None /\ deferred[c[1]] # None ->
              /\ GoTo(c, "defer")
              /\ waits' = [waits EXCEPT ![c] = deferred[c[1]]]
              /\ UNCHANGED <<tabVars, inbox, clock>>
         [] OTHER ->
              /\ Begin(c)
              /\ UNCHANGED <<loggedIn, deferred, resolver, made, settled, timers, waits>>

\* the refresh of another call of this tab is over
Joined(c) ==
    /\ pc[c] = "join"
    /\ pc[<<c[1], waits[c]>>] = "done"
    /\ GoTo(c, "done")
    /\ UNCHANGED <<tabVars, inbox, waits, clock>>

\* the other tab refreshed
Deferred(c) ==
    /\ pc[c] = "defer" /\ settled[c[1]][waits[c]] = "yes"
    /\ deferred' = [deferred EXCEPT ![c[1]] = None]
    /\ GoTo(c, "done")
    /\ UNCHANGED <<loggedIn, refreshing, startTime, resolver, made, settled, timers, inbox, waits, clock>>

\* it did not: this one does, without another look at what the tab is doing
DeferredInVain(c) ==
    /\ pc[c] = "defer" /\ settled[c[1]][waits[c]] = "no"
    /\ deferred' = [deferred EXCEPT ![c[1]] = None]
    /\ Begin(c)
    /\ UNCHANGED <<loggedIn, resolver, made, settled, timers, waits>>

\* the new token is stored and passed on
Refreshed(c) ==
    /\ pc[c] = "fetch" /\ Idle(c[1])
    /\ inbox' = IF loggedIn[c[1]] THEN Heard(c[1], [type |-> "success"]) ELSE inbox
    /\ Forget(c[1])
    /\ GoTo(c, "done")
    /\ UNCHANGED <<loggedIn, deferred, resolver, made, settled, timers, waits, clock>>

\* _performLogout closes the channel
LogsOut(t) ==
    /\ loggedIn' = [loggedIn EXCEPT ![t] = FALSE]
    /\ inbox' = [inbox EXCEPT ![t] = <<>>]
    /\ Unblock(t, "no")
    /\ Forget(t)

\* refused, or no answer in ten seconds: the built-in mode logs out first
RefreshFails(c) ==
    /\ pc[c] = "fetch" /\ Idle(c[1])
    /\ GoTo(c, "done")
    /\ IF Internal
       THEN LogsOut(c[1])
       ELSE /\ inbox' = IF loggedIn[c[1]] THEN Heard(c[1], [type |-> "failure"]) ELSE inbox
            /\ Forget(c[1])
            /\ UNCHANGED <<loggedIn, deferred, resolver, settled>>
    /\ UNCHANGED <<made, timers, waits, clock>>

-----------------------------------------------------------------------------
(* The channel and the timers. *)

\* onmessage: the tab that started earlier leads and goes on, any other yields
HearStart(t) ==
    /\ Idle(t) /\ inbox[t] # <<>> /\ Head(inbox[t]).type = "start"
    /\ inbox' = [inbox EXCEPT ![t] = Tail(@)]
    /\ IF startTime[t] # None /\ startTime[t] < Head(inbox[t]).time
       THEN UNCHANGED <<deferred, resolver, made, settled, timers>>
       ELSE /\ made' = [made EXCEPT ![t] = @ + 1]
            /\ settled' = [settled EXCEPT ![t] = Append(@, "pending")]
            /\ deferred' = [deferred EXCEPT ![t] = made[t] + 1]
            /\ resolver' = [resolver EXCEPT ![t] = made[t] + 1]
            /\ timers' = [timers EXCEPT ![t] = @ + 1]
    /\ UNCHANGED <<loggedIn, refreshing, startTime, pc, waits, clock>>

HearResult(t) ==
    /\ Idle(t) /\ inbox[t] # <<>> /\ Head(inbox[t]).type # "start"
    /\ inbox' = [inbox EXCEPT ![t] = Tail(@)]
    /\ Settle(t, IF Head(inbox[t]).type = "success" THEN "yes" ELSE "no")
    /\ Forget(t)
    /\ UNCHANGED <<loggedIn, made, timers, pc, waits, clock>>

\* whichever promise the timer was set for, it settles the present one
Timer(t) ==
    /\ timers[t] > 0 /\ Idle(t)
    /\ timers' = [timers EXCEPT ![t] = @ - 1]
    /\ Unblock(t, "no")
    /\ UNCHANGED <<loggedIn, refreshing, startTime, made, inbox, pc, waits, clock>>

Logout(t) ==
    /\ loggedIn[t] /\ Idle(t)
    /\ LogsOut(t)
    /\ UNCHANGED <<made, timers, pc, waits, clock>>

-----------------------------------------------------------------------------

Fetch(c) == Refreshed(c) \/ RefreshFails(c)

Wake(c) == Joined(c) \/ Deferred(c) \/ DeferredInVain(c)

Hear(t) == HearStart(t) \/ HearResult(t)

Next ==
    \/ \E c \in Call : TokenExpired(c) \/ Wake(c) \/ Fetch(c)
    \/ \E t \in Tab : Hear(t) \/ Timer(t) \/ Logout(t)

\* fetches are aborted after ten seconds, timers fire, messages arrive
Spec ==
    /\ Init /\ [][Next]_vars
    /\ \A c \in Call : WF_vars(Wake(c)) /\ WF_vars(Fetch(c))
    /\ \A t \in Tab : WF_vars(Hear(t)) /\ WF_vars(Timer(t))

Message == [type : {"start"}, time : Nat] \cup [type : {"success", "failure"}]

\* the fields of the controllers, the channel and the calls keep their types
TypeOK ==
    /\ loggedIn \in [Tab -> BOOLEAN]
    /\ refreshing \in [Tab -> 0..MaxCalls] /\ startTime \in [Tab -> Nat]
    /\ deferred \in [Tab -> Nat] /\ resolver \in [Tab -> Nat] /\ made \in [Tab -> Nat]
    /\ settled \in [Tab -> Seq({"pending", "yes", "no"})] /\ timers \in [Tab -> Nat]
    /\ inbox \in [Tab -> Seq(Message)]
    /\ pc \in [Call -> {"new", "fetch", "join", "defer", "done"}] /\ waits \in [Call -> Nat]
    /\ clock \in Nat

(***************************************************************************)
(* The only wait that may have no end is one whose promise another         *)
(* announcement has replaced (line 246): any other is settled, or has the  *)
(* timer of line 251 still running; and who joins a refresh joins one      *)
(* whose fetch, which the network bounds, is under way or over.            *)
(***************************************************************************)
OnlyReplacedWaits ==
    /\ \A c \in Call : pc[c] = "join" => pc[<<c[1], waits[c]>>] \in {"fetch", "done"}
    /\ \A c \in Call : pc[c] = "defer" =>
           \/ settled[c[1]][waits[c]] # "pending"
           \/ waits[c] < made[c[1]]
           \/ deferred[c[1]] = waits[c] /\ timers[c[1]] > 0

(***************************************************************************)
(* "Auto-resolve after timeout to prevent indefinite waiting" (line 249): *)
(* a call of handleTokenExpired returns; the connection that asked for a   *)
(* token waits for it.                                                     *)
(***************************************************************************)
EveryRefreshReturns == \A c \in Call : pc[c] # "new" ~> pc[c] = "done"

=============================================================================
