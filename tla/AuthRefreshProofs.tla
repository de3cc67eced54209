-------------------------- MODULE AuthRefreshProofs --------------------------
(***************************************************************************)
(* How a call of handleTokenExpired may wait, in any number of tabs, calls *)
(* and refreshes.  The promise that counts is the last one made: while it  *)
(* is pending its resolver is at hand and a timer runs.  A wait that is    *)
(* settled ends before the next event of its tab, so nobody clears the     *)
(* promise of another.                                                     *)
(***************************************************************************)
EXTENDS AuthRefresh, SequenceTheorems, TLAPS

\* the present promise of a tab
Promise(t) ==
    /\ Len(settled[t]) = made[t]
    /\ resolver[t] = deferred[t]
    /\ deferred[t] # None =>
         deferred[t] = made[t] /\ settled[t][made[t]] = "pending" /\ timers[t] > 0

\* the refresh a tab knows of is under way
Refreshing(t) ==
    \A i \in 1..MaxCalls : refreshing[t] = i => pc[<<t, i>>] = "fetch"

\* what a call waits for
Joining(c) ==
    pc[c] = "join" =>
      waits[c] \in 1..MaxCalls /\ pc[<<c[1], waits[c]>>] \in {"fetch", "done"}

Deferring(c) ==
    pc[c] = "defer" =>
      /\ waits[c] \in 1..made[c[1]]
      /\ settled[c[1]][waits[c]] = "pending" =>
           waits[c] < made[c[1]] \/ deferred[c[1]] = waits[c]
      /\ settled[c[1]][waits[c]] # "pending" => deferred[c[1]] = None

IInv ==
    /\ TypeOK
    /\ \A t \in Tab : Promise(t)
    /\ \A t \in Tab : Refreshing(t)
    /\ \A c \in Call : Joining(c)
    /\ \A c \in Call : Deferring(c)

-----------------------------------------------------------------------------

Bounds == MaxCalls \in Nat /\ MaxTime \in Nat

\* a call is a tab and a number
LEMMA Calls ==
    ASSUME NEW c \in Call
    PROVE  c[1] \in Tab /\ c[2] \in 1..MaxCalls /\ c = <<c[1], c[2]>>
  BY DEF Call

\* messages go to inboxes
LEMMA HeardType ==
    ASSUME TypeOK, NEW from \in Tab, NEW m \in Message
    PROVE  Heard(from, m) \in [Tab -> Seq(Message)]
  BY DEF TypeOK, Heard

\* settling the present promise leaves no present promise, and no other changed
LEMMA SettleStep ==
    ASSUME TypeOK, NEW t \in Tab, Promise(t), NEW ok \in {"yes", "no"},
           Settle(t, ok) \/ Unblock(t, ok)
    PROVE  /\ settled' \in [Tab -> Seq({"pending", "yes", "no"})]
           /\ deferred' \in [Tab -> Nat] /\ resolver' \in [Tab -> Nat]
           /\ deferred'[t] = None /\ resolver'[t] = None
           /\ Len(settled'[t]) = Len(settled[t])
           /\ \A i \in 1..made[t] : i # deferred[t] => settled'[t][i] = settled[t][i]
           /\ deferred[t] # None => settled'[t][deferred[t]] = ok
           /\ \A u \in Tab \ {t} : /\ settled'[u] = settled[u]
                                   /\ deferred'[u] = deferred[u]
                                   /\ resolver'[u] = resolver[u]
  <1>1. CASE deferred[t] = None
    <2>1. resolver[t] = None
      BY <1>1 DEF Promise
    <2>2. settled' = settled /\ deferred' = deferred /\ resolver' = resolver
      BY <1>1, <2>1 DEF Settle, Unblock, TypeOK
    <2>3. QED
      BY <1>1, <2>1, <2>2 DEF TypeOK
  <1>2. CASE deferred[t] # None
    <2>1. resolver[t] = deferred[t] /\ deferred[t] = made[t] /\ Len(settled[t]) = made[t]
      BY <1>2 DEF Promise
    <2>2. Settle(t, ok)
      BY <1>2 DEF Unblock
    <2>3. deferred[t] \in 1..Len(settled[t]) /\ settled[t] \in Seq({"pending", "yes", "no"})
      BY <1>2, <2>1 DEF TypeOK, None
    <2>4. settled' = [settled EXCEPT ![t] = [@ EXCEPT ![deferred[t]] = ok]]
      BY <1>2, <2>1, <2>2 DEF Settle
    <2>5. settled'[t] = [settled[t] EXCEPT ![deferred[t]] = ok]
      BY <2>4 DEF TypeOK
    <2>6. settled'[t] \in Seq({"pending", "yes", "no"}) /\ Len(settled'[t]) = Len(settled[t])
      BY <2>3, <2>5, ExceptSeq
    <2>7. settled' \in [Tab -> Seq({"pending", "yes", "no"})]
      BY <2>4, <2>5, <2>6 DEF TypeOK
    <2>8. \A i \in 1..made[t] : i # deferred[t] => settled'[t][i] = settled[t][i]
      BY <2>1, <2>3, <2>5
    <2>9. settled'[t][deferred[t]] = ok
      BY <2>3, <2>5
    <2>10. /\ deferred' = [deferred EXCEPT ![t] = None]
           /\ resolver' = [resolver EXCEPT ![t] = None]
      BY <1>2, <2>1, <2>2 DEF Settle
    <2>11. \A u \in Tab \ {t} : settled'[u] = settled[u]
      BY <2>4 DEF TypeOK
    <2>12. QED
      BY <2>6, <2>7, <2>8, <2>9, <2>10, <2>11 DEF TypeOK, None
  <1>3. QED
    BY <1>1, <1>2

\* after it no wait of that tab is left pending, but those already replaced
LEMMA Released ==
    ASSUME IInv, NEW t \in Tab, NEW ok \in {"yes", "no"}, Idle(t),
           Settle(t, ok) \/ Unblock(t, ok),
           made' = made, \A u \in Tab \ {t} : timers'[u] = timers[u],
           waits' = waits, \A c \in Call : pc'[c] = "defer" => pc[c] = "defer"
    PROVE  (\A u \in Tab : Promise(u))' /\ (\A c \in Call : Deferring(c))'
  <1>1. TypeOK /\ \A u \in Tab : Promise(u)
    BY DEF IInv
  <1>2. /\ deferred'[t] = None /\ resolver'[t] = None
        /\ Len(settled'[t]) = Len(settled[t])
        /\ \A i \in 1..made[t] : i # deferred[t] => settled'[t][i] = settled[t][i]
        /\ deferred[t] # None => settled'[t][deferred[t]] = ok
        /\ \A u \in Tab \ {t} : /\ settled'[u] = settled[u]
                                /\ deferred'[u] = deferred[u]
                                /\ resolver'[u] = resolver[u]
    BY <1>1, SettleStep
  <1>3. ASSUME NEW u \in Tab PROVE Promise(u)'
    BY <1>1, <1>2 DEF Promise
  <1>4. ASSUME NEW c \in Call PROVE Deferring(c)'
    <2>1. CASE c[1] = t /\ pc'[c] = "defer"
      <3>1. pc[c] = "defer" /\ Deferring(c) /\ settled[t][waits[c]] = "pending"
        BY <2>1 DEF IInv, Idle
      <3>2. waits[c] \in 1..made[t] /\ (waits[c] < made[t] \/ deferred[t] = waits[c])
        BY <2>1, <3>1 DEF Deferring
      <3>3. CASE waits[c] = deferred[t]
        BY <1>2, <2>1, <3>2, <3>3 DEF Deferring, None
      <3>4. CASE waits[c] # deferred[t]
        BY <1>2, <2>1, <3>1, <3>2, <3>4 DEF Deferring
      <3>5. QED
        BY <3>3, <3>4
    <2>2. CASE c[1] # t /\ pc'[c] = "defer"
      <3>1. c[1] \in Tab \ {t}
        BY <2>2, Calls
      <3>2. QED
        BY <1>2, <2>2, <3>1 DEF IInv, Deferring
    <2>3. QED
      BY <2>1, <2>2 DEF Deferring
  <1>5. QED
    BY <1>3, <1>4

\* who joins a refresh is not disturbed by a call that begins one, or ends
LEMMA JoiningKept ==
    ASSUME IInv, NEW c \in Call, NEW s \in {"fetch", "done"}, GoTo(c, s), waits' = waits
    PROVE  (\A d \in Call : Joining(d))'
  <1>1. SUFFICES ASSUME NEW d \in Call, pc'[d] = "join"
                 PROVE  waits[d] \in 1..MaxCalls /\ pc'[<<d[1], waits[d]>>] \in {"fetch", "done"}
    BY DEF Joining
  <1>2. pc[d] = "join" /\ Joining(d)
    BY <1>1 DEF IInv, TypeOK, GoTo
  <1>3. waits[d] \in 1..MaxCalls /\ pc[<<d[1], waits[d]>>] \in {"fetch", "done"}
    BY <1>2 DEF Joining
  <1>4. <<d[1], waits[d]>> \in Call
    BY <1>3, Calls DEF Call
  <1>5. QED
    BY <1>3, <1>4 DEF IInv, TypeOK, GoTo

\* a tab that forgets its refresh has none
LEMMA ForgetType ==
    ASSUME TypeOK, Bounds, NEW t \in Tab, Forget(t)
    PROVE  refreshing' \in [Tab -> 0..MaxCalls] /\ startTime' \in [Tab -> Nat]
  <1>1. None \in 0..MaxCalls /\ None \in Nat
    BY DEF Bounds, None
  <1>2. QED
    BY <1>1 DEF TypeOK, Forget

\* nor is the refresh of its tab, once the tab forgets it
LEMMA RefreshForgotten ==
    ASSUME IInv, Bounds, NEW t \in Tab, Forget(t),
           \A d \in Call : d[1] # t => pc'[d] = pc[d]
    PROVE  (\A u \in Tab : Refreshing(u))'
  <1>1. SUFFICES ASSUME NEW u \in Tab, NEW i \in 1..MaxCalls, refreshing'[u] = i
                 PROVE  pc'[<<u, i>>] = "fetch"
    BY DEF Refreshing
  <1>2. u # t
    BY <1>1 DEF Forget, IInv, TypeOK, None, Bounds
  <1>3. refreshing[u] = i /\ <<u, i>> \in Call
    BY <1>1, <1>2 DEF Forget, IInv, TypeOK, Call
  <1>4. QED
    BY <1>2, <1>3 DEF IInv, Refreshing

-----------------------------------------------------------------------------

LEMMA Start == Bounds /\ Init => IInv
  <1>1. SUFFICES ASSUME Bounds, Init PROVE IInv
    OBVIOUS
  <1>2. TypeOK
    BY <1>1 DEF Init, TypeOK, Bounds, None
  <1>3. QED
    BY <1>1, <1>2, Calls DEF Init, IInv, Promise, Refreshing, Joining, Deferring, None, Bounds

\* a refresh begins: nobody waits for anything else than before
LEMMA BeginStep ==
    ASSUME IInv, Bounds, NEW c \in Call, Begin(c), waits' = waits
    PROVE  /\ inbox' \in [Tab -> Seq(Message)] /\ clock' \in Nat
           /\ refreshing' \in [Tab -> 0..MaxCalls] /\ startTime' \in [Tab -> Nat]
           /\ pc' = [pc EXCEPT ![c] = "fetch"]
           /\ (\A t \in Tab : Refreshing(t))' /\ (\A d \in Call : Joining(d))'
  <1>1. TypeOK /\ c[1] \in Tab /\ c[2] \in 1..MaxCalls /\ c = <<c[1], c[2]>>
    BY Calls DEF IInv
  <1>2. PICK now \in clock..MaxTime :
            /\ clock' = now
            /\ startTime' = [startTime EXCEPT ![c[1]] = now]
            /\ inbox' = Heard(c[1], [type |-> "start", time |-> now])
    BY DEF Begin
  <1>3. now \in Nat
    BY <1>1 DEF TypeOK, Bounds
  <1>4. inbox' \in [Tab -> Seq(Message)]
    <2>1. [type |-> "start", time |-> now] \in Message
      BY <1>3 DEF Message
    <2>2. QED
      BY <1>1, <1>2, <2>1, HeardType
  <1>5. /\ refreshing' = [refreshing EXCEPT ![c[1]] = c[2]]
        /\ pc' = [pc EXCEPT ![c] = "fetch"]
    BY DEF Begin, GoTo
  <1>6. refreshing' \in [Tab -> 0..MaxCalls] /\ startTime' \in [Tab -> Nat]
    BY <1>1, <1>2, <1>3, <1>5 DEF TypeOK, Bounds
  <1>7. ASSUME NEW t \in Tab, NEW i \in 1..MaxCalls, refreshing'[t] = i
        PROVE  pc'[<<t, i>>] = "fetch"
    <2>1. <<t, i>> \in Call
      BY DEF Call
    <2>2. CASE t = c[1]
      BY <1>1, <1>5, <1>7, <2>1, <2>2 DEF TypeOK
    <2>3. CASE t # c[1]
      BY <1>1, <1>5, <1>7, <2>1, <2>3 DEF TypeOK, IInv, Refreshing
    <2>4. QED
      BY <2>2, <2>3
  <1>8. (\A d \in Call : Joining(d))'
    BY JoiningKept DEF Begin
  <1>9. QED
    BY <1>2, <1>3, <1>4, <1>5, <1>6, <1>7, <1>8 DEF Refreshing

\* the tab's own steps that leave its promise alone keep what is said of the promises
LEMMA PromisesKept ==
    ASSUME IInv, UNCHANGED <<made, settled, deferred, resolver, timers, waits>>,
           \A c \in Call : pc'[c] = "defer" => pc[c] = "defer"
    PROVE  (\A t \in Tab : Promise(t))' /\ (\A c \in Call : Deferring(c))'
  BY DEF IInv, Promise, Deferring

LEMMA TokenExpiredStep ==
    ASSUME IInv, Bounds, NEW c \in Call, TokenExpired(c)
    PROVE  IInv'
  <1>0. TypeOK /\ c[1] \in Tab /\ c[2] \in 1..MaxCalls /\ c = <<c[1], c[2]>>
    BY Calls DEF IInv
  <1>1. CASE refreshing[c[1]] # None
    <2>1. /\ pc' = [pc EXCEPT ![c] = "join"]
          /\ waits' = [waits EXCEPT ![c] = refreshing[c[1]]]
          /\ UNCHANGED <<tabVars, inbox, clock>>
      BY <1>1 DEF TokenExpired, GoTo
    <2>2. refreshing[c[1]] \in 1..MaxCalls /\ pc[<<c[1], refreshing[c[1]]>>] = "fetch"
      BY <1>0, <1>1 DEF IInv, TypeOK, Refreshing, None, Bounds
    <2>3. TypeOK'
      <3>1. waits' \in [Call -> Nat] /\ pc' \in [Call -> {"new", "fetch", "join", "defer", "done"}]
        BY <1>0, <2>1, <2>2 DEF TypeOK
      <3>2. QED
        BY <1>0, <2>1, <3>1 DEF TypeOK, tabVars
    <2>4. pc[c] = "new"
      BY DEF TokenExpired
    <2>5. \A t \in Tab : Promise(t)'
      BY <2>1 DEF IInv, Promise, tabVars
    <2>6. ASSUME NEW t \in Tab PROVE Refreshing(t)'
      BY <1>0, <2>1, <2>4 DEF IInv, Refreshing, TypeOK, tabVars, Call
    <2>7. ASSUME NEW d \in Call, pc'[d] = "join"
          PROVE  waits'[d] \in 1..MaxCalls /\ pc'[<<d[1], waits'[d]>>] \in {"fetch", "done"}
      <3>1. CASE d = c
        <4>1. <<c[1], refreshing[c[1]]>> # c
          BY <2>2, <2>4
        <4>2. <<c[1], refreshing[c[1]]>> \in Call
          BY <1>0, <2>2 DEF Call
        <4>3. QED
          BY <1>0, <2>1, <2>2, <3>1, <4>1, <4>2 DEF TypeOK
      <3>2. CASE d # c
        <4>1. /\ waits'[d] = waits[d] /\ waits[d] \in 1..MaxCalls
              /\ pc[<<d[1], waits[d]>>] \in {"fetch", "done"}
          BY <1>0, <2>1, <2>7, <3>2 DEF IInv, Joining, TypeOK
        <4>2. <<d[1], waits[d]>> \in Call /\ <<d[1], waits[d]>> # c
          BY <2>4, <4>1, Calls DEF Call
        <4>3. QED
          BY <1>0, <2>1, <4>1, <4>2 DEF TypeOK
      <3>3. QED
        BY <3>1, <3>2
    <2>8. ASSUME NEW d \in Call PROVE Deferring(d)'
      BY <1>0, <2>1 DEF IInv, Deferring, TypeOK, tabVars
    <2>9. QED
      BY <2>3, <2>5, <2>6, <2>7, <2>8 DEF IInv, Joining
  <1>2. CASE refreshing[c[1]] = None /\ deferred[c[1]] # None
    <2>1. /\ pc' = [pc EXCEPT ![c] = "defer"]
          /\ waits' = [waits EXCEPT ![c] = deferred[c[1]]]
          /\ UNCHANGED <<tabVars, inbox, clock>>
      BY <1>2 DEF TokenExpired, GoTo
    <2>2. /\ deferred[c[1]] \in 1..made[c[1]]
          /\ settled[c[1]][deferred[c[1]]] = "pending"
      BY <1>0, <1>2 DEF IInv, TypeOK, Promise, None
    <2>3. TypeOK'
      BY <1>0, <2>1 DEF TypeOK, tabVars
    <2>4. pc[c] = "new"
      BY DEF TokenExpired
    <2>5. \A t \in Tab : Promise(t)'
      BY <2>1 DEF IInv, Promise, tabVars
    <2>6. ASSUME NEW t \in Tab PROVE Refreshing(t)'
      BY <1>0, <2>1, <2>4 DEF IInv, Refreshing, TypeOK, tabVars, Call
    <2>7. ASSUME NEW d \in Call, pc'[d] = "join"
          PROVE  waits'[d] \in 1..MaxCalls /\ pc'[<<d[1], waits'[d]>>] \in {"fetch", "done"}
      <3>1. d # c /\ pc[d] = "join" /\ waits'[d] = waits[d]
        BY <1>0, <2>1, <2>7 DEF TypeOK
      <3>2. waits[d] \in 1..MaxCalls /\ pc[<<d[1], waits[d]>>] \in {"fetch", "done"}
        BY <3>1 DEF IInv, Joining
      <3>3. <<d[1], waits[d]>> \in Call /\ <<d[1], waits[d]>> # c
        BY <2>4, <3>2, Calls DEF Call
      <3>4. QED
        BY <1>0, <2>1, <3>1, <3>2, <3>3 DEF TypeOK
    <2>8. ASSUME NEW d \in Call PROVE Deferring(d)'
      <3>1. CASE d = c
        BY <1>0, <2>1, <2>2, <3>1 DEF Deferring, TypeOK, tabVars
      <3>2. CASE d # c
        BY <1>0, <2>1, <3>2 DEF IInv, Deferring, TypeOK, tabVars
      <3>3. QED
        BY <3>1, <3>2
    <2>9. QED
      BY <2>3, <2>5, <2>6, <2>7, <2>8 DEF IInv, Joining
  <1>3. CASE refreshing[c[1]] = None /\ deferred[c[1]] = None
    <2>1. /\ Begin(c)
          /\ UNCHANGED <<loggedIn, deferred, resolver, made, settled, timers, waits>>
      BY <1>3 DEF TokenExpired
    <2>2. /\ inbox' \in [Tab -> Seq(Message)] /\ clock' \in Nat
          /\ refreshing' \in [Tab -> 0..MaxCalls] /\ startTime' \in [Tab -> Nat]
          /\ pc' = [pc EXCEPT ![c] = "fetch"]
          /\ (\A t \in Tab : Refreshing(t))' /\ (\A d \in Call : Joining(d))'
      BY <2>1, BeginStep
    <2>3. TypeOK'
      BY <1>0, <2>1, <2>2 DEF TypeOK
    <2>4. \A d \in Call : pc'[d] = "defer" => pc[d] = "defer"
      BY <1>0, <2>2 DEF TypeOK
    <2>5. (\A t \in Tab : Promise(t))' /\ (\A d \in Call : Deferring(d))'
      BY <2>1, <2>4, PromisesKept
    <2>6. QED
      BY <2>2, <2>3, <2>5 DEF IInv
  <1>4. QED
    BY <1>1, <1>2, <1>3

LEMMA JoinedStep ==
    ASSUME IInv, NEW c \in Call, Joined(c)
    PROVE  IInv'
  <1>1. /\ TypeOK /\ pc[c] = "join" /\ pc' = [pc EXCEPT ![c] = "done"]
        /\ UNCHANGED <<tabVars, inbox, waits, clock>>
    BY DEF IInv, Joined, GoTo
  <1>2. TypeOK'
    BY <1>1 DEF TypeOK, tabVars
  <1>3. \A d \in Call : pc'[d] = "defer" => pc[d] = "defer"
    BY <1>1 DEF TypeOK
  <1>4. (\A t \in Tab : Promise(t))' /\ (\A d \in Call : Deferring(d))'
    BY <1>1, <1>3, PromisesKept DEF tabVars
  <1>5. ASSUME NEW t \in Tab PROVE Refreshing(t)'
    BY <1>1 DEF IInv, Refreshing, TypeOK, tabVars, Call
  <1>6. (\A d \in Call : Joining(d))'
    BY <1>1, JoiningKept DEF Joined
  <1>7. QED
    BY <1>2, <1>4, <1>5, <1>6 DEF IInv

\* a wait that ends clears a promise that is cleared already
LEMMA ClearedTwice ==
    ASSUME IInv, NEW c \in Call, pc[c] = "defer", settled[c[1]][waits[c]] # "pending",
           deferred' = [deferred EXCEPT ![c[1]] = None]
    PROVE  deferred' = deferred
  <1>1. deferred[c[1]] = None
    BY DEF IInv, Deferring
  <1>2. QED
    BY <1>1, Calls DEF IInv, TypeOK

LEMMA DeferredStep ==
    ASSUME IInv, NEW c \in Call, Deferred(c)
    PROVE  IInv'
  <1>1. /\ TypeOK /\ pc[c] = "defer" /\ pc' = [pc EXCEPT ![c] = "done"]
        /\ UNCHANGED <<loggedIn, refreshing, startTime, resolver, made, settled, timers, inbox, waits, clock>>
    BY DEF IInv, Deferred, GoTo
  <1>2. deferred' = deferred
    BY ClearedTwice DEF Deferred
  <1>3. TypeOK'
    BY <1>1, <1>2 DEF TypeOK
  <1>4. \A d \in Call : pc'[d] = "defer" => pc[d] = "defer"
    BY <1>1 DEF TypeOK
  <1>5. (\A t \in Tab : Promise(t))' /\ (\A d \in Call : Deferring(d))'
    BY <1>1, <1>2, <1>4, PromisesKept
  <1>6. ASSUME NEW t \in Tab PROVE Refreshing(t)'
    BY <1>1 DEF IInv, Refreshing, TypeOK, Call
  <1>7. (\A d \in Call : Joining(d))'
    BY <1>1, JoiningKept DEF Deferred
  <1>8. QED
    BY <1>3, <1>5, <1>6, <1>7 DEF IInv

LEMMA DeferredInVainStep ==
    ASSUME IInv, Bounds, NEW c \in Call, DeferredInVain(c)
    PROVE  IInv'
  <1>1. /\ TypeOK /\ Begin(c)
        /\ UNCHANGED <<loggedIn, resolver, made, settled, timers, waits>>
    BY DEF IInv, DeferredInVain
  <1>2. deferred' = deferred
    BY ClearedTwice DEF DeferredInVain
  <1>3. /\ inbox' \in [Tab -> Seq(Message)] /\ clock' \in Nat
        /\ refreshing' \in [Tab -> 0..MaxCalls] /\ startTime' \in [Tab -> Nat]
        /\ pc' = [pc EXCEPT ![c] = "fetch"]
        /\ (\A t \in Tab : Refreshing(t))' /\ (\A d \in Call : Joining(d))'
    BY <1>1, BeginStep
  <1>4. TypeOK'
    BY <1>1, <1>2, <1>3 DEF TypeOK
  <1>5. \A d \in Call : pc'[d] = "defer" => pc[d] = "defer"
    BY <1>1, <1>3 DEF TypeOK
  <1>6. (\A t \in Tab : Promise(t))' /\ (\A d \in Call : Deferring(d))'
    BY <1>1, <1>2, <1>5, PromisesKept
  <1>7. QED
    BY <1>3, <1>4, <1>6 DEF IInv

\* the results a tab announces
LEMMA Announced ==
    ASSUME TypeOK, NEW t \in Tab, NEW m \in Message,
           inbox' = IF loggedIn[t] THEN Heard(t, m) ELSE inbox
    PROVE  inbox' \in [Tab -> Seq(Message)]
  BY HeardType DEF TypeOK

LEMMA RefreshedStep ==
    ASSUME IInv, Bounds, NEW c \in Call, Refreshed(c)
    PROVE  IInv'
  <1>1. /\ TypeOK /\ c[1] \in Tab /\ pc' = [pc EXCEPT ![c] = "done"] /\ Forget(c[1])
        /\ UNCHANGED <<loggedIn, deferred, resolver, made, settled, timers, waits, clock>>
    BY Calls DEF IInv, Refreshed, GoTo
  <1>2. inbox' \in [Tab -> Seq(Message)]
    BY <1>1, Announced DEF Refreshed, Message
  <1>3. TypeOK'
    BY <1>1, <1>2, ForgetType DEF TypeOK
  <1>4. \A d \in Call : pc'[d] = "defer" => pc[d] = "defer"
    BY <1>1 DEF TypeOK
  <1>5. (\A t \in Tab : Promise(t))' /\ (\A d \in Call : Deferring(d))'
    BY <1>1, <1>4, PromisesKept
  <1>6. (\A t \in Tab : Refreshing(t))'
    BY <1>1, RefreshForgotten DEF TypeOK
  <1>7. (\A d \in Call : Joining(d))'
    BY <1>1, JoiningKept DEF Refreshed
  <1>8. QED
    BY <1>3, <1>5, <1>6, <1>7 DEF IInv

\* a logout, whatever becomes of the call that led to it
LEMMA LogsOutStep ==
    ASSUME IInv, Bounds, NEW t \in Tab, Idle(t), LogsOut(t), UNCHANGED <<made, timers, waits, clock>>,
           pc' \in [Call -> {"new", "fetch", "join", "defer", "done"}],
           \A d \in Call : d[1] # t => pc'[d] = pc[d],
           \A d \in Call : pc'[d] = "defer" => pc[d] = "defer",
           (\A d \in Call : Joining(d))'
    PROVE  IInv'
  <1>1. TypeOK /\ Unblock(t, "no") /\ Promise(t)
    BY DEF IInv, LogsOut
  <1>2. /\ settled' \in [Tab -> Seq({"pending", "yes", "no"})]
        /\ deferred' \in [Tab -> Nat] /\ resolver' \in [Tab -> Nat]
    BY <1>1, SettleStep
  <1>3. TypeOK'
    <2>1. refreshing' \in [Tab -> 0..MaxCalls] /\ startTime' \in [Tab -> Nat]
      BY <1>1, ForgetType DEF LogsOut
    <2>2. inbox' \in [Tab -> Seq(Message)] /\ loggedIn' \in [Tab -> BOOLEAN]
      BY <1>1, EmptySeq DEF TypeOK, LogsOut
    <2>3. QED
      BY <1>1, <1>2, <2>1, <2>2 DEF TypeOK
  <1>4. (\A u \in Tab : Promise(u))' /\ (\A d \in Call : Deferring(d))'
    BY <1>1, Released
  <1>5. (\A u \in Tab : Refreshing(u))'
    BY RefreshForgotten DEF LogsOut
  <1>6. QED
    BY <1>3, <1>4, <1>5 DEF IInv

LEMMA RefreshFailsStep ==
    ASSUME IInv, Bounds, NEW c \in Call, RefreshFails(c)
    PROVE  IInv'
  <1>1. /\ TypeOK /\ c[1] \in Tab /\ Idle(c[1]) /\ pc' = [pc EXCEPT ![c] = "done"]
        /\ UNCHANGED <<made, timers, waits, clock>>
    BY Calls DEF IInv, RefreshFails, GoTo
  <1>2. \A d \in Call : pc'[d] = "defer" => pc[d] = "defer"
    BY <1>1 DEF TypeOK
  <1>3. (\A d \in Call : Joining(d))'
    BY <1>1, JoiningKept DEF RefreshFails
  <1>4. CASE Internal
    BY <1>1, <1>2, <1>3, <1>4, LogsOutStep DEF RefreshFails, TypeOK
  <1>5. CASE ~Internal
    <2>1. /\ Forget(c[1]) /\ UNCHANGED <<loggedIn, deferred, resolver, settled>>
          /\ inbox' = IF loggedIn[c[1]] THEN Heard(c[1], [type |-> "failure"]) ELSE inbox
      BY <1>5 DEF RefreshFails
    <2>2. inbox' \in [Tab -> Seq(Message)]
      BY <1>1, <2>1, Announced DEF Message
    <2>3. TypeOK'
      BY <1>1, <2>1, <2>2, ForgetType DEF TypeOK
    <2>4. (\A t \in Tab : Promise(t))' /\ (\A d \in Call : Deferring(d))'
      BY <1>1, <1>2, <2>1, PromisesKept
    <2>5. (\A t \in Tab : Refreshing(t))'
      BY <1>1, <2>1, RefreshForgotten DEF TypeOK
    <2>6. QED
      BY <1>3, <2>3, <2>4, <2>5 DEF IInv
  <1>6. QED
    BY <1>4, <1>5

-----------------------------------------------------------------------------

\* reading a message leaves a shorter inbox
LEMMA InboxRead ==
    ASSUME TypeOK, NEW t \in Tab, inbox[t] # <<>>, inbox' = [inbox EXCEPT ![t] = Tail(@)]
    PROVE  inbox' \in [Tab -> Seq(Message)]
  BY DEF TypeOK

\* calls that do not move keep what they join
LEMMA CallsStay ==
    ASSUME IInv, UNCHANGED <<pc, waits>>
    PROVE  (\A c \in Call : Joining(c))'
  BY DEF IInv, Joining

\* a new promise: nobody waits for it yet, and who waits for another has lost it
LEMMA Yields ==
    ASSUME IInv, NEW t \in Tab, Idle(t), UNCHANGED <<pc, waits>>,
           made' = [made EXCEPT ![t] = @ + 1],
           settled' = [settled EXCEPT ![t] = Append(@, "pending")],
           deferred' = [deferred EXCEPT ![t] = made[t] + 1],
           resolver' = [resolver EXCEPT ![t] = made[t] + 1],
           timers' = [timers EXCEPT ![t] = @ + 1]
    PROVE  (\A u \in Tab : Promise(u))' /\ (\A c \in Call : Deferring(c))'
  <1>1. /\ TypeOK /\ made[t] \in Nat /\ Len(settled[t]) = made[t] /\ timers[t] \in Nat
        /\ settled[t] \in Seq({"pending", "yes", "no"})
    BY DEF IInv, TypeOK, Promise
  <1>2. /\ settled'[t] = Append(settled[t], "pending") /\ Len(settled'[t]) = made[t] + 1
        /\ settled'[t][made[t] + 1] = "pending"
        /\ \A i \in 1..made[t] : settled'[t][i] = settled[t][i]
    <2>1. settled'[t] = Append(settled[t], "pending")
      BY <1>1 DEF TypeOK
    <2>2. QED
      BY <1>1, <2>1, AppendProperties
  <1>3. ASSUME NEW u \in Tab PROVE Promise(u)'
    <2>1. CASE u = t
      BY <1>1, <1>2, <2>1 DEF Promise, TypeOK
    <2>2. CASE u # t
      BY <1>1, <2>2 DEF Promise, TypeOK, IInv
    <2>3. QED
      BY <2>1, <2>2
  <1>4. ASSUME NEW c \in Call PROVE Deferring(c)'
    <2>1. CASE c[1] = t /\ pc[c] = "defer"
      <3>1. settled[t][waits[c]] = "pending" /\ waits[c] \in 1..made[t]
        BY <2>1 DEF Idle, IInv, Deferring
      <3>2. settled'[t][waits[c]] = "pending" /\ made'[t] = made[t] + 1
        BY <1>1, <1>2, <3>1 DEF TypeOK
      <3>3. QED
        BY <1>1, <2>1, <3>1, <3>2 DEF Deferring
    <2>2. CASE c[1] # t /\ pc[c] = "defer"
      BY <1>1, <2>2, Calls DEF Deferring, TypeOK, IInv
    <2>3. QED
      BY <2>1, <2>2 DEF Deferring
  <1>5. QED
    BY <1>3, <1>4

LEMMA HearStartStep ==
    ASSUME IInv, NEW t \in Tab, HearStart(t)
    PROVE  IInv'
  <1>1. /\ TypeOK /\ Idle(t) /\ inbox[t] # <<>> /\ inbox' = [inbox EXCEPT ![t] = Tail(@)]
        /\ UNCHANGED <<loggedIn, refreshing, startTime, pc, waits, clock>>
    BY DEF IInv, HearStart
  <1>2. inbox' \in [Tab -> Seq(Message)]
    BY <1>1, InboxRead
  <1>3. (\A c \in Call : Joining(c))'
    BY <1>1, CallsStay
  <1>4. (\A u \in Tab : Refreshing(u))'
    BY <1>1 DEF IInv, Refreshing
  <1>5. CASE UNCHANGED <<deferred, resolver, made, settled, timers>>
    <2>1. TypeOK'
      BY <1>1, <1>2, <1>5 DEF TypeOK
    <2>2. (\A u \in Tab : Promise(u))' /\ (\A c \in Call : Deferring(c))'
      BY <1>1, <1>5, PromisesKept
    <2>3. QED
      BY <1>3, <1>4, <2>1, <2>2 DEF IInv
  <1>6. CASE /\ made' = [made EXCEPT ![t] = @ + 1]
             /\ settled' = [settled EXCEPT ![t] = Append(@, "pending")]
             /\ deferred' = [deferred EXCEPT ![t] = made[t] + 1]
             /\ resolver' = [resolver EXCEPT ![t] = made[t] + 1]
             /\ timers' = [timers EXCEPT ![t] = @ + 1]
    <2>1. TypeOK'
      BY <1>1, <1>2, <1>6, SMTT(30) DEF TypeOK
    <2>2. (\A u \in Tab : Promise(u))' /\ (\A c \in Call : Deferring(c))'
      BY <1>1, <1>6, Yields
    <2>3. QED
      BY <1>3, <1>4, <2>1, <2>2 DEF IInv
  <1>7. QED
    BY <1>5, <1>6 DEF HearStart

LEMMA HearResultStep ==
    ASSUME IInv, Bounds, NEW t \in Tab, HearResult(t)
    PROVE  IInv'
  <1>1. PICK ok \in {"yes", "no"} : Settle(t, ok)
    BY DEF HearResult
  <1>2. /\ TypeOK /\ Promise(t) /\ Idle(t) /\ inbox[t] # <<>> /\ Forget(t)
        /\ inbox' = [inbox EXCEPT ![t] = Tail(@)]
        /\ UNCHANGED <<loggedIn, made, timers, pc, waits, clock>>
    BY DEF IInv, HearResult
  <1>3. inbox' \in [Tab -> Seq(Message)]
    BY <1>2, InboxRead
  <1>4. /\ settled' \in [Tab -> Seq({"pending", "yes", "no"})]
        /\ deferred' \in [Tab -> Nat] /\ resolver' \in [Tab -> Nat]
    BY <1>1, <1>2, SettleStep
  <1>5. TypeOK'
    BY <1>2, <1>3, <1>4, ForgetType DEF TypeOK
  <1>6. (\A u \in Tab : Promise(u))' /\ (\A c \in Call : Deferring(c))'
    BY <1>1, <1>2, Released
  <1>7. (\A u \in Tab : Refreshing(u))'
    BY <1>2, RefreshForgotten
  <1>8. (\A c \in Call : Joining(c))'
    BY <1>2, CallsStay
  <1>9. QED
    BY <1>5, <1>6, <1>7, <1>8 DEF IInv

LEMMA TimerStep ==
    ASSUME IInv, NEW t \in Tab, Timer(t)
    PROVE  IInv'
  <1>1. /\ TypeOK /\ Promise(t) /\ Idle(t) /\ timers[t] > 0 /\ Unblock(t, "no")
        /\ timers' = [timers EXCEPT ![t] = @ - 1]
        /\ UNCHANGED <<loggedIn, refreshing, startTime, made, inbox, pc, waits, clock>>
    BY DEF IInv, Timer
  <1>2. /\ settled' \in [Tab -> Seq({"pending", "yes", "no"})]
        /\ deferred' \in [Tab -> Nat] /\ resolver' \in [Tab -> Nat]
    BY <1>1, SettleStep
  <1>3. timers' \in [Tab -> Nat] /\ \A u \in Tab \ {t} : timers'[u] = timers[u]
    BY <1>1 DEF TypeOK
  <1>4. TypeOK'
    BY <1>1, <1>2, <1>3 DEF TypeOK
  <1>5. (\A u \in Tab : Promise(u))' /\ (\A c \in Call : Deferring(c))'
    BY <1>1, <1>3, Released
  <1>6. (\A u \in Tab : Refreshing(u))'
    BY <1>1 DEF IInv, Refreshing
  <1>7. (\A c \in Call : Joining(c))'
    BY <1>1, CallsStay
  <1>8. QED
    BY <1>4, <1>5, <1>6, <1>7 DEF IInv

LEMMA LogoutStep ==
    ASSUME IInv, Bounds, NEW t \in Tab, Logout(t)
    PROVE  IInv'
  <1>1. UNCHANGED <<made, timers, pc, waits, clock>> /\ LogsOut(t) /\ Idle(t)
    BY DEF Logout
  <1>2. (\A c \in Call : Joining(c))'
    BY <1>1, CallsStay
  <1>3. QED
    BY <1>1, <1>2, LogsOutStep DEF IInv, TypeOK

\* every step keeps the invariant
LEMMA Inductive == Bounds /\ IInv /\ [Next]_vars => IInv'
  <1>1. SUFFICES ASSUME Bounds, IInv, [Next]_vars PROVE IInv'
    OBVIOUS
  <1>2. ASSUME NEW c \in Call, TokenExpired(c) \/ Wake(c) \/ Fetch(c) PROVE IInv'
    BY <1>1, <1>2, TokenExpiredStep, JoinedStep, DeferredStep, DeferredInVainStep,
       RefreshedStep, RefreshFailsStep DEF Wake, Fetch
  <1>3. ASSUME NEW t \in Tab, Hear(t) \/ Timer(t) \/ Logout(t) PROVE IInv'
    BY <1>1, <1>3, HearStartStep, HearResultStep, TimerStep, LogoutStep DEF Hear
  <1>4. CASE UNCHANGED vars
    BY <1>1, <1>4 DEF vars, tabVars, IInv, TypeOK, Promise, Refreshing, Joining, Deferring
  <1>5. QED
    BY <1>1, <1>2, <1>3, <1>4 DEF Next

(***************************************************************************)
(* The inductive invariant of the refreshes holds in every reachable       *)
(* state, for any tabs, calls and times, with either kind of endpoint.     *)
(***************************************************************************)
THEOREM Invariance == ASSUME Bounds PROVE Spec => []IInv
  <1>1. Init => IInv
    BY Bounds, Start
  <1>2. IInv /\ [Next]_vars => IInv'
    BY Bounds, Inductive
  <1>3. QED
    BY <1>1, <1>2, PTL DEF Spec

\* The fields of the AuthController keep their types in every tab.
THEOREM TypeCorrect == ASSUME Bounds PROVE Spec => []TypeOK
  <1>1. IInv => TypeOK
    BY DEF IInv
  <1>2. QED
    BY <1>1, Invariance, PTL

(***************************************************************************)
(* A call of handleTokenExpired that waits for another tab waits for a     *)
(* promise that is settled, that has a timer running, or that a later      *)
(* announcement has replaced: nothing else can keep it for ever.           *)
(***************************************************************************)
THEOREM OnlyTheReplaced == ASSUME Bounds PROVE Spec => []OnlyReplacedWaits
  <1>1. IInv => OnlyReplacedWaits
    <2>1. SUFFICES ASSUME IInv PROVE OnlyReplacedWaits
      OBVIOUS
    <2>2. ASSUME NEW c \in Call, pc[c] = "defer"
          PROVE  \/ settled[c[1]][waits[c]] # "pending"
                 \/ waits[c] < made[c[1]]
                 \/ deferred[c[1]] = waits[c] /\ timers[c[1]] > 0
      <3>1. Deferring(c) /\ Promise(c[1])
        BY <2>1, Calls DEF IInv
      <3>2. QED
        BY <2>2, <3>1 DEF Deferring, Promise, None
    <2>3. QED
      BY <2>1, <2>2 DEF OnlyReplacedWaits, IInv, Joining
  <1>2. QED
    BY <1>1, Invariance, PTL

=============================================================================
