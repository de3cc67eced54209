--------------------------- MODULE FileSyncProofs ---------------------------
(***************************************************************************)
(* FileSync for every number of calls, retries and deaths of the worker.   *)
(***************************************************************************)
EXTENDS FileSync, TLAPS, FiniteSetTheorems

Running == {"send", "commit"}

\* Callers that have no body: not begun, between two awaits of their own, or removing.
Resting == {"free", "put", "rollback", "listing", "store", "deleting", "dropping", "evicting"}

\* Where the body of a call can be, by where the call is.
Placed ==
    \A o \in Op :
        /\ caller[o] \in Resting => body[o] = "idle"
        /\ caller[o] \in {"mark", "done"} => body[o] \in {"idle", "joined"} \union Running
        /\ caller[o] = "waiting" => body[o] \in {"queued", "joined"} \union Running
        /\ caller[o] = "undoing" => body[o] = "queued"
        /\ caller[o] = "resuming" => body[o] \in {"check"} \union Running

\* Which calls can be there.
Suited ==
    \A o \in Op :
        /\ caller[o] = "put" => kind[o] = "upload"
        /\ caller[o] = "listing" => kind[o] = "batch"
        /\ caller[o] = "waiting" => kind[o] \in {"upload", "background", "batch"}

\* A call is in the chain once, for as long as it waits, and only the holder runs.
Distinct(c) == \A i \in 1..Len(c), j \in 1..Len(c) : c[i] = c[j] => i = j

Lined ==
    /\ Distinct(chain)
    /\ \A o \in Op : Waiting(o) <=> caller[o] \in {"waiting", "undoing"}
    /\ \A o \in Op : Waiting(o) /\ body[o] # "queued" => Holds(o)

\* An upload that is not a resumption is the one in the dedup map.
Mapped(o) == body[o] \in Running /\ caller[o] # "resuming" /\ kind[o] \in {"upload", "batch"}

Deduped ==
    /\ inFlight # NoOp => Mapped(inFlight)
    /\ \A o \in Op : body[o] = "joined" => inFlight # NoOp
    /\ \A o \in Op : Mapped(o) => inFlight = o

\* Who will move the entry on from 'syncing': a transaction, an upload whose caller
\* waits for it, or a caller about to correct it.
Owner(o) ==
    \/ body[o] \in Running /\ (InTransaction(o) \/ caller[o] = "waiting")
    \/ caller[o] \in {"mark", "rollback", "undoing"}

Owned ==
    status = "syncing" =>
        (\E o \in Op : Owner(o)) \/ recovery # "idle" \/ abandoned \/ guardClosed

ClosedIsGuarded == layer = "closed" => guardClosed

\* What may come of a saved file without another look at S3 is there.
Backed ==
    /\ wanted => \A o \in Op : caller[o] \notin {"deleting", "dropping"}
    /\ wanted /\ status \in {"none", "synced"} => object
    /\ wanted /\ (\E o \in Op : body[o] = "commit" \/ caller[o] = "evicting") => object

IInv ==
    /\ TypeOK
    /\ Placed /\ Suited /\ Lined /\ Deduped
    /\ Owned /\ ClosedIsGuarded
    /\ Backed

-----------------------------------------------------------------------------
(* The chain.                                                              *)

LEMMA AppendFacts ==
    ASSUME chain \in Seq(Op), Distinct(chain), NEW o \in Op, ~Waiting(o)
    PROVE  /\ Append(chain, o) \in Seq(Op) /\ Distinct(Append(chain, o))
           /\ Range(Append(chain, o)) = Range(chain) \union {o}
           /\ Append(chain, o) # <<>>
           /\ chain # <<>> => Head(Append(chain, o)) = Head(chain)
<1> DEFINE c == Append(chain, o)
<1>1. /\ c \in Seq(Op) /\ Len(c) = Len(chain) + 1 /\ Len(chain) \in Nat
      /\ c[Len(c)] = o /\ \A i \in 1..Len(chain) : c[i] = chain[i]
  OBVIOUS
<1>2. \A i \in 1..Len(chain) : chain[i] # o
  BY DEF Waiting, Range
<1>3. Distinct(c)
  BY <1>1, <1>2 DEF Distinct
<1>4. Range(c) = Range(chain) \union {o}
  <2>1. DOMAIN c = 1..Len(chain) \union {Len(c)} /\ DOMAIN chain = 1..Len(chain)
    BY <1>1
  <2>2. QED
    BY <1>1, <2>1 DEF Range
<1> HIDE DEF c
<1>5. c # <<>> /\ Head(c) = c[1]
  BY <1>1
<1>6. chain # <<>> => Head(chain) = chain[1] /\ 1 \in 1..Len(chain)
  OBVIOUS
<1>7. chain # <<>> => Head(c) = Head(chain)
  BY <1>1, <1>5, <1>6
<1>8. QED
  BY <1>1, <1>3, <1>4, <1>5, <1>7 DEF c

LEMMA TailFacts ==
    ASSUME chain \in Seq(Op), Distinct(chain), chain # <<>>
    PROVE  /\ Tail(chain) \in Seq(Op) /\ Distinct(Tail(chain))
           /\ Range(Tail(chain)) = Range(chain) \ {Head(chain)}
           /\ Head(chain) \in Op /\ Head(chain) \in Range(chain)
<1> DEFINE c == Tail(chain)
<1>1. /\ c \in Seq(Op) /\ Len(c) = Len(chain) - 1 /\ Len(chain) \in Nat \ {0}
      /\ Head(chain) = chain[1] /\ Head(chain) \in Op
      /\ \A i \in 1..Len(c) : c[i] = chain[i + 1]
  OBVIOUS
<1>2. Distinct(c)
  BY <1>1 DEF Distinct
<1>3. DOMAIN c = 1..Len(c) /\ DOMAIN chain = 1..Len(chain)
  BY <1>1
<1>4. ASSUME NEW p \in Range(chain), p # Head(chain) PROVE p \in Range(c)
  <2>1. PICK i \in 1..Len(chain) : chain[i] = p
    BY <1>3 DEF Range
  <2>2. i - 1 \in 1..Len(c) /\ c[i - 1] = p
    BY <1>1, <1>4, <2>1
  <2>3. QED
    BY <1>3, <2>2 DEF Range
<1>5. ASSUME NEW p \in Range(c) PROVE p \in Range(chain) /\ p # Head(chain)
  <2>1. PICK i \in 1..Len(c) : c[i] = p
    BY <1>3 DEF Range
  <2>2. i + 1 \in 1..Len(chain) /\ chain[i + 1] = p /\ 1 \in 1..Len(chain) /\ i + 1 # 1
    BY <1>1, <2>1
  <2>3. QED
    BY <1>1, <1>3, <2>2 DEF Range, Distinct
<1>6. Head(chain) \in Range(chain)
  BY <1>1, <1>3 DEF Range
<1>7. QED
  BY <1>1, <1>2, <1>4, <1>5, <1>6

\* Nobody waits in an empty chain.
LEMMA EmptyFacts == chain = <<>> => Range(chain) = {}
BY DEF Range

-----------------------------------------------------------------------------
(* What the helpers do to a call.                                          *)

\* The places of callers and bodies.
Callers == {"free", "put", "waiting", "mark", "rollback", "undoing", "listing",
            "resuming", "store", "deleting", "dropping", "evicting", "done"}
Bodies == {"idle", "queued", "joined", "check", "send", "commit"}

LockIInv == Placed /\ Suited /\ Lined /\ Deduped

\* The rest of a call says nothing of the others.
OthersStay(o) == \A p \in Op : p # o => caller'[p] = caller[p] /\ body'[p] = body[p]

LEMMA GoToFacts ==
    ASSUME TypeOK, NEW o \in Op, NEW c \in Callers, GoTo(o, c)
    PROVE  /\ caller' \in [Op -> Callers] /\ caller'[o] = c
           /\ \A p \in Op : p # o => caller'[p] = caller[p]
BY DEF TypeOK, GoTo, Callers

LEMMA AfterFacts ==
    ASSUME NEW o \in Op, NEW out \in Outcomes
    PROVE  /\ After(o, out) \in {"listing", "done", "rollback", "mark"}
           /\ After(o, out) = "listing" => kind[o] = "batch"
BY DEF After, Outcomes

LEMMA EnqueueFacts ==
    ASSUME TypeOK, LockIInv, NEW o \in Op, ~Waiting(o), NEW c \in Callers, Enqueue(o, c)
    PROVE  /\ chain' \in Seq(Op) /\ caller' \in [Op -> Callers] /\ body' \in [Op -> Bodies]
           /\ Distinct(chain') /\ OthersStay(o)
           /\ caller'[o] = c /\ body'[o] = "queued" /\ inFlight' = inFlight
           /\ \A p \in Op : Waiting(p)' <=> Waiting(p) \/ p = o
           /\ \A p \in Op : Holds(p) => Holds(p)'
<1>1. /\ caller' \in [Op -> Callers] /\ caller'[o] = c /\ inFlight' = inFlight
      /\ \A p \in Op : p # o => caller'[p] = caller[p]
  BY GoToFacts DEF Enqueue
<1>2. body' \in [Op -> Bodies] /\ body'[o] = "queued" /\ \A p \in Op : p # o => body'[p] = body[p]
  BY DEF Enqueue, TypeOK, Bodies
<1>3. /\ chain' \in Seq(Op) /\ Distinct(chain') /\ Range(chain') = Range(chain) \union {o}
      /\ chain' # <<>> /\ (chain # <<>> => Head(chain') = Head(chain))
  <2>1. chain' = Append(chain, o) /\ chain \in Seq(Op) /\ Distinct(chain)
    BY DEF Enqueue, TypeOK, LockIInv, Lined
  <2>2. QED
    BY <2>1, AppendFacts
<1>4. QED
  BY <1>1, <1>2, <1>3 DEF Waiting, Holds, OthersStay

LEMMA SettleFacts ==
    ASSUME TypeOK, LockIInv, NEW o \in Op, NEW out \in Outcomes, body[o] # "idle",
           Holds(o) \/ body[o] # "queued", Settle(o, out)
    PROVE  LET ends == {o} \union Joined(o) IN
           /\ chain' \in Seq(Op) /\ caller' \in [Op -> Callers] /\ body' \in [Op -> Bodies]
           /\ inFlight' \in {inFlight, NoOp} /\ Distinct(chain')
           /\ \A p \in Op : Waiting(p)' <=> Waiting(p) /\ p \notin ends
           /\ \A p \in Op : Holds(p) /\ p \notin ends => Holds(p)'
           /\ (\E p \in ends : Holds(p)) => \A p \in Op : Waiting(p)' => body[p] = "queued"
           /\ \A p \in Op : p \notin ends => caller'[p] = caller[p] /\ body'[p] = body[p]
           /\ \A p \in ends : /\ p \in Op /\ body'[p] = "idle"
                              /\ caller'[p] = IF Waiting(p) \/ caller[p] = "resuming"
                                              THEN After(p, out) ELSE caller[p]
           /\ inFlight' = IF inFlight = o THEN NoOp ELSE inFlight
<1> DEFINE ends == {o} \union Joined(o)
<1>1. ends \subseteq Op /\ \A p \in ends : p = o \/ body[p] = "joined"
  BY DEF Joined
<1>2. /\ body' = [p \in Op |-> IF p \in ends THEN "idle" ELSE body[p]]
      /\ caller' = [p \in Op |-> IF p \in ends /\ (Waiting(p) \/ caller[p] = "resuming")
                                 THEN After(p, out) ELSE caller[p]]
      /\ chain' = IF chain # <<>> /\ Head(chain) \in ends THEN Tail(chain) ELSE chain
      /\ inFlight' = IF inFlight = o THEN NoOp ELSE inFlight
  BY DEF Settle
<1>3. caller' \in [Op -> Callers] /\ body' \in [Op -> Bodies]
  BY <1>2, AfterFacts DEF TypeOK, Callers, Bodies
<1>4. \A p \in ends : Waiting(p) => Holds(p)
  BY <1>1 DEF LockIInv, Lined
<1>5. chain \in Seq(Op) /\ Distinct(chain)
  BY DEF TypeOK, LockIInv, Lined
<1>6. CASE chain # <<>> /\ Head(chain) \in ends
  <2>1. chain' = Tail(chain)
    BY <1>2, <1>6
  <2>2. /\ chain' \in Seq(Op) /\ Distinct(chain') /\ Range(chain') = Range(chain) \ {Head(chain)}
    BY <1>5, <1>6, <2>1, TailFacts
  <2>3. \A p \in Op : Waiting(p)' <=> Waiting(p) /\ p \notin ends
    BY <1>4, <1>6, <2>2 DEF Waiting, Holds
  <2>4. \A p \in Op : Waiting(p)' => body[p] = "queued"
    BY <2>2 DEF Waiting, Holds, LockIInv, Lined
  <2>5. \A p \in Op : Holds(p) => p \in ends
    BY <1>6 DEF Holds
  <2>6. QED
    BY <1>1, <1>2, <1>3, <2>2, <2>3, <2>4, <2>5
<1>7. CASE ~(chain # <<>> /\ Head(chain) \in ends)
  <2>1. chain' = chain
    BY <1>2, <1>7
  <2>2. \A p \in ends : ~Waiting(p)
    BY <1>4, <1>7 DEF Holds
  <2>3. \A p \in Op : (Waiting(p)' <=> Waiting(p)) /\ (Holds(p)' <=> Holds(p))
    BY <2>1 DEF Waiting, Holds
  <2>4. ~\E p \in ends : Holds(p)
    BY <1>7 DEF Holds
  <2>5. QED
    BY <1>1, <1>2, <1>3, <1>5, <2>1, <2>2, <2>3, <2>4
<1>8. QED
  BY <1>6, <1>7

-----------------------------------------------------------------------------
(* The lock and the dedup map.                                             *)

LockType ==
    /\ chain \in Seq(Op) /\ inFlight \in Op \union {NoOp}
    /\ caller \in [Op -> Callers] /\ body \in [Op -> Bodies]

KindsStay(o) == \A p \in Op : p # o => kind'[p] = kind[p]

LEMMA SettleKeeps ==
    ASSUME TypeOK, LockIInv, NEW o \in Op, NEW out \in Outcomes, body[o] # "idle",
           Holds(o) \/ body[o] # "queued", Settle(o, out), kind' = kind
    PROVE  LockIInv' /\ LockType'
<1> DEFINE ends == {o} \union Joined(o)
<1>1. /\ inFlight' = IF inFlight = o THEN NoOp ELSE inFlight
      /\ \A p \in Op : Waiting(p)' <=> Waiting(p) /\ p \notin ends
      /\ \A p \in Op : Holds(p) /\ p \notin ends => Holds(p)'
      /\ (\E p \in ends : Holds(p)) => \A p \in Op : Waiting(p)' => body[p] = "queued"
      /\ \A p \in Op : p \notin ends => caller'[p] = caller[p] /\ body'[p] = body[p]
      /\ Distinct(chain')
  BY SettleFacts
<1>2. \A p \in ends : /\ p \in Op /\ body'[p] = "idle"
                      /\ caller'[p] = IF Waiting(p) \/ caller[p] = "resuming"
                                      THEN After(p, out) ELSE caller[p]
  BY SettleFacts
<1>3. ASSUME NEW p \in ends
      PROVE  /\ caller'[p] \in Resting \union {"mark", "done"}
             /\ caller'[p] = "put" => kind[p] = "upload"
             /\ caller'[p] = "listing" => kind[p] = "batch"
  BY <1>2, AfterFacts DEF LockIInv, Placed, Suited, Lined, Resting, Running, TypeOK
<1>4. \A p \in Op : p \in ends <=> p = o \/ (inFlight = o /\ body[p] = "joined")
  BY DEF Joined
<1> HIDE DEF ends
<1>5. Placed' /\ Suited'
  BY <1>1, <1>2, <1>3 DEF LockIInv, Placed, Suited, Resting, Running
<1>6. Lined'
  BY <1>1, <1>2, <1>3 DEF LockIInv, Lined, Resting
<1>7. Deduped'
  BY <1>1, <1>2, <1>4, OpAssumption DEF LockIInv, Deduped, Mapped, Running, TypeOK
<1>8. LockType'
  BY SettleFacts DEF TypeOK, LockType, Callers, Bodies
<1>9. QED
  BY <1>5, <1>6, <1>7, <1>8 DEF LockIInv

LEMMA EnqueueKeeps ==
    ASSUME TypeOK, LockIInv, NEW o \in Op, caller[o] \in Resting,
           NEW c \in {"waiting", "undoing"}, Enqueue(o, c), KindsStay(o),
           c = "waiting" => kind'[o] \in {"upload", "background", "batch"}
    PROVE  LockIInv' /\ LockType'
<1>1. ~Waiting(o) /\ body[o] = "idle" /\ c \in Callers
  BY DEF LockIInv, Lined, Placed, Resting, Callers
<1>2. /\ Distinct(chain') /\ OthersStay(o)
      /\ caller'[o] = c /\ body'[o] = "queued" /\ inFlight' = inFlight
      /\ \A p \in Op : Waiting(p)' <=> Waiting(p) \/ p = o
      /\ \A p \in Op : Holds(p) => Holds(p)'
  BY <1>1, EnqueueFacts
<1>3. Placed' /\ Suited'
  BY <1>2 DEF LockIInv, Placed, Suited, Resting, Running, OthersStay, KindsStay
<1>4. Lined'
  BY <1>2 DEF LockIInv, Lined, OthersStay
<1>5. Deduped'
  BY <1>1, <1>2, OpAssumption
     DEF LockIInv, Deduped, Mapped, Running, OthersStay, KindsStay, TypeOK
<1>6. LockType'
  BY <1>1, <1>2, EnqueueFacts DEF TypeOK, LockType, Callers, Bodies
<1>7. QED
  BY <1>3, <1>4, <1>5, <1>6 DEF LockIInv

\* A call that goes on by itself.
LEMMA GoesKeeps ==
    ASSUME TypeOK, LockIInv, NEW o \in Op, UNCHANGED <<chain, inFlight, body>>, KindsStay(o),
           NEW c \in Resting \union {"mark", "done"}, GoTo(o, c),
           caller[o] \in Resting \/ (caller[o] = "mark" /\ c = "done" /\ kind'[o] = kind[o]),
           c = "put" => kind'[o] = "upload", c = "listing" => kind'[o] = "batch"
    PROVE  LockIInv' /\ LockType'
<1>1. caller'[o] = c /\ \A p \in Op : p # o => caller'[p] = caller[p]
  BY GoToFacts DEF Callers, Resting
<1>2. \A p \in Op : (Waiting(p)' <=> Waiting(p)) /\ (Holds(p)' <=> Holds(p))
  BY DEF Waiting, Holds
<1>3. Placed' /\ Suited'
  BY <1>1 DEF LockIInv, Placed, Suited, Resting, Running, KindsStay
<1>4. Lined'
  BY <1>1, <1>2 DEF LockIInv, Lined, Resting
<1>5. Deduped'
  BY <1>1, OpAssumption
     DEF LockIInv, Placed, Deduped, Mapped, Running, Resting, KindsStay, TypeOK
<1>6. LockType'
  BY GoToFacts DEF TypeOK, LockType, Callers, Bodies, Resting
<1>7. QED
  BY <1>3, <1>4, <1>5, <1>6 DEF LockIInv

\* Only the body moves.
LEMMA BodyKeeps ==
    ASSUME TypeOK, LockIInv, NEW o \in Op, UNCHANGED <<chain, caller, kind>>,
           NEW b \in {"joined", "send", "commit"}, body' = [body EXCEPT ![o] = b],
           caller[o] = "resuming" => b \in Running,
           \/ /\ inFlight' = inFlight /\ body[o] \in {"check", "send"} /\ b \in Running
              /\ body[o] = "check" => caller[o] = "resuming"
           \/ /\ Holds(o) /\ body[o] = "queued" /\ caller[o] = "waiting" /\ inFlight' = inFlight
              /\ IF b = "joined" THEN inFlight # NoOp ELSE kind[o] = "background"
           \/ /\ Holds(o) /\ body[o] = "queued" /\ caller[o] = "waiting"
              /\ inFlight = NoOp /\ inFlight' = o /\ b = "send"
              /\ kind[o] \in {"upload", "batch"}
    PROVE  LockIInv' /\ LockType'
<1>1. body'[o] = b /\ \A p \in Op : p # o => body'[p] = body[p]
  BY DEF TypeOK
<1>2. \A p \in Op : (Waiting(p)' <=> Waiting(p)) /\ (Holds(p)' <=> Holds(p))
  BY DEF Waiting, Holds
<1>3. Placed' /\ Suited'
  BY <1>1 DEF LockIInv, Placed, Suited, Resting, Running
<1>4. Lined'
  BY <1>1, <1>2 DEF LockIInv, Lined
<1>5. Deduped'
  BY <1>1, OpAssumption DEF LockIInv, Placed, Deduped, Mapped, Running, TypeOK
<1>6. LockType'
  BY <1>1 DEF TypeOK, LockType, Callers, Bodies
<1>7. QED
  BY <1>3, <1>4, <1>5, <1>6 DEF LockIInv

LEMMA SameKeeps ==
    ASSUME TypeOK, LockIInv, UNCHANGED <<chain, inFlight, caller, body, kind>>
    PROVE  LockIInv' /\ LockType'
<1>1. LockIInv'
  BY DEF LockIInv, Placed, Suited, Lined, Distinct, Deduped, Mapped, Waiting, Holds
<1>2. LockType'
  BY DEF TypeOK, LockType, Callers, Bodies
<1>3. QED
  BY <1>1, <1>2

\* A resumption begins or ends, without the lock.
LEMMA AsideKeeps ==
    ASSUME TypeOK, LockIInv, NEW o \in Op, UNCHANGED <<chain, inFlight>>, KindsStay(o),
           caller[o] \in {"free", "resuming"}, body[o] \in {"idle", "check"},
           NEW c \in {"resuming", "done", "listing"}, GoTo(o, c),
           body' = [body EXCEPT ![o] = IF c = "resuming" THEN "check" ELSE "idle"],
           c = "listing" => kind'[o] = "batch"
    PROVE  LockIInv' /\ LockType'
<1>1. /\ caller'[o] = c /\ \A p \in Op : p # o => caller'[p] = caller[p] /\ body'[p] = body[p]
      /\ body'[o] = IF c = "resuming" THEN "check" ELSE "idle"
  BY GoToFacts DEF Callers, TypeOK
<1>2. \A p \in Op : (Waiting(p)' <=> Waiting(p)) /\ (Holds(p)' <=> Holds(p))
  BY DEF Waiting, Holds
<1>3. Placed' /\ Suited'
  BY <1>1 DEF LockIInv, Placed, Suited, Resting, Running, KindsStay
<1>4. Lined'
  BY <1>1, <1>2 DEF LockIInv, Lined
<1>5. Deduped'
  BY <1>1, OpAssumption DEF LockIInv, Placed, Deduped, Mapped, Running, KindsStay, TypeOK
<1>6. LockType'
  BY GoToFacts DEF TypeOK, LockType, Callers, Bodies
<1>7. QED
  BY <1>3, <1>4, <1>5, <1>6 DEF LockIInv

\* The lock gives up on its holder.
LEMMA TimeoutKeeps ==
    ASSUME TypeOK, LockIInv, NEW o \in Op, LockTimeout(o)
    PROVE  LockIInv' /\ LockType'
<1>1. /\ Holds(o) /\ body[o] # "queued" /\ chain' = Tail(chain)
      /\ GoTo(o, After(o, "error")) /\ UNCHANGED <<inFlight, body, kind>>
  BY DEF LockTimeout
<1>2. chain # <<>> /\ o = Head(chain) /\ chain \in Seq(Op) /\ Distinct(chain)
  BY <1>1 DEF Holds, TypeOK, LockIInv, Lined
<1>3. Distinct(chain') /\ \A p \in Op : Waiting(p)' <=> Waiting(p) /\ p # o
  BY <1>1, <1>2, TailFacts DEF Waiting
<1>4. caller[o] = "waiting"
  <2>1. Waiting(o)
    BY <1>2, TailFacts DEF Waiting
  <2>2. QED
    BY <1>1, <2>1 DEF LockIInv, Lined, Placed
<1>5. After(o, "error") \in {"mark", "done"}
  BY <1>4 DEF After
<1>6. caller'[o] \in {"mark", "done"} /\ \A p \in Op : p # o => caller'[p] = caller[p]
  BY <1>1, <1>5, GoToFacts DEF Callers
<1>7. Placed' /\ Suited'
  BY <1>1, <1>4, <1>6 DEF LockIInv, Placed, Suited, Resting, Running
<1>8. Lined'
  <2>1. \A p \in Op : Waiting(p)' <=> caller'[p] \in {"waiting", "undoing"}
    BY <1>3, <1>6 DEF LockIInv, Lined
  <2>2. \A p \in Op : Waiting(p)' => body[p] = "queued"
    BY <1>2, <1>3 DEF LockIInv, Lined, Holds
  <2>3. QED
    BY <1>1, <1>3, <2>1, <2>2 DEF Lined
<1>9. Deduped'
  BY <1>1, <1>4, <1>6, OpAssumption DEF LockIInv, Deduped, Mapped, Running, TypeOK
<1>10. LockType'
  BY <1>1, <1>2, <1>5, TailFacts, GoToFacts DEF TypeOK, LockType, Callers, Bodies
<1>11. QED
  BY <1>7, <1>8, <1>9, <1>10 DEF LockIInv

\* The chain, the dedup map and the calls keep in step.
LEMMA LockStep ==
    ASSUME TypeOK, LockIInv, [Next]_vars
    PROVE  LockIInv' /\ LockType'
<1>1. ASSUME NEW o \in Op, Start(o) PROVE LockIInv' /\ LockType'
  <2>1. Holds(o) /\ body[o] = "queued" /\ kind' = kind
    BY <1>1 DEF Start
  <2>2. Waiting(o)
    BY <2>1, TailFacts DEF Holds, Waiting, TypeOK, LockIInv, Lined
  <2>3. CASE \E out \in Outcomes : Settle(o, out)
    BY <2>1, <2>3, SettleKeeps
  <2>4. CASE caller[o] # "undoing" /\ Joins(o) /\ Join(o)
    <3>1. caller[o] = "waiting" /\ inFlight # NoOp
      BY <2>2, <2>4 DEF Joins, LockIInv, Lined
    <3>2. QED
      BY <2>1, <2>4, <3>1, BodyKeeps DEF Join
  <2>5. CASE caller[o] # "undoing" /\ ~Joins(o) /\ Send(o)
    <3>1. caller[o] = "waiting" /\ kind[o] \in {"upload", "background", "batch"}
      BY <2>2, <2>5 DEF LockIInv, Lined, Suited
    <3>2. kind[o] # "background" => inFlight = NoOp
      BY <2>5, <3>1 DEF Joins
    <3>3. QED
      BY <2>1, <2>5, <3>1, <3>2, BodyKeeps DEF Send, Running
  <2>6. QED
    BY <1>1, <2>3, <2>4, <2>5 DEF Start, Outcomes
<1>2. ASSUME NEW o \in Op, Commit(o) PROVE LockIInv' /\ LockType'
  <2>1. body[o] \in Running /\ kind' = kind /\ \E out \in Outcomes : Settle(o, out)
    BY <1>2 DEF Commit, Outcomes, Running
  <2>2. QED
    BY <2>1, SettleKeeps DEF Running
<1>3. ASSUME NEW o \in Op, Rollback(o) PROVE LockIInv' /\ LockType'
  <2>1. caller[o] \in Resting /\ Enqueue(o, "undoing")
    BY <1>3 DEF Rollback, Begin, Resting
  <2>2. KindsStay(o) /\ TRUE
    BY <1>3 DEF Rollback, Begin, KindsStay, TypeOK
  <2>3. QED
    BY <2>1, <2>2, EnqueueKeeps
<1>4. ASSUME NEW o \in Op, Mark(o) PROVE LockIInv' /\ LockType'
  <2>1. caller[o] \in {"mark"} /\ GoTo(o, "done") /\ UNCHANGED <<chain, inFlight, body>>
    BY <1>4 DEF Mark, Begin, lockVars, Resting
  <2>2. KindsStay(o) /\ kind' = kind
    BY <1>4 DEF Mark, Begin, KindsStay, TypeOK
  <2>3. QED
    BY <2>1, <2>2, GoesKeeps DEF Resting
<1>5. ASSUME NEW o \in Op, List(o) PROVE LockIInv' /\ LockType'
  <2>1. caller[o] = "listing" /\ kind' = kind /\ kind[o] = "batch"
    BY <1>5 DEF List, LockIInv, Suited
  <2>2. CASE Enqueue(o, "waiting")
    BY <2>1, <2>2, EnqueueKeeps DEF Resting, KindsStay
  <2>3. CASE GoTo(o, "done") /\ UNCHANGED <<chain, inFlight, body>>
    BY <2>1, <2>3, GoesKeeps DEF Resting, KindsStay
  <2>4. QED
    BY <1>5, <2>2, <2>3 DEF List
<1>6. ASSUME NEW o \in Op, Store(o) PROVE LockIInv' /\ LockType'
  <2>1. caller[o] \in Resting /\ GoTo(o, "done") /\ UNCHANGED <<chain, inFlight, body>>
    BY <1>6 DEF Store, Begin, lockVars, Resting
  <2>2. KindsStay(o) /\ kind' = kind
    BY <1>6 DEF Store, Begin, KindsStay, TypeOK
  <2>3. QED
    BY <2>1, <2>2, GoesKeeps DEF Resting
<1>7. ASSUME NEW o \in Op, Drop(o) PROVE LockIInv' /\ LockType'
  <2>1. caller[o] \in Resting /\ GoTo(o, "done") /\ UNCHANGED <<chain, inFlight, body>>
    BY <1>7 DEF Drop, Begin, lockVars, Resting
  <2>2. KindsStay(o) /\ kind' = kind
    BY <1>7 DEF Drop, Begin, KindsStay, TypeOK
  <2>3. QED
    BY <2>1, <2>2, GoesKeeps DEF Resting
<1>8. ASSUME NEW o \in Op, Sent(o) PROVE LockIInv' /\ LockType'
  <2>1. /\ body[o] = "send" /\ body' = [body EXCEPT ![o] = "commit"]
        /\ UNCHANGED <<chain, inFlight, caller, kind>>
    BY <1>8 DEF Sent
  <2>2. QED
    BY <2>1, BodyKeeps DEF Running
<1>9. ASSUME NEW o \in Op, SendFails(o) PROVE LockIInv' /\ LockType'
  <2>1. body[o] \in Running /\ kind' = kind /\ \E out \in Outcomes : Settle(o, out)
    BY <1>9 DEF SendFails, Outcomes, Running
  <2>2. QED
    BY <2>1, SettleKeeps DEF Running
<1>10. ASSUME NEW o \in Op, SendAborts(o) PROVE LockIInv' /\ LockType'
  <2>1. body[o] \in Running /\ kind' = kind /\ \E out \in Outcomes : Settle(o, out)
    BY <1>10 DEF SendAborts, Outcomes, Running
  <2>2. QED
    BY <2>1, SettleKeeps DEF Running
<1>11. ASSUME NEW o \in Op, Record(o) PROVE LockIInv' /\ LockType'
  <2>1. UNCHANGED <<chain, inFlight, caller, body, kind>>
    BY <1>11 DEF Record, lockVars
  <2>2. QED
    BY <2>1, SameKeeps
<1>12. ASSUME NEW o \in Op, DeleteObject(o) PROVE LockIInv' /\ LockType'
  <2>1. caller[o] \in Resting /\ GoTo(o, "dropping") /\ UNCHANGED <<chain, inFlight, body>>
    BY <1>12 DEF DeleteObject, Begin, lockVars, Resting
  <2>2. KindsStay(o) /\ kind' = kind
    BY <1>12 DEF DeleteObject, Begin, KindsStay, TypeOK
  <2>3. QED
    BY <2>1, <2>2, GoesKeeps DEF Resting
<1>13. ASSUME NEW o \in Op, BeginUpload(o) PROVE LockIInv' /\ LockType'
  <2>1. caller[o] \in Resting /\ GoTo(o, "put") /\ UNCHANGED <<chain, inFlight, body>>
    BY <1>13 DEF BeginUpload, Begin, lockVars, Resting
  <2>2. KindsStay(o) /\ kind'[o] = "upload"
    BY <1>13 DEF BeginUpload, Begin, KindsStay, TypeOK
  <2>3. QED
    BY <2>1, <2>2, GoesKeeps DEF Resting
<1>14. ASSUME NEW o \in Op, BeginBackground(o) PROVE LockIInv' /\ LockType'
  <2>1. caller[o] \in Resting /\ Enqueue(o, "waiting")
    BY <1>14 DEF BeginBackground, Begin, Resting
  <2>2. KindsStay(o) /\ kind'[o] = "background"
    BY <1>14 DEF BeginBackground, Begin, KindsStay, TypeOK
  <2>3. QED
    BY <2>1, <2>2, EnqueueKeeps
<1>15. ASSUME NEW o \in Op, BeginDownload(o) PROVE LockIInv' /\ LockType'
  <2>1. caller[o] \in Resting /\ GoTo(o, "store") /\ UNCHANGED <<chain, inFlight, body>>
    BY <1>15 DEF BeginDownload, Begin, lockVars, Resting
  <2>2. KindsStay(o) /\ TRUE
    BY <1>15 DEF BeginDownload, Begin, KindsStay, TypeOK
  <2>3. QED
    BY <2>1, <2>2, GoesKeeps DEF Resting
<1>16. ASSUME NEW o \in Op, BeginBatch(o) PROVE LockIInv' /\ LockType'
  <2>1. /\ caller[o] = "free" /\ UNCHANGED <<chain, inFlight>>
        /\ \E c \in {"resuming", "listing"} :
              /\ GoTo(o, c)
              /\ body' = [body EXCEPT ![o] = IF c = "resuming" THEN "check" ELSE "idle"]
              /\ c = "listing" => kind'[o] = "batch"
    BY <1>16 DEF BeginBatch, Begin, TypeOK
  <2>2. KindsStay(o) /\ body[o] = "idle"
    BY <1>16, <2>1 DEF BeginBatch, Begin, KindsStay, TypeOK, LockIInv, Placed, Resting
  <2>3. QED
    BY <2>1, <2>2, AsideKeeps
<1>17. ASSUME NEW o \in Op, BeginResume(o) PROVE LockIInv' /\ LockType'
  <2>1. /\ caller[o] = "free" /\ UNCHANGED <<chain, inFlight>>
        /\ \E c \in {"resuming", "listing"} :
              /\ GoTo(o, c)
              /\ body' = [body EXCEPT ![o] = IF c = "resuming" THEN "check" ELSE "idle"]
              /\ c = "listing" => kind'[o] = "batch"
    BY <1>17 DEF BeginResume, Begin, TypeOK
  <2>2. KindsStay(o) /\ body[o] = "idle"
    BY <1>17, <2>1 DEF BeginResume, Begin, KindsStay, TypeOK, LockIInv, Placed, Resting
  <2>3. QED
    BY <2>1, <2>2, AsideKeeps
<1>18. ASSUME NEW o \in Op, BeginDelete(o) PROVE LockIInv' /\ LockType'
  <2>1. /\ caller[o] \in Resting /\ UNCHANGED <<chain, inFlight, body>>
        /\ GoTo(o, "deleting") \/ GoTo(o, "dropping")
    BY <1>18 DEF BeginDelete, Begin, Resting
  <2>2. KindsStay(o)
    BY <1>18 DEF BeginDelete, Begin, KindsStay, TypeOK
  <2>3. QED
    BY <2>1, <2>2, GoesKeeps DEF Resting
<1>19. ASSUME NEW o \in Op, BeginEvict(o) PROVE LockIInv' /\ LockType'
  <2>1. caller[o] \in Resting /\ GoTo(o, "evicting") /\ UNCHANGED <<chain, inFlight, body>>
    BY <1>19 DEF BeginEvict, Begin, lockVars, Resting
  <2>2. KindsStay(o) /\ TRUE
    BY <1>19 DEF BeginEvict, Begin, KindsStay, TypeOK
  <2>3. QED
    BY <2>1, <2>2, GoesKeeps DEF Resting
<1>20. ASSUME NEW o \in Op, Cancel(o) PROVE LockIInv' /\ LockType'
  <2>1. UNCHANGED <<chain, inFlight, caller, body, kind>>
    BY <1>20 DEF Cancel, lockVars
  <2>2. QED
    BY <2>1, SameKeeps
<1>21. ASSUME NEW o \in Op, LockTimeout(o) PROVE LockIInv' /\ LockType'
  BY <1>21, TimeoutKeeps
<1>22. ASSUME NEW o \in Op, NEW online \in BOOLEAN, Put(o, online) PROVE LockIInv' /\ LockType'
  <2>1. caller[o] = "put" /\ kind' = kind /\ kind[o] = "upload"
    BY <1>22 DEF Put, LockIInv, Suited
  <2>2. CASE Enqueue(o, "waiting")
    BY <2>1, <2>2, EnqueueKeeps DEF Resting, KindsStay
  <2>3. CASE GoTo(o, "done") /\ UNCHANGED <<chain, inFlight, body>>
    BY <2>1, <2>3, GoesKeeps DEF Resting, KindsStay
  <2>4. QED
    BY <1>22, <2>2, <2>3 DEF Put
<1>23. ASSUME NEW o \in Op, NEW expired \in BOOLEAN, Check(o, expired) PROVE LockIInv' /\ LockType'
  <2>1. body[o] = "check" /\ kind' = kind
    BY <1>23 DEF Check
  <2>2. caller[o] = "resuming"
    BY <2>1 DEF TypeOK, LockIInv, Placed, Resting, Running
  <2>3. CASE body' = [body EXCEPT ![o] = "send"] /\ UNCHANGED <<chain, inFlight, caller>>
    BY <2>1, <2>2, <2>3, BodyKeeps DEF Running
  <2>4. CASE Settle(o, "ok")
    BY <2>1, <2>4, SettleKeeps DEF Outcomes
  <2>5. CASE /\ GoTo(o, "done") /\ body' = [body EXCEPT ![o] = "idle"]
             /\ UNCHANGED <<chain, inFlight>>
    BY <2>1, <2>2, <2>5, AsideKeeps DEF KindsStay
  <2>6. QED
    BY <1>23, <2>3, <2>4, <2>5 DEF Check
<1>24. ASSUME EvictLRU PROVE LockIInv' /\ LockType'
  <2>1. UNCHANGED <<chain, inFlight, caller, body, kind>>
    BY <1>24 DEF EvictLRU, lockVars
  <2>2. QED
    BY <2>1, SameKeeps
<1>25. ASSUME RecoverRead PROVE LockIInv' /\ LockType'
  <2>1. UNCHANGED <<chain, inFlight, caller, body, kind>>
    BY <1>25 DEF RecoverRead, lockVars
  <2>2. QED
    BY <2>1, SameKeeps
<1>26. ASSUME RecoverWrite PROVE LockIInv' /\ LockType'
  <2>1. UNCHANGED <<chain, inFlight, caller, body, kind>>
    BY <1>26 DEF RecoverWrite, lockVars
  <2>2. QED
    BY <2>1, SameKeeps
<1>27. ASSUME CloseBegins PROVE LockIInv' /\ LockType'
  <2>1. UNCHANGED <<chain, inFlight, caller, body, kind>>
    BY <1>27 DEF CloseBegins, lockVars
  <2>2. QED
    BY <2>1, SameKeeps
<1>28. ASSUME CloseEnds PROVE LockIInv' /\ LockType'
  <2>1. UNCHANGED <<chain, inFlight, caller, body, kind>>
    BY <1>28 DEF CloseEnds, lockVars
  <2>2. QED
    BY <2>1, SameKeeps
<1>29. ASSUME Reopen PROVE LockIInv' /\ LockType'
  <2>1. UNCHANGED <<chain, inFlight, caller, body, kind>>
    BY <1>29 DEF Reopen, lockVars
  <2>2. QED
    BY <2>1, SameKeeps
<1>30. ASSUME Crash PROVE LockIInv' /\ LockType'
  <2>1. /\ chain' = <<>> /\ inFlight' = NoOp /\ kind' = kind
        /\ \A p \in Op : caller'[p] \in {"free", "done"} /\ body'[p] = "idle"
    BY <1>30 DEF Crash
  <2>2. Distinct(chain') /\ \A p \in Op : ~Waiting(p)'
    BY <2>1 DEF Distinct, Waiting, Range
  <2>3. LockType'
    BY <1>30 DEF Crash, LockType, Callers, Bodies
  <2>4. QED
    BY <2>1, <2>2, <2>3 DEF LockIInv, Placed, Suited, Lined, Deduped, Mapped, Resting, Running
<1>31. CASE UNCHANGED vars
  <2>1. UNCHANGED <<chain, inFlight, caller, body, kind>>
    BY <1>31 DEF vars, lockVars
  <2>2. QED
    BY <2>1, SameKeeps
<1>32. QED
  BY <1>1, <1>2, <1>3, <1>4, <1>5, <1>6, <1>7, <1>8, <1>9, <1>10, <1>11, <1>12, <1>13, <1>14, <1>15, <1>16, <1>17, <1>18, <1>19, <1>20, <1>21, <1>22, <1>23, <1>24, <1>25, <1>26, <1>27, <1>28, <1>29, <1>30, <1>31
  DEF Next, Local, Remote, User, Lifecycle

-----------------------------------------------------------------------------
(* Types.                                                                  *)

EntryType == status \in Status /\ retries \in Nat /\ abandoned \in BOOLEAN

RestType ==
    /\ object \in BOOLEAN /\ partial \in BOOLEAN
    /\ kind \in [Op -> AllKinds \union {"none"}]
    /\ aborted \subseteq Op
    /\ layer \in {"open", "closing", "closed"} /\ guardClosed \in BOOLEAN
    /\ recovery \in {"idle", "read", "write"}
    /\ crashes \in 0..MaxCrashes /\ wanted \in BOOLEAN

LEMMA TypeParts == TypeOK <=> EntryType /\ LockType /\ RestType
BY DEF TypeOK, EntryType, LockType, RestType, Callers, Bodies

LEMMA SetStatusFacts ==
    ASSUME EntryType, NEW to \in Status, SetStatus(to) \/ Write(to)
    PROVE  EntryType' /\ status' = to
<1>1. status' = to /\ abandoned' \in BOOLEAN
  BY DEF SetStatus, Write
<1>2. retries' \in {0, retries, retries + 1}
  BY DEF SetStatus, Write
<1>3. QED
  BY <1>1, <1>2 DEF EntryType

LEMMA MoveFacts ==
    ASSUME EntryType, NEW from, NEW to \in Status, Move(from, to)
    PROVE  /\ EntryType'
           /\ status' = IF ~guardClosed /\ status \in from THEN to ELSE status
BY SetStatusFacts DEF Move, CanMove, EntryType, entryVars

\* The entry keeps its type.
LEMMA EntryStep ==
    ASSUME TypeOK, EntryType, [Next]_vars
    PROVE  EntryType'
<1>1. ASSUME NEW o \in Op, Start(o) PROVE EntryType'
  <2>1. \/ UNCHANGED entryVars
        \/ \E from \in SUBSET Status, to \in {"pending", "syncing"} : Move(from, to)
    BY <1>1 DEF Start, Fetchable, Status
  <2>2. QED
    BY <2>1, MoveFacts DEF EntryType, entryVars, Status
<1>2. ASSUME NEW o \in Op, Commit(o) PROVE EntryType'
  BY <1>2, MoveFacts, SetStatusFacts DEF Commit, EntryType, entryVars, Status
<1>3. ASSUME NEW o \in Op, Rollback(o) PROVE EntryType'
  BY <1>3 DEF Rollback, EntryType, entryVars
<1>4. ASSUME NEW o \in Op, Mark(o) PROVE EntryType'
  BY <1>4, MoveFacts, SetStatusFacts DEF Mark, EntryType, entryVars, Status
<1>5. ASSUME NEW o \in Op, List(o) PROVE EntryType'
  BY <1>5 DEF List, EntryType, entryVars
<1>6. ASSUME NEW o \in Op, Store(o) PROVE EntryType'
  BY <1>6, MoveFacts, SetStatusFacts DEF Store, EntryType, entryVars, Status
<1>7. ASSUME NEW o \in Op, Drop(o) PROVE EntryType'
  BY <1>7, MoveFacts, SetStatusFacts DEF Drop, EntryType, entryVars, Status
<1>8. ASSUME NEW o \in Op, Sent(o) PROVE EntryType'
  BY <1>8 DEF Sent, EntryType, entryVars
<1>9. ASSUME NEW o \in Op, SendFails(o) PROVE EntryType'
  BY <1>9, MoveFacts, SetStatusFacts DEF SendFails, EntryType, entryVars, Status
<1>10. ASSUME NEW o \in Op, SendAborts(o) PROVE EntryType'
  BY <1>10 DEF SendAborts, EntryType
<1>11. ASSUME NEW o \in Op, Record(o) PROVE EntryType'
  BY <1>11 DEF Record, EntryType, entryVars
<1>12. ASSUME NEW o \in Op, DeleteObject(o) PROVE EntryType'
  BY <1>12 DEF DeleteObject, EntryType, entryVars
<1>13. ASSUME NEW o \in Op, BeginUpload(o) PROVE EntryType'
  BY <1>13 DEF BeginUpload, EntryType, entryVars
<1>14. ASSUME NEW o \in Op, BeginBackground(o) PROVE EntryType'
  BY <1>14 DEF BeginBackground, EntryType, entryVars
<1>15. ASSUME NEW o \in Op, BeginDownload(o) PROVE EntryType'
  BY <1>15 DEF BeginDownload, EntryType, entryVars
<1>16. ASSUME NEW o \in Op, BeginBatch(o) PROVE EntryType'
  BY <1>16 DEF BeginBatch, EntryType, entryVars
<1>17. ASSUME NEW o \in Op, BeginResume(o) PROVE EntryType'
  BY <1>17 DEF BeginResume, EntryType, entryVars
<1>18. ASSUME NEW o \in Op, BeginDelete(o) PROVE EntryType'
  BY <1>18 DEF BeginDelete, EntryType, entryVars
<1>19. ASSUME NEW o \in Op, BeginEvict(o) PROVE EntryType'
  BY <1>19 DEF BeginEvict, EntryType, entryVars
<1>20. ASSUME NEW o \in Op, Cancel(o) PROVE EntryType'
  BY <1>20 DEF Cancel, EntryType, entryVars
<1>21. ASSUME NEW o \in Op, LockTimeout(o) PROVE EntryType'
  BY <1>21 DEF LockTimeout, EntryType, entryVars
<1>22. ASSUME NEW o \in Op, NEW online \in BOOLEAN, Put(o, online) PROVE EntryType'
  BY <1>22, MoveFacts, SetStatusFacts DEF Put, EntryType, entryVars, Status
<1>23. ASSUME NEW o \in Op, NEW expired \in BOOLEAN, Check(o, expired) PROVE EntryType'
  BY <1>23, MoveFacts, SetStatusFacts DEF Check, EntryType, entryVars, Status
<1>24. ASSUME EvictLRU PROVE EntryType'
  BY <1>24, MoveFacts, SetStatusFacts DEF EvictLRU, EntryType, entryVars, Status
<1>25. ASSUME RecoverRead PROVE EntryType'
  BY <1>25 DEF RecoverRead, EntryType, entryVars
<1>26. ASSUME RecoverWrite PROVE EntryType'
  BY <1>26, MoveFacts, SetStatusFacts DEF RecoverWrite, EntryType, entryVars, Status
<1>27. ASSUME CloseBegins PROVE EntryType'
  BY <1>27 DEF CloseBegins, EntryType, entryVars
<1>28. ASSUME CloseEnds PROVE EntryType'
  BY <1>28 DEF CloseEnds, EntryType, entryVars
<1>29. ASSUME Reopen PROVE EntryType'
  BY <1>29 DEF Reopen, EntryType, entryVars
<1>30. ASSUME Crash PROVE EntryType'
  BY <1>30 DEF Crash, EntryType, entryVars
<1>31. CASE UNCHANGED vars
  BY <1>31 DEF vars, EntryType, entryVars
<1>32. QED
  BY <1>1, <1>2, <1>3, <1>4, <1>5, <1>6, <1>7, <1>8, <1>9, <1>10, <1>11, <1>12, <1>13, <1>14, <1>15, <1>16, <1>17, <1>18, <1>19, <1>20, <1>21, <1>22, <1>23, <1>24, <1>25, <1>26, <1>27, <1>28, <1>29, <1>30, <1>31
  DEF Next, Local, Remote, User, Lifecycle

\* So does the rest.
LEMMA RestStep ==
    ASSUME RestType, [Next]_vars
    PROVE  RestType'
<1>1. ASSUME NEW o \in Op, Start(o) PROVE RestType'
  BY <1>1, BoundAssumption, ChoiceAssumption DEF Start, RestType, lifeVars, AllKinds
<1>2. ASSUME NEW o \in Op, Commit(o) PROVE RestType'
  BY <1>2, BoundAssumption, ChoiceAssumption DEF Commit, RestType, lifeVars, AllKinds
<1>3. ASSUME NEW o \in Op, Rollback(o) PROVE RestType'
  BY <1>3, BoundAssumption, ChoiceAssumption DEF Rollback, RestType, lifeVars, AllKinds
<1>4. ASSUME NEW o \in Op, Mark(o) PROVE RestType'
  BY <1>4, BoundAssumption, ChoiceAssumption DEF Mark, RestType, lifeVars, AllKinds
<1>5. ASSUME NEW o \in Op, List(o) PROVE RestType'
  BY <1>5, BoundAssumption, ChoiceAssumption DEF List, RestType, lifeVars, AllKinds
<1>6. ASSUME NEW o \in Op, Store(o) PROVE RestType'
  BY <1>6, BoundAssumption, ChoiceAssumption DEF Store, RestType, lifeVars, AllKinds
<1>7. ASSUME NEW o \in Op, Drop(o) PROVE RestType'
  BY <1>7, BoundAssumption, ChoiceAssumption DEF Drop, RestType, lifeVars, AllKinds
<1>8. ASSUME NEW o \in Op, Sent(o) PROVE RestType'
  BY <1>8, BoundAssumption, ChoiceAssumption DEF Sent, RestType, lifeVars, AllKinds
<1>9. ASSUME NEW o \in Op, SendFails(o) PROVE RestType'
  BY <1>9, BoundAssumption, ChoiceAssumption DEF SendFails, RestType, lifeVars, AllKinds
<1>10. ASSUME NEW o \in Op, SendAborts(o) PROVE RestType'
  BY <1>10, BoundAssumption, ChoiceAssumption DEF SendAborts, RestType, lifeVars, AllKinds
<1>11. ASSUME NEW o \in Op, Record(o) PROVE RestType'
  BY <1>11, BoundAssumption, ChoiceAssumption DEF Record, RestType, lifeVars, AllKinds
<1>12. ASSUME NEW o \in Op, DeleteObject(o) PROVE RestType'
  BY <1>12, BoundAssumption, ChoiceAssumption DEF DeleteObject, RestType, lifeVars, AllKinds
<1>13. ASSUME NEW o \in Op, BeginUpload(o) PROVE RestType'
  BY <1>13, BoundAssumption, ChoiceAssumption DEF BeginUpload, Begin, RestType, lifeVars, AllKinds
<1>14. ASSUME NEW o \in Op, BeginBackground(o) PROVE RestType'
  BY <1>14, BoundAssumption, ChoiceAssumption DEF BeginBackground, Begin, RestType, lifeVars, AllKinds
<1>15. ASSUME NEW o \in Op, BeginDownload(o) PROVE RestType'
  BY <1>15, BoundAssumption, ChoiceAssumption DEF BeginDownload, Begin, RestType, lifeVars, AllKinds
<1>16. ASSUME NEW o \in Op, BeginBatch(o) PROVE RestType'
  BY <1>16, BoundAssumption, ChoiceAssumption DEF BeginBatch, Begin, RestType, lifeVars, AllKinds
<1>17. ASSUME NEW o \in Op, BeginResume(o) PROVE RestType'
  BY <1>17, BoundAssumption, ChoiceAssumption DEF BeginResume, Begin, RestType, lifeVars, AllKinds
<1>18. ASSUME NEW o \in Op, BeginDelete(o) PROVE RestType'
  BY <1>18, BoundAssumption, ChoiceAssumption DEF BeginDelete, Begin, RestType, lifeVars, AllKinds
<1>19. ASSUME NEW o \in Op, BeginEvict(o) PROVE RestType'
  BY <1>19, BoundAssumption, ChoiceAssumption DEF BeginEvict, Begin, RestType, lifeVars, AllKinds
<1>20. ASSUME NEW o \in Op, Cancel(o) PROVE RestType'
  BY <1>20, BoundAssumption, ChoiceAssumption DEF Cancel, RestType, lifeVars, AllKinds
<1>21. ASSUME NEW o \in Op, LockTimeout(o) PROVE RestType'
  BY <1>21, BoundAssumption, ChoiceAssumption DEF LockTimeout, RestType, lifeVars, AllKinds
<1>22. ASSUME NEW o \in Op, NEW online \in BOOLEAN, Put(o, online) PROVE RestType'
  BY <1>22 DEF Put, RestType, lifeVars
<1>23. ASSUME NEW o \in Op, NEW expired \in BOOLEAN, Check(o, expired) PROVE RestType'
  BY <1>23, BoundAssumption, ChoiceAssumption DEF Check, RestType, lifeVars, AllKinds
<1>24. ASSUME EvictLRU PROVE RestType'
  BY <1>24, BoundAssumption, ChoiceAssumption DEF EvictLRU, RestType, lifeVars, AllKinds
<1>25. ASSUME RecoverRead PROVE RestType'
  BY <1>25, BoundAssumption, ChoiceAssumption DEF RecoverRead, RestType, lifeVars, AllKinds
<1>26. ASSUME RecoverWrite PROVE RestType'
  BY <1>26, BoundAssumption, ChoiceAssumption DEF RecoverWrite, RestType, lifeVars, AllKinds
<1>27. ASSUME CloseBegins PROVE RestType'
  BY <1>27, BoundAssumption, ChoiceAssumption DEF CloseBegins, RestType, lifeVars, AllKinds
<1>28. ASSUME CloseEnds PROVE RestType'
  BY <1>28, BoundAssumption, ChoiceAssumption DEF CloseEnds, RestType, lifeVars, AllKinds
<1>29. ASSUME Reopen PROVE RestType'
  BY <1>29, BoundAssumption, ChoiceAssumption DEF Reopen, RestType, lifeVars, AllKinds
<1>30. ASSUME Crash PROVE RestType'
  <2>1. object' \in BOOLEAN
    <3>1. object \in BOOLEAN /\ (object \/ \E o \in Op : body[o] = "send") \in BOOLEAN
      BY DEF RestType
    <3>2. object' \in {object, object \/ \E o \in Op : body[o] = "send"}
      BY <1>30 DEF Crash
    <3> HIDE DEF RestType
    <3>3. QED
      BY <3>1, <3>2, Zenon
  <2>2. /\ crashes < MaxCrashes /\ crashes' = crashes + 1 /\ layer' = "open"
        /\ guardClosed' = FALSE /\ recovery' = "read"
        /\ UNCHANGED <<partial, kind, aborted, wanted>>
    BY <1>30 DEF Crash
  <2>3. crashes' \in 0..MaxCrashes
    BY <2>2, BoundAssumption DEF RestType
  <2>4. /\ partial' \in BOOLEAN /\ wanted' \in BOOLEAN /\ aborted' \subseteq Op
        /\ kind' \in [Op -> AllKinds \union {"none"}] /\ guardClosed' \in BOOLEAN
        /\ layer' \in {"open", "closing", "closed"} /\ recovery' \in {"idle", "read", "write"}
    BY <2>2 DEF RestType
  <2>5. QED
    BY <2>1, <2>3, <2>4 DEF RestType
<1>31. CASE UNCHANGED vars
  BY <1>31 DEF vars, RestType, lifeVars
<1>32. QED
  BY <1>1, <1>2, <1>3, <1>4, <1>5, <1>6, <1>7, <1>8, <1>9, <1>10, <1>11, <1>12, <1>13, <1>14, <1>15, <1>16, <1>17, <1>18, <1>19, <1>20, <1>21, <1>22, <1>23, <1>24, <1>25, <1>26, <1>27, <1>28, <1>29, <1>30, <1>31
  DEF Next, Local, Remote, User, Lifecycle

-----------------------------------------------------------------------------
(* Who moves the entry on from 'syncing'.                                  *)

Excused == guardClosed \/ abandoned \/ recovery # "idle"

OwnersStay == \A w \in Op : Owner(w) => Owner(w)'

LEMMA OwnedKeeps ==
    ASSUME Owned, status' = "syncing" => status = "syncing", OwnersStay,
           Excused => Excused'
    PROVE  Owned'
BY DEF Owned, OwnersStay, Excused

\* A call that is not touched owns what it owned.
LEMMA OwnerFacts ==
    ASSUME NEW w \in Op, caller'[w] = caller[w], body'[w] = body[w], kind'[w] = kind[w]
    PROVE  Owner(w) => Owner(w)'
BY DEF Owner, InTransaction

\* When a body ends, the owners left are those it leaves.
LEMMA SettleOwners ==
    ASSUME TypeOK, LockIInv, NEW o \in Op, NEW out \in Outcomes, body[o] # "idle",
           Holds(o) \/ body[o] # "queued", Settle(o, out), kind' = kind,
           Owner(o) => Owner(o)'
    PROVE  OwnersStay
<1> SUFFICES ASSUME NEW w \in Op, w # o, Owner(w) PROVE Owner(w)'
  BY DEF OwnersStay
<1>1. CASE w \in Joined(o)
  <2>1. body[w] = "joined" /\ caller[w] = "mark"
    BY <1>1 DEF Joined, Owner, Running, LockIInv, Placed, Resting
  <2>2. ~Waiting(w)
    BY <2>1 DEF LockIInv, Lined
  <2>3. caller'[w] = "mark"
    BY <1>1, <2>1, <2>2, SettleFacts
  <2>4. QED
    BY <2>3 DEF Owner
<1>2. CASE w \notin Joined(o)
  BY <1>2, SettleFacts, OwnerFacts
<1>3. QED
  BY <1>1, <1>2

\* What becomes of a call that waits, when its body ends.
LEMMA SettledCall ==
    ASSUME TypeOK, LockIInv, NEW o \in Op, NEW out \in Outcomes, body[o] # "idle",
           Holds(o) \/ body[o] # "queued", Settle(o, out)
    PROVE  caller'[o] = IF caller[o] \in {"waiting", "undoing", "resuming"}
                        THEN After(o, out) ELSE caller[o]
<1>1. caller'[o] = IF Waiting(o) \/ caller[o] = "resuming" THEN After(o, out) ELSE caller[o]
  BY SettleFacts
<1>2. Waiting(o) <=> caller[o] \in {"waiting", "undoing"}
  BY DEF LockIInv, Lined
<1>3. QED
  BY <1>1, <1>2

\* An entry that is 'syncing' keeps an owner, or is excused.
LEMMA OwnedStep ==
    ASSUME TypeOK, EntryType, LockIInv, ClosedIsGuarded, Owned, [Next]_vars
    PROVE  Owned'
<1>1. ASSUME NEW o \in Op, Start(o) PROVE Owned'
  <2>1. /\ Holds(o) /\ body[o] = "queued" /\ UNCHANGED <<kind, guardClosed, recovery>>
    BY <1>1 DEF Start, lifeVars
  <2>2. caller[o] \in {"waiting", "undoing"}
    <3>1. Waiting(o)
      BY <2>1, TailFacts DEF Holds, Waiting, TypeOK, LockIInv, Lined
    <3>2. QED
      BY <3>1 DEF LockIInv, Lined
  <2>3. CASE caller[o] = "undoing"
    <3>1. guardClosed \/ status' # "syncing"
      BY <1>1, <2>3, MoveFacts DEF Start, Status, EntryType
    <3>2. QED
      BY <2>1, <3>1 DEF Owned
  <2>4. CASE caller[o] = "waiting"
    <3>1. ~Owner(o)
      BY <2>1, <2>4 DEF Owner, Running
    <3>2. CASE Send(o)
      <4>1. body'[o] = "send" /\ caller'[o] = "waiting"
        BY <2>4, <3>2 DEF Send, TypeOK
      <4>2. QED
        BY <4>1 DEF Owner, Running, Owned
    <3>3. CASE Join(o) /\ UNCHANGED entryVars
      <4>1. OthersStay(o)
        BY <3>3 DEF Join, OthersStay, TypeOK
      <4>2. OwnersStay
        BY <2>1, <3>1, <4>1, OwnerFacts DEF OwnersStay, OthersStay
      <4>3. QED
        BY <2>1, <3>3, <4>2, OwnedKeeps DEF entryVars, Excused
    <3>4. CASE /\ \E out \in Outcomes : Settle(o, out)
               /\ guardClosed \/ UNCHANGED entryVars
      <4>1. OwnersStay
        BY <2>1, <3>1, <3>4, SettleOwners
      <4>2. QED
        BY <2>1, <3>4, <4>1, OwnedKeeps DEF entryVars, Excused, Owned
    <3>5. \/ Send(o) \/ (Join(o) /\ UNCHANGED entryVars)
          \/ /\ \E out \in Outcomes : Settle(o, out)
             /\ guardClosed \/ UNCHANGED entryVars
      BY <1>1, <2>4 DEF Start, Move, CanMove, Fetchable, Outcomes
    <3>6. QED
      BY <3>2, <3>3, <3>4, <3>5
  <2>5. QED
    BY <2>2, <2>3, <2>4
<1>2. ASSUME NEW o \in Op, Commit(o) PROVE Owned'
  <2>1. guardClosed \/ status' # "syncing"
    BY <1>2, MoveFacts DEF Commit, Recordable, Status, EntryType
  <2>2. QED
    BY <1>2, <2>1 DEF Commit, lifeVars, Owned
<1>3. ASSUME NEW o \in Op, Rollback(o) PROVE Owned'
  <2>1. UNCHANGED <<entryVars, kind, guardClosed, recovery>> /\ OthersStay(o)
    BY <1>3 DEF Rollback, lifeVars, OthersStay, Enqueue, GoTo, TypeOK
  <2>2. Owner(o)'
    BY <1>3 DEF Rollback, Enqueue, GoTo, TypeOK, Owner
  <2>3. OwnersStay
    BY <2>1, <2>2, OwnerFacts DEF OwnersStay, OthersStay
  <2>4. QED
    BY <2>1, <2>3, OwnedKeeps DEF entryVars, Excused
<1>4. ASSUME NEW o \in Op, Mark(o) PROVE Owned'
  <2>1. guardClosed \/ status' # "syncing"
    BY <1>4, MoveFacts DEF Mark, Status, EntryType
  <2>2. QED
    BY <1>4, <2>1 DEF Mark, lifeVars, Owned
<1>5. ASSUME NEW o \in Op, List(o) PROVE Owned'
  <2>1. /\ UNCHANGED <<entryVars, guardClosed, recovery>> /\ caller[o] \in {"listing"}
        /\ KindsStay(o) /\ OthersStay(o)
    BY <1>5, GoToFacts
       DEF List, lifeVars, KindsStay, OthersStay, Enqueue, GoTo, TypeOK
  <2>2. ~Owner(o)
    BY <2>1 DEF Owner, LockIInv, Placed, Resting, Running
  <2>3. OwnersStay
    BY <2>1, <2>2, OwnerFacts DEF OwnersStay, KindsStay, OthersStay
  <2>4. QED
    BY <2>1, <2>3, OwnedKeeps DEF entryVars, Excused
<1>6. ASSUME NEW o \in Op, Store(o) PROVE Owned'
  <2>1. status' = "synced" \/ UNCHANGED entryVars
    BY <1>6 DEF Store, Write
  <2>2. /\ UNCHANGED <<guardClosed, recovery>> /\ caller[o] = "store"
        /\ kind' = kind /\ OthersStay(o)
    BY <1>6, GoToFacts DEF Store, lifeVars, OthersStay, GoTo, TypeOK
  <2>3. ~Owner(o)
    BY <2>2 DEF Owner, LockIInv, Placed, Resting, Running
  <2>4. OwnersStay
    BY <2>2, <2>3, OwnerFacts DEF OwnersStay, OthersStay
  <2>5. QED
    BY <2>1, <2>2, <2>4, OwnedKeeps DEF entryVars, Excused, Owned
<1>7. ASSUME NEW o \in Op, Drop(o) PROVE Owned'
  <2>1. guardClosed \/ status' # "syncing"
    BY <1>7 DEF Drop, Write
  <2>2. QED
    BY <1>7, <2>1 DEF Drop, lifeVars, Owned
<1>8. ASSUME NEW o \in Op, Sent(o) PROVE Owned'
  <2>1. /\ UNCHANGED <<entryVars, caller, kind, guardClosed, recovery>>
        /\ body[o] = "send" /\ body'[o] = "commit" /\ \A p \in Op : p # o => body'[p] = body[p]
    BY <1>8 DEF Sent, lifeVars, TypeOK
  <2>2. Owner(o) => Owner(o)'
    BY <2>1 DEF Owner, Running, InTransaction
  <2>3. OwnersStay
    BY <2>1, <2>2, OwnerFacts DEF OwnersStay
  <2>4. QED
    BY <2>1, <2>3, OwnedKeeps DEF entryVars, Excused
<1>9. ASSUME NEW o \in Op, SendFails(o) PROVE Owned'
  <2>1. /\ body[o] = "send" /\ Settle(o, "error") /\ UNCHANGED <<kind, guardClosed, recovery>>
    BY <1>9 DEF SendFails, lifeVars
  <2>2. CASE InTransaction(o)
    <3>1. guardClosed \/ status' # "syncing"
      BY <1>9, <2>2, MoveFacts DEF SendFails, Status, EntryType
    <3>2. QED
      BY <2>1, <3>1 DEF Owned
  <2>3. CASE ~InTransaction(o)
    <3>1. UNCHANGED entryVars
      BY <1>9, <2>3 DEF SendFails
    <3>2. Owner(o) => caller[o] = "mark" \/ (caller[o] = "waiting" /\ kind[o] = "upload")
      BY <2>1, <2>3 DEF Owner, InTransaction, LockIInv, Placed, Suited, Resting
    <3>3. caller[o] = "waiting" /\ kind[o] = "upload" => After(o, "error") = "mark"
      BY DEF After
    <3>4. Owner(o) => Owner(o)'
      BY <2>1, <3>2, <3>3, SettledCall DEF Owner, Outcomes
    <3>5. QED
      BY <2>1, <3>1, <3>4, SettleOwners, OwnedKeeps DEF Outcomes, entryVars, Excused
  <2>4. QED
    BY <2>2, <2>3
<1>10. ASSUME NEW o \in Op, SendAborts(o) PROVE Owned'
  <2>1. /\ body[o] = "send" /\ Settle(o, "abort")
        /\ UNCHANGED <<status, kind, guardClosed, recovery>>
        /\ abandoned' = (abandoned \/ (InTransaction(o) /\ status = "syncing"))
    BY <1>10 DEF SendAborts, lifeVars
  <2>2. CASE InTransaction(o)
    BY <2>1, <2>2 DEF Owned
  <2>3. CASE ~InTransaction(o)
    <3>1. Owner(o) => caller[o] = "mark" \/ (caller[o] = "waiting" /\ kind[o] = "upload")
      BY <2>1, <2>3 DEF Owner, InTransaction, LockIInv, Placed, Suited, Resting
    <3>2. caller[o] = "waiting" /\ kind[o] = "upload" => After(o, "abort") = "rollback"
      BY DEF After
    <3>3. Owner(o) => Owner(o)'
      BY <2>1, <3>1, <3>2, SettledCall DEF Owner, Outcomes
    <3>4. QED
      BY <2>1, <3>3, SettleOwners, OwnedKeeps DEF Outcomes, Excused
  <2>4. QED
    BY <2>2, <2>3
<1>11. ASSUME NEW o \in Op, Record(o) PROVE Owned'
  <2>1. UNCHANGED <<entryVars, caller, body, kind, guardClosed, recovery>>
    BY <1>11 DEF Record, lockVars, lifeVars
  <2>2. OwnersStay
    BY <2>1, OwnerFacts DEF OwnersStay
  <2>3. QED
    BY <2>1, <2>2, OwnedKeeps DEF entryVars, Excused
<1>12. ASSUME NEW o \in Op, DeleteObject(o) PROVE Owned'
  <2>1. /\ UNCHANGED <<entryVars, guardClosed, recovery>> /\ caller[o] \in {"deleting"}
        /\ KindsStay(o) /\ OthersStay(o)
    BY <1>12, GoToFacts
       DEF DeleteObject, lifeVars, KindsStay, OthersStay, Enqueue, GoTo, TypeOK
  <2>2. ~Owner(o)
    BY <2>1 DEF Owner, LockIInv, Placed, Resting, Running
  <2>3. OwnersStay
    BY <2>1, <2>2, OwnerFacts DEF OwnersStay, KindsStay, OthersStay
  <2>4. QED
    BY <2>1, <2>3, OwnedKeeps DEF entryVars, Excused
<1>13. ASSUME NEW o \in Op, BeginUpload(o) PROVE Owned'
  <2>1. /\ UNCHANGED <<entryVars, guardClosed, recovery>> /\ caller[o] \in {"free"}
        /\ KindsStay(o) /\ OthersStay(o)
    BY <1>13, GoToFacts
       DEF BeginUpload, Begin, lifeVars, KindsStay, OthersStay, Enqueue, GoTo, TypeOK
  <2>2. ~Owner(o)
    BY <2>1 DEF Owner, LockIInv, Placed, Resting, Running
  <2>3. OwnersStay
    BY <2>1, <2>2, OwnerFacts DEF OwnersStay, KindsStay, OthersStay
  <2>4. QED
    BY <2>1, <2>3, OwnedKeeps DEF entryVars, Excused
<1>14. ASSUME NEW o \in Op, BeginBackground(o) PROVE Owned'
  <2>1. /\ UNCHANGED <<entryVars, guardClosed, recovery>> /\ caller[o] \in {"free"}
        /\ KindsStay(o) /\ OthersStay(o)
    BY <1>14, GoToFacts
       DEF BeginBackground, Begin, lifeVars, KindsStay, OthersStay, Enqueue, GoTo, TypeOK
  <2>2. ~Owner(o)
    BY <2>1 DEF Owner, LockIInv, Placed, Resting, Running
  <2>3. OwnersStay
    BY <2>1, <2>2, OwnerFacts DEF OwnersStay, KindsStay, OthersStay
  <2>4. QED
    BY <2>1, <2>3, OwnedKeeps DEF entryVars, Excused
<1>15. ASSUME NEW o \in Op, BeginDownload(o) PROVE Owned'
  <2>1. /\ UNCHANGED <<entryVars, guardClosed, recovery>> /\ caller[o] \in {"free"}
        /\ KindsStay(o) /\ OthersStay(o)
    BY <1>15, GoToFacts
       DEF BeginDownload, Begin, lifeVars, KindsStay, OthersStay, Enqueue, GoTo, TypeOK
  <2>2. ~Owner(o)
    BY <2>1 DEF Owner, LockIInv, Placed, Resting, Running
  <2>3. OwnersStay
    BY <2>1, <2>2, OwnerFacts DEF OwnersStay, KindsStay, OthersStay
  <2>4. QED
    BY <2>1, <2>3, OwnedKeeps DEF entryVars, Excused
<1>16. ASSUME NEW o \in Op, BeginBatch(o) PROVE Owned'
  <2>1. /\ UNCHANGED <<entryVars, guardClosed, recovery>> /\ caller[o] \in {"free"}
        /\ KindsStay(o) /\ OthersStay(o)
    BY <1>16, GoToFacts
       DEF BeginBatch, Begin, lifeVars, KindsStay, OthersStay, Enqueue, GoTo, TypeOK
  <2>2. ~Owner(o)
    BY <2>1 DEF Owner, LockIInv, Placed, Resting, Running
  <2>3. OwnersStay
    BY <2>1, <2>2, OwnerFacts DEF OwnersStay, KindsStay, OthersStay
  <2>4. QED
    BY <2>1, <2>3, OwnedKeeps DEF entryVars, Excused
<1>17. ASSUME NEW o \in Op, BeginResume(o) PROVE Owned'
  <2>1. /\ UNCHANGED <<entryVars, guardClosed, recovery>> /\ caller[o] \in {"free"}
        /\ KindsStay(o) /\ OthersStay(o)
    BY <1>17, GoToFacts
       DEF BeginResume, Begin, lifeVars, KindsStay, OthersStay, Enqueue, GoTo, TypeOK
  <2>2. ~Owner(o)
    BY <2>1 DEF Owner, LockIInv, Placed, Resting, Running
  <2>3. OwnersStay
    BY <2>1, <2>2, OwnerFacts DEF OwnersStay, KindsStay, OthersStay
  <2>4. QED
    BY <2>1, <2>3, OwnedKeeps DEF entryVars, Excused
<1>18. ASSUME NEW o \in Op, BeginDelete(o) PROVE Owned'
  <2>1. /\ UNCHANGED <<entryVars, guardClosed, recovery>> /\ caller[o] \in {"free"}
        /\ KindsStay(o) /\ OthersStay(o)
    BY <1>18, GoToFacts
       DEF BeginDelete, Begin, lifeVars, KindsStay, OthersStay, Enqueue, GoTo, TypeOK
  <2>2. ~Owner(o)
    BY <2>1 DEF Owner, LockIInv, Placed, Resting, Running
  <2>3. OwnersStay
    BY <2>1, <2>2, OwnerFacts DEF OwnersStay, KindsStay, OthersStay
  <2>4. QED
    BY <2>1, <2>3, OwnedKeeps DEF entryVars, Excused
<1>19. ASSUME NEW o \in Op, BeginEvict(o) PROVE Owned'
  <2>1. /\ UNCHANGED <<entryVars, guardClosed, recovery>> /\ caller[o] \in {"free"}
        /\ KindsStay(o) /\ OthersStay(o)
    BY <1>19, GoToFacts
       DEF BeginEvict, Begin, lifeVars, KindsStay, OthersStay, Enqueue, GoTo, TypeOK
  <2>2. ~Owner(o)
    BY <2>1 DEF Owner, LockIInv, Placed, Resting, Running
  <2>3. OwnersStay
    BY <2>1, <2>2, OwnerFacts DEF OwnersStay, KindsStay, OthersStay
  <2>4. QED
    BY <2>1, <2>3, OwnedKeeps DEF entryVars, Excused
<1>20. ASSUME NEW o \in Op, Cancel(o) PROVE Owned'
  <2>1. UNCHANGED <<entryVars, caller, body, kind, guardClosed, recovery>>
    BY <1>20 DEF Cancel, lockVars, lifeVars
  <2>2. OwnersStay
    BY <2>1, OwnerFacts DEF OwnersStay
  <2>3. QED
    BY <2>1, <2>2, OwnedKeeps DEF entryVars, Excused
<1>21. ASSUME NEW o \in Op, LockTimeout(o) PROVE Owned'
  <2>1. /\ UNCHANGED <<entryVars, body, kind, guardClosed, recovery>> /\ Holds(o)
        /\ body[o] # "queued" /\ GoTo(o, After(o, "error"))
    BY <1>21 DEF LockTimeout, lifeVars
  <2>2. caller[o] = "waiting"
    <3>1. Waiting(o)
      BY <2>1, TailFacts DEF Holds, Waiting, TypeOK, LockIInv, Lined
    <3>2. QED
      BY <2>1, <3>1 DEF LockIInv, Lined, Placed
  <2>3. After(o, "error") = IF kind[o] = "background" THEN "done" ELSE "mark"
    BY <2>2 DEF After
  <2>4. /\ caller'[o] = IF kind[o] = "background" THEN "done" ELSE "mark"
        /\ \A p \in Op : p # o => caller'[p] = caller[p]
    BY <2>1, <2>3, GoToFacts DEF Callers
  <2>5. Owner(o) => Owner(o)'
    BY <2>1, <2>2, <2>4 DEF Owner, InTransaction
  <2>6. OwnersStay
    BY <2>1, <2>4, <2>5, OwnerFacts DEF OwnersStay
  <2>7. QED
    BY <2>1, <2>6, OwnedKeeps DEF entryVars, Excused
<1>22. ASSUME NEW o \in Op, NEW online \in BOOLEAN, Put(o, online) PROVE Owned'
  <2>1. guardClosed \/ status' # "syncing"
    BY <1>22 DEF Put, Write
  <2>2. QED
    BY <1>22, <2>1 DEF Put, lifeVars, Owned
<1>23. ASSUME NEW o \in Op, NEW expired \in BOOLEAN, Check(o, expired) PROVE Owned'
  <2>1. /\ body[o] = "check" /\ UNCHANGED <<kind, guardClosed, recovery>>
        /\ UNCHANGED entryVars \/ status' = "failed"
    BY <1>23 DEF Check, lifeVars, SetStatus
  <2>2. ~Owner(o)
    BY <2>1 DEF Owner, LockIInv, Placed, Resting, Running, TypeOK
  <2>3. CASE UNCHANGED entryVars
    <3>1. CASE Settle(o, "ok")
      BY <2>1, <2>2, <2>3, <3>1, SettleOwners, OwnedKeeps DEF Outcomes, entryVars, Excused
    <3>2. CASE OthersStay(o)
      <4>1. OwnersStay
        BY <2>1, <2>2, <3>2, OwnerFacts DEF OwnersStay, OthersStay
      <4>2. QED
        BY <2>1, <2>3, <4>1, OwnedKeeps DEF entryVars, Excused
    <3>3. OthersStay(o) \/ Settle(o, "ok")
      BY <1>23 DEF Check, OthersStay, GoTo, TypeOK
    <3>4. QED
      BY <3>1, <3>2, <3>3
  <2>4. CASE status' = "failed"
    BY <2>4 DEF Owned
  <2>5. QED
    BY <2>1, <2>3, <2>4
<1>24. ASSUME EvictLRU PROVE Owned'
  BY <1>24 DEF EvictLRU, Write, Owned
<1>25. ASSUME RecoverRead PROVE Owned'
  <2>1. UNCHANGED <<entryVars, caller, body, kind, guardClosed>>
    BY <1>25 DEF RecoverRead, lockVars
  <2>2. status # "syncing" \/ guardClosed \/ recovery' # "idle"
    BY <1>25 DEF RecoverRead
  <2>3. QED
    BY <2>1, <2>2 DEF entryVars, Owned
<1>26. ASSUME RecoverWrite PROVE Owned'
  <2>1. status' # "syncing" \/ (layer = "closed" /\ guardClosed' = guardClosed)
    BY <1>26 DEF RecoverWrite, SetStatus, entryVars
  <2>2. QED
    BY <2>1 DEF Owned, ClosedIsGuarded
<1>27. ASSUME CloseBegins PROVE Owned'
  <2>1. UNCHANGED <<entryVars, caller, body, kind, guardClosed, recovery>>
    BY <1>27 DEF CloseBegins, lockVars, lifeVars
  <2>2. OwnersStay
    BY <2>1, OwnerFacts DEF OwnersStay
  <2>3. QED
    BY <2>1, <2>2, OwnedKeeps DEF entryVars, Excused
<1>28. ASSUME CloseEnds PROVE Owned'
  BY <1>28 DEF CloseEnds, Owned
<1>29. ASSUME Reopen PROVE Owned'
  BY <1>29 DEF Reopen, Owned
<1>30. ASSUME Crash PROVE Owned'
  BY <1>30 DEF Crash, Owned
<1>31. CASE UNCHANGED vars
  <2>1. UNCHANGED <<entryVars, caller, body, kind, guardClosed, recovery>>
    BY <1>31 DEF vars, lockVars, lifeVars
  <2>2. OwnersStay
    BY <2>1, OwnerFacts DEF OwnersStay
  <2>3. QED
    BY <2>1, <2>2, OwnedKeeps DEF entryVars, Excused
<1>32. QED
  BY <1>1, <1>2, <1>3, <1>4, <1>5, <1>6, <1>7, <1>8, <1>9, <1>10, <1>11, <1>12, <1>13, <1>14, <1>15, <1>16, <1>17, <1>18, <1>19, <1>20, <1>21, <1>22, <1>23, <1>24, <1>25, <1>26, <1>27, <1>28, <1>29, <1>30, <1>31
  DEF Next, Local, Remote, User, Lifecycle

\* The guard of a closed layer is shut.
LEMMA ClosedStep ==
    ASSUME ClosedIsGuarded, [Next]_vars
    PROVE  ClosedIsGuarded'
<1>1. ASSUME NEW o \in Op, Start(o) PROVE ClosedIsGuarded'
  BY <1>1 DEF Start, lifeVars, ClosedIsGuarded
<1>2. ASSUME NEW o \in Op, Commit(o) PROVE ClosedIsGuarded'
  BY <1>2 DEF Commit, lifeVars, ClosedIsGuarded
<1>3. ASSUME NEW o \in Op, Rollback(o) PROVE ClosedIsGuarded'
  BY <1>3 DEF Rollback, lifeVars, ClosedIsGuarded
<1>4. ASSUME NEW o \in Op, Mark(o) PROVE ClosedIsGuarded'
  BY <1>4 DEF Mark, lifeVars, ClosedIsGuarded
<1>5. ASSUME NEW o \in Op, List(o) PROVE ClosedIsGuarded'
  BY <1>5 DEF List, lifeVars, ClosedIsGuarded
<1>6. ASSUME NEW o \in Op, Store(o) PROVE ClosedIsGuarded'
  BY <1>6 DEF Store, lifeVars, ClosedIsGuarded
<1>7. ASSUME NEW o \in Op, Drop(o) PROVE ClosedIsGuarded'
  BY <1>7 DEF Drop, lifeVars, ClosedIsGuarded
<1>8. ASSUME NEW o \in Op, Sent(o) PROVE ClosedIsGuarded'
  BY <1>8 DEF Sent, lifeVars, ClosedIsGuarded
<1>9. ASSUME NEW o \in Op, SendFails(o) PROVE ClosedIsGuarded'
  BY <1>9 DEF SendFails, lifeVars, ClosedIsGuarded
<1>10. ASSUME NEW o \in Op, SendAborts(o) PROVE ClosedIsGuarded'
  BY <1>10 DEF SendAborts, lifeVars, ClosedIsGuarded
<1>11. ASSUME NEW o \in Op, Record(o) PROVE ClosedIsGuarded'
  BY <1>11 DEF Record, lifeVars, ClosedIsGuarded
<1>12. ASSUME NEW o \in Op, DeleteObject(o) PROVE ClosedIsGuarded'
  BY <1>12 DEF DeleteObject, lifeVars, ClosedIsGuarded
<1>13. ASSUME NEW o \in Op, BeginUpload(o) PROVE ClosedIsGuarded'
  BY <1>13 DEF BeginUpload, Begin, lifeVars, ClosedIsGuarded
<1>14. ASSUME NEW o \in Op, BeginBackground(o) PROVE ClosedIsGuarded'
  BY <1>14 DEF BeginBackground, Begin, lifeVars, ClosedIsGuarded
<1>15. ASSUME NEW o \in Op, BeginDownload(o) PROVE ClosedIsGuarded'
  BY <1>15 DEF BeginDownload, Begin, lifeVars, ClosedIsGuarded
<1>16. ASSUME NEW o \in Op, BeginBatch(o) PROVE ClosedIsGuarded'
  BY <1>16 DEF BeginBatch, Begin, lifeVars, ClosedIsGuarded
<1>17. ASSUME NEW o \in Op, BeginResume(o) PROVE ClosedIsGuarded'
  BY <1>17 DEF BeginResume, Begin, lifeVars, ClosedIsGuarded
<1>18. ASSUME NEW o \in Op, BeginDelete(o) PROVE ClosedIsGuarded'
  BY <1>18 DEF BeginDelete, Begin, lifeVars, ClosedIsGuarded
<1>19. ASSUME NEW o \in Op, BeginEvict(o) PROVE ClosedIsGuarded'
  BY <1>19 DEF BeginEvict, Begin, lifeVars, ClosedIsGuarded
<1>20. ASSUME NEW o \in Op, Cancel(o) PROVE ClosedIsGuarded'
  BY <1>20 DEF Cancel, lifeVars, ClosedIsGuarded
<1>21. ASSUME NEW o \in Op, LockTimeout(o) PROVE ClosedIsGuarded'
  BY <1>21 DEF LockTimeout, lifeVars, ClosedIsGuarded
<1>22. ASSUME NEW o \in Op, NEW online \in BOOLEAN, Put(o, online) PROVE ClosedIsGuarded'
  BY <1>22 DEF Put, lifeVars, ClosedIsGuarded
<1>23. ASSUME NEW o \in Op, NEW expired \in BOOLEAN, Check(o, expired) PROVE ClosedIsGuarded'
  BY <1>23 DEF Check, lifeVars, ClosedIsGuarded
<1>24. ASSUME EvictLRU PROVE ClosedIsGuarded'
  BY <1>24 DEF EvictLRU, lifeVars, ClosedIsGuarded
<1>25. ASSUME RecoverRead PROVE ClosedIsGuarded'
  BY <1>25 DEF RecoverRead, lifeVars, ClosedIsGuarded
<1>26. ASSUME RecoverWrite PROVE ClosedIsGuarded'
  BY <1>26 DEF RecoverWrite, lifeVars, ClosedIsGuarded
<1>27. ASSUME CloseBegins PROVE ClosedIsGuarded'
  BY <1>27 DEF CloseBegins, lifeVars, ClosedIsGuarded
<1>28. ASSUME CloseEnds PROVE ClosedIsGuarded'
  BY <1>28 DEF CloseEnds, lifeVars, ClosedIsGuarded
<1>29. ASSUME Reopen PROVE ClosedIsGuarded'
  BY <1>29 DEF Reopen, lifeVars, ClosedIsGuarded
<1>30. ASSUME Crash PROVE ClosedIsGuarded'
  BY <1>30 DEF Crash, lifeVars, ClosedIsGuarded
<1>31. CASE UNCHANGED vars
  BY <1>31 DEF vars, lifeVars, ClosedIsGuarded
<1>32. QED
  BY <1>1, <1>2, <1>3, <1>4, <1>5, <1>6, <1>7, <1>8, <1>9, <1>10, <1>11, <1>12, <1>13, <1>14, <1>15, <1>16, <1>17, <1>18, <1>19, <1>20, <1>21, <1>22, <1>23, <1>24, <1>25, <1>26, <1>27, <1>28, <1>29, <1>30, <1>31
  DEF Next, Local, Remote, User, Lifecycle

-----------------------------------------------------------------------------
(* What a saved file can still lose.                                       *)

Removing == {"deleting", "dropping", "evicting"}

\* No success is about to be recorded that was not before, and nothing removed.
Calm ==
    \A p \in Op : /\ body'[p] = "commit" => body[p] = "commit"
                  /\ caller'[p] \in Removing => caller'[p] = caller[p]

LEMMA BackedKeeps ==
    ASSUME Backed, Calm, wanted' => wanted, wanted /\ object => object',
           status' \in {"none", "synced"} =>
               status \in {"none", "synced"} \/ ~wanted \/ object
    PROVE  Backed'
BY DEF Backed, Calm, Removing

LEMMA SettleCalm ==
    ASSUME TypeOK, LockIInv, NEW o \in Op, NEW out \in Outcomes, body[o] # "idle",
           Holds(o) \/ body[o] # "queued", Settle(o, out)
    PROVE  Calm
<1>1. \A p \in Op : p \notin {o} \union Joined(o) => caller'[p] = caller[p] /\ body'[p] = body[p]
  BY SettleFacts
<1>2. \A p \in {o} \union Joined(o) :
         /\ body'[p] = "idle"
         /\ caller'[p] = IF Waiting(p) \/ caller[p] = "resuming" THEN After(p, out) ELSE caller[p]
  BY SettleFacts
<1>3. \A p \in Op : After(p, out) \notin Removing
  BY AfterFacts DEF Removing
<1>4. QED
  BY <1>1, <1>2, <1>3 DEF Calm

LEMMA GoToCalm ==
    ASSUME TypeOK, NEW o \in Op, NEW c \in Callers \ Removing, GoTo(o, c), body' = body
    PROVE  Calm
BY GoToFacts DEF Calm

LEMMA EnqueueCalm ==
    ASSUME TypeOK, LockIInv, NEW o \in Op, ~Waiting(o), NEW c \in Callers \ Removing, Enqueue(o, c)
    PROVE  Calm
BY EnqueueFacts DEF Calm, OthersStay

\* A saved file stays on S3 or in the cache.
LEMMA BackedStep ==
    ASSUME TypeOK, EntryType, LockIInv, Backed, [Next]_vars
    PROVE  Backed'
<1>1. ASSUME NEW o \in Op, Start(o) PROVE Backed'
  <2>1. /\ UNCHANGED <<wanted, object>> /\ Holds(o) /\ body[o] = "queued"
        /\ status' \in {status, "pending", "syncing"}
    BY <1>1, MoveFacts DEF Start, Status, entryVars
  <2>2. CASE \E out \in Outcomes : Settle(o, out)
    <3>1. Calm
      BY <2>1, <2>2, SettleCalm
    <3>2. QED
      BY <2>1, <3>1, BackedKeeps
  <2>3. CASE Join(o) \/ Send(o)
    <3>1. Calm
      BY <2>3 DEF Join, Send, Calm, TypeOK
    <3>2. QED
      BY <2>1, <3>1, BackedKeeps
  <2>4. QED
    BY <1>1, <2>2, <2>3 DEF Start, Outcomes
<1>2. ASSUME NEW o \in Op, Commit(o) PROVE Backed'
  <2>1. /\ UNCHANGED <<wanted, object>> /\ body[o] = "commit"
        /\ \E out \in Outcomes : Settle(o, out)
    BY <1>2 DEF Commit, Outcomes
  <2>2. Calm
    BY <2>1, SettleCalm
  <2>3. wanted => object
    BY <2>1 DEF Backed
  <2>4. QED
    BY <2>1, <2>2, <2>3, BackedKeeps
<1>3. ASSUME NEW o \in Op, Rollback(o) PROVE Backed'
  <2>1. UNCHANGED <<status, wanted, object>>
    BY <1>3 DEF Rollback, entryVars
  <2>2. Calm
    BY <1>3, GoToFacts DEF Rollback, Calm, Enqueue, GoTo, TypeOK, Removing
  <2>3. QED
    BY <2>1, <2>2, BackedKeeps
<1>4. ASSUME NEW o \in Op, Mark(o) PROVE Backed'
  <2>1. UNCHANGED <<wanted, object, body>> /\ GoTo(o, "done") /\ status' \in {status, "failed"}
    BY <1>4, MoveFacts DEF Mark, Status
  <2>2. Calm
    BY <2>1, GoToCalm DEF Callers, Removing
  <2>3. QED
    BY <2>1, <2>2, BackedKeeps
<1>5. ASSUME NEW o \in Op, List(o) PROVE Backed'
  <2>1. UNCHANGED <<status, wanted, object>>
    BY <1>5 DEF List, entryVars
  <2>2. Calm
    BY <1>5, GoToFacts DEF List, Calm, Enqueue, GoTo, TypeOK, Removing
  <2>3. QED
    BY <2>1, <2>2, BackedKeeps
<1>6. ASSUME NEW o \in Op, Store(o) PROVE Backed'
  <2>1. /\ UNCHANGED <<wanted, object, body>> /\ GoTo(o, "done")
        /\ status' = status \/ status = "none"
    BY <1>6 DEF Store, Write, entryVars
  <2>2. Calm
    BY <2>1, GoToCalm DEF Callers, Removing
  <2>3. QED
    BY <2>1, <2>2, BackedKeeps
<1>7. ASSUME NEW o \in Op, Drop(o) PROVE Backed'
  <2>1. UNCHANGED <<wanted, object, body>> /\ GoTo(o, "done") /\ caller[o] \in {"dropping", "evicting"}
    BY <1>7 DEF Drop
  <2>2. Calm
    BY <2>1, GoToCalm DEF Callers, Removing
  <2>3. wanted => object
    BY <2>1 DEF Backed
  <2>4. QED
    BY <2>1, <2>2, <2>3, BackedKeeps
<1>8. ASSUME NEW o \in Op, Sent(o) PROVE Backed'
  <2>1. object' = TRUE /\ UNCHANGED <<wanted, caller>>
    BY <1>8 DEF Sent
  <2>2. QED
    BY <2>1 DEF Backed
<1>9. ASSUME NEW o \in Op, SendFails(o) PROVE Backed'
  <2>1. /\ wanted' = wanted /\ status' \in {status, "failed"}
        /\ body[o] = "send" /\ Settle(o, "error")
    BY <1>9, MoveFacts DEF SendFails, Status, entryVars
  <2>2. Calm
    BY <2>1, SettleCalm DEF Outcomes
  <2>3. object => object'
    BY <1>9, Zenon DEF SendFails
  <2>4. QED
    BY <2>1, <2>2, <2>3, BackedKeeps
<1>10. ASSUME NEW o \in Op, SendAborts(o) PROVE Backed'
  <2>1. /\ wanted' = wanted /\ status' \in {status, "failed"}
        /\ body[o] = "send" /\ Settle(o, "abort")
    BY <1>10, MoveFacts DEF SendAborts, Status, entryVars
  <2>2. Calm
    BY <2>1, SettleCalm DEF Outcomes
  <2>3. object => object'
    BY <1>10, Zenon DEF SendAborts
  <2>4. QED
    BY <2>1, <2>2, <2>3, BackedKeeps
<1>11. ASSUME NEW o \in Op, Record(o) PROVE Backed'
  <2>1. UNCHANGED <<status, caller, body, wanted>> /\ object' = object
    BY <1>11 DEF Record, lockVars, lifeVars, entryVars
  <2>2. Calm
    BY <2>1 DEF Calm
  <2>3. QED
    BY <2>1, <2>2, BackedKeeps
<1>12. ASSUME NEW o \in Op, DeleteObject(o) PROVE Backed'
  <2>1. wanted' = FALSE
    BY <1>12 DEF DeleteObject, Backed, TypeOK
  <2>2. QED
    BY <2>1 DEF Backed
<1>13. ASSUME NEW o \in Op, BeginUpload(o) PROVE Backed'
  <2>1. UNCHANGED <<status, wanted, object>>
    BY <1>13 DEF BeginUpload, Begin, entryVars
  <2>2. Calm
    BY <1>13, GoToFacts DEF BeginUpload, Begin, Calm, GoTo, TypeOK, Removing
  <2>3. QED
    BY <2>1, <2>2, BackedKeeps
<1>14. ASSUME NEW o \in Op, BeginBackground(o) PROVE Backed'
  <2>1. UNCHANGED <<status, wanted, object>>
    BY <1>14 DEF BeginBackground, Begin, entryVars
  <2>2. Calm
    BY <1>14, GoToFacts DEF BeginBackground, Begin, Calm, Enqueue, GoTo, TypeOK, Removing
  <2>3. QED
    BY <2>1, <2>2, BackedKeeps
<1>15. ASSUME NEW o \in Op, BeginDownload(o) PROVE Backed'
  <2>1. UNCHANGED <<status, wanted, object>>
    BY <1>15 DEF BeginDownload, Begin, entryVars
  <2>2. Calm
    BY <1>15, GoToFacts DEF BeginDownload, Begin, Calm, GoTo, TypeOK, Removing
  <2>3. QED
    BY <2>1, <2>2, BackedKeeps
<1>16. ASSUME NEW o \in Op, BeginBatch(o) PROVE Backed'
  <2>1. UNCHANGED <<status, wanted, object>>
    BY <1>16 DEF BeginBatch, Begin, entryVars
  <2>2. Calm
    BY <1>16, GoToFacts DEF BeginBatch, Begin, Calm, GoTo, TypeOK, Removing
  <2>3. QED
    BY <2>1, <2>2, BackedKeeps
<1>17. ASSUME NEW o \in Op, BeginResume(o) PROVE Backed'
  <2>1. UNCHANGED <<status, wanted, object>>
    BY <1>17 DEF BeginResume, Begin, entryVars
  <2>2. Calm
    BY <1>17, GoToFacts DEF BeginResume, Begin, Calm, GoTo, TypeOK, Removing
  <2>3. QED
    BY <2>1, <2>2, BackedKeeps
<1>18. ASSUME NEW o \in Op, BeginDelete(o) PROVE Backed'
  BY <1>18 DEF BeginDelete, Backed
<1>19. ASSUME NEW o \in Op, BeginEvict(o) PROVE Backed'
  <2>1. UNCHANGED <<status, wanted, object, body>> /\ GoTo(o, "evicting") /\ status = "synced"
    BY <1>19 DEF BeginEvict, Begin, Evictable, entryVars
  <2>2. caller'[o] = "evicting" /\ \A p \in Op : p # o => caller'[p] = caller[p]
    BY <2>1, GoToFacts DEF Callers
  <2>3. QED
    BY <2>1, <2>2 DEF Backed
<1>20. ASSUME NEW o \in Op, Cancel(o) PROVE Backed'
  <2>1. UNCHANGED <<status, caller, body, wanted>> /\ object' = object
    BY <1>20 DEF Cancel, lockVars, lifeVars, entryVars
  <2>2. Calm
    BY <2>1 DEF Calm
  <2>3. QED
    BY <2>1, <2>2, BackedKeeps
<1>21. ASSUME NEW o \in Op, LockTimeout(o) PROVE Backed'
  <2>1. UNCHANGED <<status, wanted, object, body>> /\ GoTo(o, After(o, "error"))
    BY <1>21 DEF LockTimeout, entryVars
  <2>2. Calm
    BY <2>1, AfterFacts, GoToCalm DEF Callers, Removing, Outcomes
  <2>3. QED
    BY <2>1, <2>2, BackedKeeps
<1>22. ASSUME NEW o \in Op, NEW online \in BOOLEAN, Put(o, online) PROVE Backed'
  <2>1. /\ caller[o] = "put" /\ object' = object
        /\ Enqueue(o, "waiting") \/ (GoTo(o, "done") /\ body' = body)
    BY <1>22 DEF Put
  <2>2. ~Waiting(o)
    BY <2>1 DEF LockIInv, Lined
  <2>3. Calm
    BY <2>1, <2>2, EnqueueCalm, GoToCalm DEF Callers, Removing
  <2>4. CASE UNCHANGED <<entryVars, wanted>>
    BY <2>1, <2>3, <2>4, BackedKeeps DEF entryVars
  <2>5. CASE Write("pending") /\ wanted' = (\A p \in Op : ~Disturbs(p))
    <3>1. wanted' => \A p \in Op : caller'[p] \notin Removing /\ (body'[p] = "commit" => object)
      BY <2>3, <2>5 DEF Calm, Disturbs, Removing
    <3>2. status' = "pending"
      BY <2>5 DEF Write
    <3>3. QED
      BY <2>1, <3>1, <3>2 DEF Backed, Removing
  <2>6. QED
    BY <1>22, <2>4, <2>5 DEF Put
<1>23. ASSUME NEW o \in Op, NEW expired \in BOOLEAN, Check(o, expired) PROVE Backed'
  <2>1. UNCHANGED <<wanted, object>> /\ body[o] = "check" /\ status' \in {status, "failed"}
    BY <1>23 DEF Check, SetStatus, entryVars
  <2>2. CASE Settle(o, "ok")
    <3>1. Calm
      BY <2>1, <2>2, SettleCalm DEF Outcomes
    <3>2. QED
      BY <2>1, <3>1, BackedKeeps
  <2>3. CASE ~Settle(o, "ok")
    <3>1. Calm
      BY <1>23, <2>3 DEF Check, Calm, GoTo, TypeOK, Removing
    <3>2. QED
      BY <2>1, <3>1, BackedKeeps
  <2>4. QED
    BY <2>2, <2>3
<1>24. ASSUME EvictLRU PROVE Backed'
  <2>1. UNCHANGED <<caller, body, wanted, object>> /\ status = "synced"
    BY <1>24 DEF EvictLRU, Evictable, lockVars
  <2>2. Calm
    BY <2>1 DEF Calm
  <2>3. QED
    BY <2>1, <2>2, BackedKeeps
<1>25. ASSUME RecoverRead PROVE Backed'
  <2>1. UNCHANGED <<status, caller, body, wanted>> /\ object' = object
    BY <1>25 DEF RecoverRead, lockVars, lifeVars, entryVars
  <2>2. Calm
    BY <2>1 DEF Calm
  <2>3. QED
    BY <2>1, <2>2, BackedKeeps
<1>26. ASSUME RecoverWrite PROVE Backed'
  <2>1. /\ UNCHANGED <<caller, body, wanted, object>>
        /\ status' = status \/ status' = "pending"
    BY <1>26 DEF RecoverWrite, lockVars, SetStatus, entryVars
  <2>2. Calm
    BY <2>1 DEF Calm
  <2>3. QED
    BY <2>1, <2>2, BackedKeeps
<1>27. ASSUME CloseBegins PROVE Backed'
  <2>1. UNCHANGED <<status, caller, body, wanted>> /\ object' = object
    BY <1>27 DEF CloseBegins, lockVars, lifeVars, entryVars
  <2>2. Calm
    BY <2>1 DEF Calm
  <2>3. QED
    BY <2>1, <2>2, BackedKeeps
<1>28. ASSUME CloseEnds PROVE Backed'
  <2>1. UNCHANGED <<status, caller, body, wanted>> /\ object' = object
    BY <1>28 DEF CloseEnds, lockVars, lifeVars, entryVars
  <2>2. Calm
    BY <2>1 DEF Calm
  <2>3. QED
    BY <2>1, <2>2, BackedKeeps
<1>29. ASSUME Reopen PROVE Backed'
  <2>1. UNCHANGED <<status, caller, body, wanted>> /\ object' = object
    BY <1>29 DEF Reopen, lockVars, lifeVars, entryVars
  <2>2. Calm
    BY <2>1 DEF Calm
  <2>3. QED
    BY <2>1, <2>2, BackedKeeps
<1>30. ASSUME Crash PROVE Backed'
  <2>1. UNCHANGED <<status, wanted>> /\ (object => object')
    BY <1>30 DEF Crash, entryVars
  <2>2. Calm
    BY <1>30 DEF Crash, Calm, Removing
  <2>3. QED
    BY <2>1, <2>2, BackedKeeps
<1>31. CASE UNCHANGED vars
  <2>1. UNCHANGED <<status, caller, body, wanted>> /\ object' = object
    BY <1>31 DEF vars, lockVars, lifeVars, entryVars
  <2>2. Calm
    BY <2>1 DEF Calm
  <2>3. QED
    BY <2>1, <2>2, BackedKeeps
<1>32. QED
  BY <1>1, <1>2, <1>3, <1>4, <1>5, <1>6, <1>7, <1>8, <1>9, <1>10, <1>11, <1>12, <1>13, <1>14, <1>15, <1>16, <1>17, <1>18, <1>19, <1>20, <1>21, <1>22, <1>23, <1>24, <1>25, <1>26, <1>27, <1>28, <1>29, <1>30, <1>31
  DEF Next, Local, Remote, User, Lifecycle

-----------------------------------------------------------------------------

LEMMA InitHolds == Init => IInv
<1> SUFFICES ASSUME Init PROVE IInv
  OBVIOUS
<1>1. TypeOK
  <2>1. 0 \in 0..MaxCrashes
    BY BoundAssumption
  <2>2. EntryType
    BY DEF Init, EntryType, Status
  <2>3. LockType
    BY DEF Init, LockType, Callers, Bodies
  <2>4. RestType
    BY <2>1 DEF Init, RestType
  <2>5. QED
    BY <2>2, <2>3, <2>4, TypeParts
<1>2. Lined
  BY EmptyFacts DEF Init, Lined, Distinct, Waiting
<1>3. Placed /\ Suited /\ Deduped
  BY DEF Init, Placed, Suited, Deduped, Mapped, Resting, Running
<1>4. Owned /\ ClosedIsGuarded /\ Backed
  BY DEF Init, Owned, ClosedIsGuarded, Backed
<1>5. QED
  BY <1>1, <1>2, <1>3, <1>4 DEF IInv

LEMMA StepHolds == IInv /\ [Next]_vars => IInv'
<1> SUFFICES ASSUME IInv, [Next]_vars PROVE IInv'
  OBVIOUS
<1>1. TypeOK /\ EntryType /\ RestType /\ LockIInv
  BY TypeParts DEF IInv, LockIInv
<1>2. LockIInv' /\ LockType'
  BY <1>1, LockStep
<1>3. EntryType' /\ RestType'
  BY <1>1, EntryStep, RestStep
<1>4. TypeOK'
  BY <1>2, <1>3 DEF TypeOK, EntryType, LockType, RestType, Callers, Bodies
<1>5. Owned' /\ ClosedIsGuarded' /\ Backed'
  BY <1>1, OwnedStep, ClosedStep, BackedStep DEF IInv
<1>6. QED
  BY <1>2, <1>4, <1>5 DEF IInv, LockIInv

(* The inductive invariant holds in every reachable state, whatever the    *)
(* number of calls, retries and deaths of the worker.                      *)
THEOREM Invariance == Spec => []IInv
BY InitHolds, StepHolds, PTL DEF Spec

(* Every variable keeps its type: the retries of an entry are only ever    *)
(* counted up from zero, and a call is always somewhere it can go on from. *)
THEOREM TypeCorrect == Spec => []TypeOK
BY Invariance, PTL DEF IInv

(* A saved file is on S3 or still in the cache with an upload to come,     *)
(* however many uploads, evictions, recoveries and lock timeouts overlap.  *)
THEOREM Kept == Spec => []SavedIsKept
<1>1. IInv => SavedIsKept
  BY DEF IInv, TypeOK, Status, Backed, SavedIsKept
<1>2. QED
  BY <1>1, Invariance, PTL

(* An entry that says 'syncing' has somebody who will correct it.          *)
THEOREM SyncingOwned == Spec => []SyncingHasOwner
<1>1. IInv => SyncingHasOwner
  BY DEF IInv, Owned, Owner, Running, SyncingHasOwner
<1>2. QED
  BY <1>1, Invariance, PTL

(* The dedup map keeps uploads from running twice at once, even after the  *)
(* lock has given up on one of them.                                       *)
THEOREM OneUpload == Spec => []NoDuplicateUpload
<1>1. ASSUME IInv PROVE NoDuplicateUpload
  <2> DEFINE S == {o \in Op : /\ kind[o] \in {"upload", "batch"} /\ caller[o] # "resuming"
                              /\ body[o] \in {"send", "commit"}}
  <2>1. S = {} \/ S = {inFlight}
    BY <1>1 DEF IInv, Deduped, Mapped, Running
  <2>2. Cardinality(S) \in {0, 1}
    BY <2>1, FS_EmptySet, FS_Singleton
  <2>3. QED
    BY <2>2 DEF NoDuplicateUpload
<1>2. QED
  BY <1>1, Invariance, PTL

(* Nobody waits for the lock, or for another's upload, in vain.            *)
THEOREM LockMoves == Spec => []LockNeverStalls
<1>1. IInv => LockNeverStalls
  BY DEF IInv, Placed, Lined, Deduped, Mapped, Running, Resting, LockNeverStalls, TypeOK
<1>2. QED
  BY <1>1, Invariance, PTL

-----------------------------------------------------------------------------
(* What the calls ask of a transfer.                                       *)

Stages == [o \in Op |-> Stage(o)]

Seen == <<Stages, object, partial>>

\* What is not seen leaves the transfers as they are.
LEMMA Unseen ==
    ASSUME UNCHANGED Seen
    PROVE  UNCHANGED Within!vars
BY DEF Seen, Stages, Within!vars

\* The stage of a call whose body goes somewhere.
LEMMA StageMoves ==
    ASSUME TypeOK, NEW o \in Op, NEW b \in Bodies, body' = [body EXCEPT ![o] = b]
    PROVE  Stages' = [Stages EXCEPT ![o] = CASE b = "send" -> "sending"
                                             [] b = "commit" -> "stored"
                                             [] OTHER -> "idle"]
<1>1. body'[o] = b /\ \A p \in Op : p # o => body'[p] = body[p]
  BY DEF TypeOK
<1>2. QED
  BY <1>1 DEF Stages, Stage

\* A call that is neither sending nor recording, and is not about to, is not seen.
LEMMA StageStays ==
    ASSUME TypeOK, NEW o \in Op, NEW b \in Bodies \ Running, body' = [body EXCEPT ![o] = b],
           Stages[o] = "idle"
    PROVE  Stages' = Stages
<1>1. b \in Bodies /\ b # "send" /\ b # "commit"
  BY DEF Running
<1>2. Stages' = [Stages EXCEPT ![o] = "idle"]
  BY <1>1, StageMoves
<1>3. QED
  BY <1>2 DEF Stages

\* A body that settles ends its own transfer; those that joined it had none.
LEMMA SettleStages ==
    ASSUME NEW o \in Op, NEW out, Settle(o, out)
    PROVE  Stages' = [Stages EXCEPT ![o] = "idle"]
<1>1. Stage(o)' = "idle"
  BY DEF Settle, Stage
<1>2. ASSUME NEW p \in Joined(o), p # o PROVE Stage(p) = "idle" /\ Stage(p)' = "idle"
  BY <1>2 DEF Joined, Settle, Stage
<1>3. ASSUME NEW p \in Op \ Joined(o), p # o PROVE Stage(p)' = Stage(p)
  BY <1>3 DEF Settle, Stage
<1>4. QED
  BY <1>1, <1>2, <1>3 DEF Stages

\* A call that rests is in no transfer.
LEMMA RestingIdle ==
    ASSUME IInv, NEW o \in Op, caller[o] \in Resting
    PROVE  body[o] = "idle" /\ Stages[o] = "idle"
BY DEF IInv, LockIInv, Placed, Stages, Stage

\* To wait for the lock is not to send.
LEMMA EnqueueStages ==
    ASSUME IInv, NEW o \in Op, caller[o] \in Resting, NEW c, Enqueue(o, c)
    PROVE  Stages' = Stages
BY RestingIdle, StageStays DEF IInv, Enqueue, Bodies, Running

\* What a call does with the file's transfers is what Transfer lets it do.
LEMMA CallStep ==
    ASSUME IInv, NEW o \in Op, Local(o) \/ Remote(o), ~ UNCHANGED Seen
    PROVE  Within!Next
<1>0. TypeOK
  BY DEF IInv
<1>1. CASE \E online \in BOOLEAN : Put(o, online)
  <2>1. caller[o] \in Resting /\ UNCHANGED <<object, partial>>
    BY <1>1 DEF Put, Resting
  <2>2. Enqueue(o, "waiting") \/ body' = body
    BY <1>1 DEF Put
  <2>3. QED
    BY <2>1, <2>2, EnqueueStages DEF Seen, Stages, Stage
<1>2. CASE Start(o)
  <2>1. body[o] = "queued" /\ Stages[o] = "idle" /\ UNCHANGED <<object, partial>>
    BY <1>2 DEF Start, Stages, Stage
  <2>2. (\E out \in Outcomes : Settle(o, out)) \/ Join(o) \/ Send(o)
    BY <1>2 DEF Start, Outcomes
  <2>3. ASSUME NEW out \in Outcomes, Settle(o, out) PROVE FALSE
    BY <2>1, <2>3, SettleStages DEF Seen, Stages
  <2>4. ~Join(o)
    BY <1>0, <2>1, StageStays DEF Join, Seen, Bodies, Running
  <2>5. Stages' = [Stages EXCEPT ![o] = "sending"]
    BY <1>0, <2>2, <2>3, <2>4, StageMoves DEF Send, Bodies
  <2>6. Within!Begin(o)
    BY <2>1, <2>5 DEF Within!Begin, Within!Passes, Stages
  <2>7. QED
    BY <2>6 DEF Within!Next
<1>3. CASE Commit(o)
  <2>1. Stages[o] = "stored" /\ UNCHANGED <<object, partial>>
    BY <1>3 DEF Commit, Stages, Stage
  <2>2. Stages' = [Stages EXCEPT ![o] = "idle"]
    BY <1>3, SettleStages DEF Commit
  <2>3. Within!Leave(o)
    BY <2>1, <2>2 DEF Within!Leave, Within!Passes, Stages
  <2>4. QED
    BY <2>3 DEF Within!Next
<1>4. CASE Rollback(o)
  <2>1. caller[o] \in Resting /\ Enqueue(o, "undoing") /\ UNCHANGED <<object, partial>>
    BY <1>4 DEF Rollback, Resting
  <2>2. QED
    BY <2>1, EnqueueStages DEF Seen
<1>5. CASE Mark(o) \/ Store(o) \/ Drop(o)
  BY <1>5 DEF Mark, Store, Drop, Seen, Stages, Stage
<1>6. CASE \E expired \in BOOLEAN : Check(o, expired)
  <2>1. body[o] = "check" /\ Stages[o] = "idle" /\ UNCHANGED object
    BY <1>6 DEF Check, Stages, Stage
  <2>2. CASE body' = [body EXCEPT ![o] = "send"] /\ UNCHANGED partial
    <3>1. Stages' = [Stages EXCEPT ![o] = "sending"]
      BY <1>0, <2>2, StageMoves DEF Bodies
    <3>2. Within!Begin(o)
      BY <2>1, <2>2, <3>1 DEF Within!Begin, Within!Passes, Stages
    <3>3. QED
      BY <3>2 DEF Within!Next
  <2>3. CASE Settle(o, "ok") /\ partial' = FALSE
    <3>1. Stages' = Stages
      BY <2>1, <2>3, SettleStages DEF Stages
    <3>2. Within!Forget
      BY <2>1, <2>3, <3>1 DEF Within!Forget, Stages
    <3>3. QED
      BY <3>2 DEF Within!Next
  <2>4. CASE body' = [body EXCEPT ![o] = "idle"] /\ partial' = (partial /\ guardClosed)
    <3>1. Stages' = Stages
      BY <1>0, <2>1, <2>4, StageStays DEF Bodies, Running
    <3>2. partial' = FALSE
      BY <1>0, <2>1, <2>4, <3>1 DEF Seen, TypeOK
    <3>3. Within!Forget
      BY <2>1, <3>1, <3>2 DEF Within!Forget, Stages
    <3>4. QED
      BY <3>3 DEF Within!Next
  <2>5. QED
    BY <1>6, <2>2, <2>3, <2>4 DEF Check
<1>7. CASE List(o)
  <2>1. caller[o] \in Resting /\ UNCHANGED <<object, partial>>
    BY <1>7 DEF List, Resting
  <2>2. Enqueue(o, "waiting") \/ body' = body
    BY <1>7 DEF List
  <2>3. QED
    BY <2>1, <2>2, EnqueueStages DEF Seen, Stages, Stage
<1>8. CASE Sent(o)
  <2>1. Stages[o] = "sending" /\ object' = TRUE /\ partial' = FALSE
    BY <1>8 DEF Sent, Stages, Stage
  <2>2. Stages' = [Stages EXCEPT ![o] = "stored"]
    BY <1>0, <1>8, StageMoves DEF Sent, Bodies
  <2>3. Within!Succeed(o)
    BY <2>1, <2>2 DEF Within!Succeed, Within!Passes, Stages
  <2>4. QED
    BY <2>3 DEF Within!Next
<1>9. CASE SendFails(o) \/ SendAborts(o)
  <2>1. Stages[o] = "sending" /\ object' \in {object, TRUE} /\ UNCHANGED partial
    BY <1>9 DEF SendFails, SendAborts, Stages, Stage
  <2>2. Stages' = [Stages EXCEPT ![o] = "idle"]
    BY <1>9, SettleStages DEF SendFails, SendAborts
  <2>3. Within!Fail(o)
    BY <2>1, <2>2 DEF Within!Fail, Within!Passes, Stages
  <2>4. QED
    BY <2>3 DEF Within!Next
<1>10. CASE Record(o)
  <2>1. Stages[o] = "sending" /\ Stages' = Stages /\ partial' = TRUE /\ UNCHANGED object
    BY <1>10 DEF Record, lockVars, Stages, Stage
  <2>2. Within!Note
    BY <2>1 DEF Within!Note, Stages
  <2>3. QED
    BY <2>2 DEF Within!Next
<1>11. CASE DeleteObject(o)
  <2>1. Stages' = Stages /\ UNCHANGED partial /\ object' \in {FALSE, object}
    BY <1>11 DEF DeleteObject, Stages, Stage
  <2>2. Within!Remove
    BY <2>1 DEF Within!Remove, Stages, Seen
  <2>3. QED
    BY <2>2 DEF Within!Next
<1>12. QED
  BY <1>1, <1>2, <1>3, <1>4, <1>5, <1>6, <1>7, <1>8, <1>9, <1>10, <1>11 DEF Local, Remote

\* Nor does anything else touch them, the death of the worker excepted.
LEMMA AsideStep ==
    ASSUME IInv, [Next]_vars, ~ UNCHANGED Seen, \A o \in Op : ~(Local(o) \/ Remote(o))
    PROVE  Within!Crash
<1>0. TypeOK
  BY DEF IInv
<1>1. ~(\E o \in Op : User(o))
  <2> SUFFICES ASSUME NEW o \in Op, User(o) PROVE FALSE
    OBVIOUS
  <2>1. CASE BeginUpload(o) \/ BeginDownload(o) \/ BeginDelete(o) \/ BeginEvict(o) \/ Cancel(o)
    BY <2>1 DEF BeginUpload, BeginDownload, BeginDelete, BeginEvict, Cancel, lockVars, Seen, Stages, Stage
  <2>2. CASE BeginBackground(o)
    BY <2>2, EnqueueStages DEF BeginBackground, Begin, Resting, Seen
  <2>3. CASE BeginBatch(o) \/ BeginResume(o)
    <3>1. caller[o] \in Resting /\ UNCHANGED <<object, partial>>
      BY <2>3 DEF BeginBatch, BeginResume, Begin, Resting
    <3>2. PICK b \in Bodies \ Running : body' = [body EXCEPT ![o] = b]
      BY <2>3 DEF BeginBatch, BeginResume, Bodies, Running
    <3>3. QED
      BY <1>0, <3>1, <3>2, RestingIdle, StageStays DEF Seen
  <2>4. QED
    BY <2>1, <2>2, <2>3 DEF User
<1>2. ~(\E o \in Op : LockTimeout(o)) /\ ~EvictLRU
  BY DEF LockTimeout, EvictLRU, lockVars, Seen, Stages, Stage
<1>3. ~(RecoverRead \/ RecoverWrite \/ CloseBegins \/ CloseEnds \/ Reopen)
  BY DEF RecoverRead, RecoverWrite, CloseBegins, CloseEnds, Reopen, lockVars, Seen, Stages, Stage
<1>4. ~ UNCHANGED vars
  BY DEF vars, lockVars, Seen, Stages, Stage
<1>5. Crash
  BY <1>1, <1>2, <1>3, <1>4 DEF Next, Lifecycle
<1>6. Stages' = [o \in Op |-> "idle"] /\ UNCHANGED partial
  BY <1>5 DEF Crash, Stages, Stage
<1>7. (\E o \in Op : body[o] = "send") <=> (\E o \in Op : Stages[o] = "sending")
  BY DEF Stages, Stage
<1>8. object' \in {object, object \/ \E o \in Op : Stages[o] = "sending"}
  BY <1>5, <1>7 DEF Crash
<1>9. QED
  BY <1>6, <1>8 DEF Within!Crash, Stages

(* The calls of the file cache know a transfer only as Transfer: locks     *)
(* that time out, uploads that are joined, aborts, close and crashes ask   *)
(* no more of MultipartUpload than it is proved to give.                   *)
THEOREM Refinement == Spec => ImplementsTransfer
<1>1. Init => Within!Init
  BY DEF Init, Within!Init, Stage
<1>2. IInv /\ [Next]_vars => [Within!Next]_(Within!vars)
  <2> SUFFICES ASSUME IInv, [Next]_vars, ~ UNCHANGED Seen PROVE Within!Next
    BY Unseen
  <2>1. ASSUME NEW o \in Op, Local(o) \/ Remote(o) PROVE Within!Next
    BY <2>1, CallStep
  <2>2. CASE \A o \in Op : ~(Local(o) \/ Remote(o))
    BY <2>2, AsideStep DEF Within!Next
  <2>3. QED
    BY <2>1, <2>2
<1>3. QED
  BY <1>1, <1>2, Invariance, PTL DEF Spec, ImplementsTransfer, Within!Spec

=============================================================================
