------------------------ MODULE OffsetManagerProofs ------------------------
(***************************************************************************)
(* Two-tier consistency of OffsetManager for every set of channels and     *)
(* positions and every number of overlapping calls.                        *)
(***************************************************************************)
EXTENDS OffsetManager, TLAPS

\* What Append and a pointwise update do to a sequence.
LEMMA AppendFacts ==
    ASSUME NEW S, NEW s \in Seq(S), NEW e \in S
    PROVE  /\ Append(s, e) \in Seq(S)
           /\ Len(Append(s, e)) = Len(s) + 1
           /\ \A i \in 1..Len(s) : Append(s, e)[i] = s[i]
           /\ Append(s, e)[Len(s) + 1] = e
    OBVIOUS

LEMMA ReplaceFacts ==
    ASSUME NEW S, NEW s \in Seq(S), NEW i \in 1..Len(s), NEW e \in S
    PROVE  /\ [s EXCEPT ![i] = e] \in Seq(S)
           /\ Len([s EXCEPT ![i] = e]) = Len(s)
           /\ \A j \in 1..Len(s) : [s EXCEPT ![i] = e][j] = IF j = i THEN e ELSE s[j]
    OBVIOUS

\* The request every method makes, as a fact about the new list of calls.
LEMMA RequestFacts ==
    ASSUME TypeOK, NEW kind \in Kinds, NEW ch \in Channel \cup {None}, NEW pos \in Entry,
           Request(kind, ch, pos)
    PROVE  /\ ops' \in Seq(Op)
           /\ Len(ops') = Len(ops) + 1
           /\ \A i \in 1..Len(ops) : ops'[i] = ops[i]
           /\ ops'[Len(ops) + 1].kind = kind /\ ops'[Len(ops) + 1].ch = ch
           /\ ops'[Len(ops) + 1].pos = pos /\ ops'[Len(ops) + 1].prev = cache
           /\ ops'[Len(ops) + 1].outcome = "pending"
           /\ db' = db /\ executed' = executed /\ finished' = finished
<1> DEFINE o == [kind |-> kind, ch |-> ch, pos |-> pos, prev |-> cache,
                 outcome |-> "pending", value |-> None]
<1>1. o \in Op
  BY DEF TypeOK, Op, Entry, Outcomes
<1>2. ops \in Seq(Op) /\ ops' = Append(ops, o)
  BY DEF TypeOK, Request
<1> HIDE DEF o
<1>3. /\ Append(ops, o) \in Seq(Op)
      /\ Len(Append(ops, o)) = Len(ops) + 1
      /\ \A i \in 1..Len(ops) : Append(ops, o)[i] = ops[i]
      /\ Append(ops, o)[Len(ops) + 1] = o
  BY <1>1, <1>2, AppendFacts
<1>4. QED
  BY <1>2, <1>3 DEF Request, o

\* IndexedDB's answers and a resumed call, as facts about the list of calls.
LEMMA ExecuteOkFacts ==
    ASSUME TypeOK, OpsWellFormed, ExecuteOk
    PROVE  /\ executed + 1 \in 1..Len(ops)
           /\ ops' \in Seq(Op)
           /\ Len(ops') = Len(ops)
           /\ \A j \in 1..Len(ops) : j # executed + 1 => ops'[j] = ops[j]
           /\ ops'[executed + 1] =
                 Answered(ops[executed + 1], "ok",
                          IF ops[executed + 1].kind = "get"
                          THEN db[ops[executed + 1].ch] ELSE None)
           /\ executed' = executed + 1 /\ finished' = finished /\ cache' = cache
<1> DEFINE n == executed + 1
           v == IF ops[n].kind = "get" THEN db[ops[n].ch] ELSE None
<1>1. n \in 1..Len(ops) /\ ops \in Seq(Op) /\ ops[n] \in Op
  BY DEF TypeOK, ExecuteOk
<1>2. v \in Entry
  BY <1>1 DEF TypeOK, Entry, OpsWellFormed
<1>3. ops' = [ops EXCEPT ![n] = Answered(ops[n], "ok", v)]
  BY <1>1 DEF ExecuteOk
<1> HIDE DEF v
<1>4. Answered(ops[n], "ok", v) \in Op
  BY <1>1, <1>2 DEF Op, Outcomes, Answered
<1>5. QED
  BY <1>1, <1>3, <1>4, ReplaceFacts DEF ExecuteOk, v

LEMMA ExecuteFailsFacts ==
    ASSUME TypeOK, ExecuteFails
    PROVE  /\ executed + 1 \in 1..Len(ops)
           /\ ops' \in Seq(Op)
           /\ Len(ops') = Len(ops)
           /\ \A j \in 1..Len(ops) : j # executed + 1 => ops'[j] = ops[j]
           /\ ops'[executed + 1] = Answered(ops[executed + 1], "failed", None)
           /\ executed' = executed + 1 /\ finished' = finished
           /\ cache' = cache /\ db' = db
<1> DEFINE n == executed + 1
<1>1. n \in 1..Len(ops) /\ ops \in Seq(Op) /\ ops[n] \in Op
  BY DEF TypeOK, ExecuteFails
<1>2. ops' = [ops EXCEPT ![n] = Answered(ops[n], "failed", None)]
  BY <1>1 DEF ExecuteFails
<1>3. Answered(ops[n], "failed", None) \in Op
  BY <1>1 DEF Op, Outcomes, Answered, Entry
<1>4. QED
  BY <1>1, <1>2, <1>3, ReplaceFacts DEF ExecuteFails

LEMMA ResumeFacts ==
    ASSUME TypeOK, Resume
    PROVE  /\ finished + 1 \in 1..executed
           /\ ops' \in Seq(Op)
           /\ Len(ops') = Len(ops)
           /\ \A j \in 1..Len(ops) : j # finished + 1 => ops'[j] = ops[j]
           /\ ops'[finished + 1] = Blank
           /\ executed' = executed /\ finished' = finished + 1
           /\ db' = db /\ tainted' = tainted
<1>1. finished + 1 \in 1..executed /\ finished + 1 \in 1..Len(ops) /\ ops \in Seq(Op)
  BY DEF TypeOK, Resume
<1>2. Blank \in Op
  BY DEF Blank, Op, Kinds, Entry, Outcomes
<1>3. QED
  BY <1>1, <1>2, ReplaceFacts DEF Resume

-----------------------------------------------------------------------------

\* Every variable keeps its type.
LEMMA TypeStep ==
    ASSUME TypeOK, OpsWellFormed, [Next]_vars
    PROVE  TypeOK'
<1> USE NoneAssumption DEF TypeOK, Entry
<1>1. ASSUME NEW ch \in Channel, GetPosition(ch) PROVE TypeOK'
  <2>1. Request("get", ch, None)
    BY <1>1 DEF GetPosition
  <2>3. ops' \in Seq(Op) /\ Len(ops') = Len(ops) + 1
        /\ db' = db /\ executed' = executed /\ finished' = finished
    BY <2>1, RequestFacts DEF Kinds
  <2> QED
    BY <1>1, <2>3 DEF GetPosition
<1>2. ASSUME NEW ch \in Channel, NEW pos \in Position, UpdatePosition(ch, pos) PROVE TypeOK'
  <2>1. Request("update", ch, pos)
    BY <1>2 DEF UpdatePosition
  <2>3. ops' \in Seq(Op) /\ Len(ops') = Len(ops) + 1
        /\ db' = db /\ executed' = executed /\ finished' = finished
    BY <2>1, RequestFacts DEF Kinds
  <2>2. tainted' \in [Channel -> BOOLEAN]
    BY <1>2, Zenon DEF UpdatePosition
  <2> QED
    BY <1>2, <2>2, <2>3 DEF UpdatePosition
<1>3. ASSUME NEW ch \in Channel, ClearPosition(ch) PROVE TypeOK'
  <2>1. Request("clear", ch, None)
    BY <1>3 DEF ClearPosition
  <2>3. ops' \in Seq(Op) /\ Len(ops') = Len(ops) + 1
        /\ db' = db /\ executed' = executed /\ finished' = finished
    BY <2>1, RequestFacts DEF Kinds
  <2>2. tainted' \in [Channel -> BOOLEAN]
    BY <1>3, Zenon DEF ClearPosition
  <2> QED
    BY <1>3, <2>2, <2>3 DEF ClearPosition
<1>4. CASE ClearAll
  <2>1. Request("clearAll", None, None)
    BY <1>4 DEF ClearAll
  <2>3. ops' \in Seq(Op) /\ Len(ops') = Len(ops) + 1
        /\ db' = db /\ executed' = executed /\ finished' = finished
    BY <2>1, RequestFacts DEF Kinds
  <2>2. tainted' \in [Channel -> BOOLEAN]
    BY <1>4, Zenon DEF ClearAll
  <2> QED
    BY <1>4, <2>2, <2>3 DEF ClearAll
<1>5. ASSUME NEW ch \in Channel, InvalidateCache(ch) PROVE TypeOK'
  BY <1>5 DEF InvalidateCache
<1>6. CASE ExecuteOk
  <2>1. ops[executed + 1] \in Op
    BY <1>6, ExecuteOkFacts
  <2>2. db' \in [Channel -> Entry]
    BY <1>6, <2>1 DEF ExecuteOk, Stored, Op
  <2> QED
    BY <1>6, <2>2, ExecuteOkFacts DEF ExecuteOk
<1>7. CASE ExecuteFails
  <2>1. tainted' \in [Channel -> BOOLEAN]
    BY <1>7, Zenon DEF ExecuteFails
  <2> QED
    BY <1>7, <2>1, ExecuteFailsFacts
<1>8. CASE Resume
  <2>1. ops[finished + 1] \in Op
    BY <1>8, ResumeFacts
  <2>2. Filled(ops[finished + 1]) \in [Channel -> Entry]
    BY <2>1 DEF Filled, Op
  <2>3. RolledBack(ops[finished + 1]) \in [Channel -> Entry]
    BY <2>1 DEF RolledBack, Op
  <2> QED
    BY <1>8, <2>2, <2>3, ResumeFacts DEF Resume
<1>9. CASE Restart
  BY <1>9 DEF Restart
<1>10. CASE UNCHANGED vars
  BY <1>10 DEF vars
<1>11. QED
  BY <1>1, <1>2, <1>3, <1>4, <1>5, <1>6, <1>7, <1>8, <1>9, <1>10 DEF Next
-----------------------------------------------------------------------------

\* The calls stay in the order blank, answered, pending.
LEMMA RequestOpsStep ==
    ASSUME TypeOK, OpsWellFormed,
           NEW kind \in Kinds, NEW ch \in Channel \cup {None}, NEW pos \in Entry,
           Request(kind, ch, pos), kind \in {"get", "update", "clear"} => ch \in Channel,
           kind \in {"clear", "clearAll"} => pos = None, kind # "blank"
    PROVE  OpsWellFormed'
<1>1. /\ Len(ops') = Len(ops) + 1 /\ executed' = executed /\ finished' = finished
      /\ \A i \in 1..Len(ops) : ops'[i] = ops[i]
      /\ ops'[Len(ops) + 1].kind = kind /\ ops'[Len(ops) + 1].ch = ch
      /\ ops'[Len(ops) + 1].pos = pos /\ ops'[Len(ops) + 1].outcome = "pending"
  BY RequestFacts
<1>2. Len(ops) \in Nat /\ executed \in 0..Len(ops) /\ finished \in 0..executed
  BY DEF TypeOK
<1>3. QED
  BY <1>1, <1>2 DEF OpsWellFormed, Unfinished

LEMMA OpsStep ==
    ASSUME TypeOK, OpsWellFormed, [Next]_vars
    PROVE  OpsWellFormed'
<1>2. ASSUME NEW ch \in Channel, NEW pos \in Position, UpdatePosition(ch, pos)
      PROVE  OpsWellFormed'
  BY <1>2, RequestOpsStep DEF UpdatePosition, Kinds, Entry
<1>3. ASSUME NEW ch \in Channel, GetPosition(ch) \/ ClearPosition(ch)
      PROVE  OpsWellFormed'
  BY <1>3, RequestOpsStep DEF GetPosition, ClearPosition, Kinds, Entry
<1>4. CASE ClearAll
  BY <1>4, RequestOpsStep DEF ClearAll, Kinds, Entry
<1>5. CASE ExecuteOk
  <2>1. /\ Len(ops') = Len(ops) /\ executed' = executed + 1 /\ finished' = finished
        /\ \A j \in 1..Len(ops) : j # executed + 1 => ops'[j] = ops[j]
        /\ ops'[executed + 1].kind = ops[executed + 1].kind
        /\ ops'[executed + 1].ch = ops[executed + 1].ch
        /\ ops'[executed + 1].pos = ops[executed + 1].pos
        /\ ops'[executed + 1].outcome = "ok"
    BY <1>5, ExecuteOkFacts DEF Answered
  <2>2. Len(ops) \in Nat /\ executed + 1 \in 1..Len(ops) /\ finished \in 0..executed
    BY <1>5, ExecuteOkFacts DEF TypeOK
  <2>3. executed \in Nat /\ finished \in Nat
    BY DEF TypeOK
  <2>5. \A i \in Unfinished' : ops'[i].kind # "blank"
    BY <2>1, <2>2, <2>3 DEF OpsWellFormed, Unfinished
  <2>6. QED
    BY <2>1, <2>2, <2>3, <2>5 DEF OpsWellFormed, Unfinished
<1>6. CASE ExecuteFails
  <2>1. /\ Len(ops') = Len(ops) /\ executed' = executed + 1 /\ finished' = finished
        /\ \A j \in 1..Len(ops) : j # executed + 1 => ops'[j] = ops[j]
        /\ ops'[executed + 1].kind = ops[executed + 1].kind
        /\ ops'[executed + 1].ch = ops[executed + 1].ch
        /\ ops'[executed + 1].pos = ops[executed + 1].pos
        /\ ops'[executed + 1].outcome = "failed"
    BY <1>6, ExecuteFailsFacts DEF Answered
  <2>2. Len(ops) \in Nat /\ executed + 1 \in 1..Len(ops) /\ finished \in 0..executed
    BY <1>6, ExecuteFailsFacts DEF TypeOK
  <2>3. executed \in Nat /\ finished \in Nat
    BY DEF TypeOK
  <2>4. \A j \in 1..Len(ops) : ops'[j] = ops[j] \/ j = executed + 1
    BY <2>1
  <2>5. \A i \in 1..finished' : ops'[i].kind = "blank"
    BY <2>1, <2>2, <2>3 DEF OpsWellFormed, Unfinished
  <2>6. \A i \in 1..Len(ops') :
            /\ ops'[i].kind \in {"get", "update", "clear"} => ops'[i].ch \in Channel
            /\ ops'[i].kind \in {"clear", "clearAll"} => ops'[i].pos = None
    BY <2>1, <2>4 DEF OpsWellFormed, Unfinished
  <2>7. /\ \A i \in (finished' + 1)..Len(ops') : ops'[i].kind # "blank"
        /\ \A i \in (finished' + 1)..executed' : ops'[i].outcome # "pending"
        /\ \A i \in (executed' + 1)..Len(ops') : ops'[i].outcome = "pending"
    BY <2>1, <2>2, <2>3 DEF OpsWellFormed, Unfinished
  <2>8. QED
    BY <2>5, <2>6, <2>7 DEF OpsWellFormed, Unfinished
<1>7. CASE Resume
  <2>1. /\ Len(ops') = Len(ops) /\ executed' = executed /\ finished' = finished + 1
        /\ \A j \in 1..Len(ops) : j # finished + 1 => ops'[j] = ops[j]
        /\ ops'[finished + 1].kind = "blank"
        /\ finished + 1 \in 1..executed
    BY <1>7, ResumeFacts DEF Blank
  <2>2. Len(ops) \in Nat /\ executed \in 0..Len(ops) /\ finished \in 0..executed
    BY DEF TypeOK
  <2>3. \A j \in 1..Len(ops) : ops'[j] = ops[j] \/ (j = finished + 1 /\ ops'[j] = Blank)
    BY <1>7, ResumeFacts
  <2>4. \A j \in (finished + 2)..Len(ops) : ops'[j] = ops[j]
    BY <1>7, <2>2, ResumeFacts
  <2>5. \A i \in 1..finished' : ops'[i].kind = "blank"
    BY <2>1, <2>2, <2>3 DEF OpsWellFormed, Unfinished, Blank
  <2>6. \A i \in 1..Len(ops') :
            /\ ops'[i].kind \in {"get", "update", "clear"} => ops'[i].ch \in Channel
            /\ ops'[i].kind \in {"clear", "clearAll"} => ops'[i].pos = None
    BY <2>1, <2>3 DEF OpsWellFormed, Unfinished, Blank
  <2>7. /\ \A i \in (finished' + 1)..Len(ops') : ops'[i].kind # "blank"
        /\ \A i \in (finished' + 1)..executed' : ops'[i].outcome # "pending"
        /\ \A i \in (executed' + 1)..Len(ops') : ops'[i].outcome = "pending"
    BY <2>1, <2>2, <2>4 DEF OpsWellFormed, Unfinished
  <2>8. QED
    BY <2>5, <2>6, <2>7 DEF OpsWellFormed, Unfinished
<1>8. CASE Restart
  BY <1>8 DEF Restart, OpsWellFormed, Unfinished
<1>9. CASE (\E ch \in Channel : InvalidateCache(ch)) \/ UNCHANGED vars
  BY <1>9 DEF InvalidateCache, vars, OpsWellFormed, Unfinished
<1>10. QED
  BY <1>2, <1>3, <1>4, <1>5, <1>6, <1>7, <1>8, <1>9 DEF Next

-----------------------------------------------------------------------------

\* The state predicates on one channel as predicates of plain values: the list of
\* calls s, x of them executed and f finished, the table's entry d and the cache's
\* entry k.  The step lemmas below relate values, so no operator is ever primed.
MutIn(o, c) == (o.kind \in {"update", "clear"} /\ o.ch = c) \/ o.kind = "clearAll"
ReadIn(o, c) == o.kind = "get" /\ o.ch = c
BadIn(o, c) == MutIn(o, c) /\ o.outcome = "failed"

SettlesIn(s, x, d, e, n, c) ==
    \/ \E i \in (x + 1)..(n - 1) :
          MutIn(s[i], c) /\ s[i].pos = e /\ \A j \in (i + 1)..(n - 1) : ~MutIn(s[j], c)
    \/ (\A i \in (x + 1)..(n - 1) : ~MutIn(s[i], c)) /\ d = e

EntryIn(s, x, f, d, k, c) ==
    (\A i \in (f + 1)..Len(s) : ~BadIn(s[i], c)) /\ k # None
        => SettlesIn(s, x, d, k, Len(s) + 1, c)
ReadsIn(s, f, d, c) ==
    \A i \in (f + 1)..Len(s) : ReadIn(s[i], c) =>
        /\ \A j \in (i + 1)..Len(s) : ~MutIn(s[j], c)
        /\ s[i].outcome = "ok" => s[i].value = d
FailedIn(s, f, d, c) ==
    \A i \in (f + 1)..Len(s) : BadIn(s[i], c) =>
        /\ \A j \in (i + 1)..Len(s) : ~MutIn(s[j], c)
        /\ s[i].prev[c] \in {None, d}
PendingIn(s, x, d, c) ==
    \A i \in (x + 1)..Len(s) : MutIn(s[i], c) /\ s[i].prev[c] # None
        => SettlesIn(s, x, d, s[i].prev[c], i, c)
LatestIn(s, f, k, c) ==
    \A i \in (f + 1)..Len(s) :
        MutIn(s[i], c) /\ (\A j \in (i + 1)..Len(s) : ~MutIn(s[j], c))
            => k \in {None, s[i].pos}
CleanIn(s, x, f, d, k, c) ==
    /\ EntryIn(s, x, f, d, k, c)
    /\ ReadsIn(s, f, d, c)
    /\ FailedIn(s, f, d, c)
    /\ PendingIn(s, x, d, c)
    /\ LatestIn(s, f, k, c)

LEMMA CleanNow ==
    ASSUME NEW c \in Channel
    PROVE  Consistent(c) <=> CleanIn(ops, executed, finished, db[c], cache[c], c)
<1> USE DEF Mutates, MutIn, Reads, ReadIn, Failed, BadIn, Unfinished
<1>1. \A e, n : SettlesTo(e, n, c) <=> SettlesIn(ops, executed, db[c], e, n, c)
  BY DEF SettlesTo, SettlesIn, LastPending
<1>2. EntrySettles(c) <=> EntryIn(ops, executed, finished, db[c], cache[c], c)
  BY <1>1 DEF EntrySettles, NoFailure, EntryIn
<1>3. ReadsCurrent(c) <=> ReadsIn(ops, finished, db[c], c)
  BY DEF ReadsCurrent, YoungerMutation, ReadsIn
<1>4. FailedRestores(c) <=> FailedIn(ops, finished, db[c], c)
  BY DEF FailedRestores, YoungerMutation, FailedIn
<1>5. PendingRestores(c) <=> PendingIn(ops, executed, db[c], c)
  BY <1>1 DEF PendingRestores, PendingIn
<1>6. LatestCached(c) <=> LatestIn(ops, finished, cache[c], c)
  BY DEF LatestCached, YoungerMutation, LatestIn
<1>7. QED
  BY <1>2, <1>3, <1>4, <1>5, <1>6 DEF Consistent, CleanIn

LEMMA CleanNext ==
    ASSUME NEW c \in Channel
    PROVE  Consistent(c)' <=> CleanIn(ops', executed', finished', db'[c], cache'[c], c)
<1> USE DEF Mutates, MutIn, Reads, ReadIn, Failed, BadIn, Unfinished
<1>1. \A e, n : SettlesTo(e, n, c)' <=> SettlesIn(ops', executed', db'[c], e, n, c)
  BY DEF SettlesTo, SettlesIn, LastPending
<1>2. EntrySettles(c)' <=> EntryIn(ops', executed', finished', db'[c], cache'[c], c)
  BY <1>1 DEF EntrySettles, NoFailure, EntryIn, SettlesTo, SettlesIn, LastPending
<1>3. ReadsCurrent(c)' <=> ReadsIn(ops', finished', db'[c], c)
  BY DEF ReadsCurrent, YoungerMutation, ReadsIn
<1>4. FailedRestores(c)' <=> FailedIn(ops', finished', db'[c], c)
  BY DEF FailedRestores, YoungerMutation, FailedIn
<1>5. PendingRestores(c)' <=> PendingIn(ops', executed', db'[c], c)
  BY DEF PendingRestores, PendingIn, SettlesTo, SettlesIn, LastPending
<1>6. LatestCached(c)' <=> LatestIn(ops', finished', cache'[c], c)
  BY DEF LatestCached, YoungerMutation, LatestIn
<1>7. QED
  BY <1>2, <1>3, <1>4, <1>5, <1>6 DEF Consistent, CleanIn

\* What a channel settles to before call n depends on the calls before n alone, and
\* only on what they write.
LEMMA SettlesFrame ==
    ASSUME NEW c, NEW s, NEW t, NEW x \in Nat, NEW d, NEW e, NEW n \in Nat,
           \A i \in (x + 1)..(n - 1) :
               (MutIn(t[i], c) <=> MutIn(s[i], c)) /\ t[i].pos = s[i].pos
    PROVE  SettlesIn(t, x, d, e, n, c) <=> SettlesIn(s, x, d, e, n, c)
<1>1. \A i \in (x + 1)..(n - 1) : \A j \in (i + 1)..(n - 1) : j \in (x + 1)..(n - 1)
  OBVIOUS
<1> HIDE DEF MutIn
<1>2. QED
  BY <1>1 DEF SettlesIn

\* A mutation begun with no overlap leaves the channel consistent: its rollback
\* restores what the table will hold when its turn comes.
LEMMA MutationBegins ==
    ASSUME NEW c, NEW s, NEW t, NEW x \in Nat, NEW f \in 0..x, NEW d, NEW k, NEW l,
           Len(s) \in Nat, x \in 0..Len(s), Len(t) = Len(s) + 1,
           \A i \in 1..Len(s) : t[i] = s[i],
           MutIn(t[Len(t)], c), t[Len(t)].outcome = "pending",
           t[Len(t)].prev[c] = k, t[Len(t)].pos = l,
           \A i \in (f + 1)..Len(s) : ~ReadIn(s[i], c) /\ ~BadIn(s[i], c),
           CleanIn(s, x, f, d, k, c)
    PROVE  CleanIn(t, x, f, d, l, c)
<1> DEFINE n == Len(s) + 1
<1>1. ~ReadIn(t[n], c) /\ ~BadIn(t[n], c)
  BY DEF ReadIn, BadIn, MutIn
<1>2. \A i \in (f + 1)..Len(t) : ~ReadIn(t[i], c) /\ ~BadIn(t[i], c)
  <2>1. \A i \in (f + 1)..Len(t) : i = n \/ (i \in (f + 1)..Len(s) /\ i \in 1..Len(s))
    OBVIOUS
  <2>2. QED
    BY <1>1, <2>1
<1>3. SettlesIn(t, x, d, l, n + 1, c)
  BY DEF SettlesIn
<1>4. LatestIn(t, f, l, c)
  <2>1. \A i \in (f + 1)..Len(t) : i = n \/ n \in (i + 1)..Len(t)
    OBVIOUS
  <2>2. QED
    BY <2>1 DEF LatestIn
<1>5. ASSUME NEW i \in (x + 1)..n, NEW e
      PROVE  SettlesIn(t, x, d, e, i, c) <=> SettlesIn(s, x, d, e, i, c)
  BY SettlesFrame
<1>6. PendingIn(t, x, d, c)
  <2>1. ASSUME NEW i \in (x + 1)..n, MutIn(t[i], c), t[i].prev[c] # None
        PROVE  SettlesIn(t, x, d, t[i].prev[c], i, c)
    <3>1. CASE i = n
      <4>1. SettlesIn(s, x, d, k, n, c)
        BY <2>1, <3>1 DEF CleanIn, EntryIn
      <4>2. QED
        BY <1>5, <3>1, <4>1
    <3>2. CASE i # n
      <4>1. i \in (x + 1)..Len(s) /\ t[i] = s[i]
        BY <3>2
      <4>2. SettlesIn(s, x, d, s[i].prev[c], i, c)
        BY <2>1, <4>1 DEF CleanIn, PendingIn
      <4>3. QED
        BY <1>5, <4>1, <4>2
    <3>3. QED
      BY <3>1, <3>2
  <2>2. QED
    BY <2>1 DEF PendingIn
<1>7. QED
  BY <1>2, <1>3, <1>4, <1>6 DEF CleanIn, EntryIn, ReadsIn, FailedIn

\* A read, or a mutation of another channel, says nothing of this one.
LEMMA OtherBegins ==
    ASSUME NEW c, NEW s, NEW t, NEW x \in Nat, NEW f \in 0..x, NEW d, NEW k,
           Len(s) \in Nat, x \in 0..Len(s), Len(t) = Len(s) + 1,
           \A i \in 1..Len(s) : t[i] = s[i],
           ~MutIn(t[Len(t)], c), t[Len(t)].outcome = "pending",
           CleanIn(s, x, f, d, k, c)
    PROVE  CleanIn(t, x, f, d, k, c)
<1> DEFINE n == Len(s) + 1
<1>1. \A i \in (f + 1)..n : i = n \/ (i \in (f + 1)..Len(s) /\ t[i] = s[i])
  OBVIOUS
<1>2. ASSUME NEW i \in (x + 1)..n, NEW e
      PROVE  SettlesIn(t, x, d, e, i, c) <=> SettlesIn(s, x, d, e, i, c)
  BY SettlesFrame
<1>3. \A e : SettlesIn(t, x, d, e, n + 1, c) <=> SettlesIn(s, x, d, e, n, c)
  <2>1. \A e : SettlesIn(t, x, d, e, n + 1, c) <=> SettlesIn(t, x, d, e, n, c)
    BY DEF SettlesIn
  <2>2. QED
    BY <1>2, <2>1
<1>4. ~BadIn(t[n], c)
  BY DEF BadIn
<1>5. \A i \in (f + 1)..Len(s) : \A j \in (i + 1)..n :
          j = n \/ (j \in (i + 1)..Len(s) /\ t[j] = s[j])
  OBVIOUS
<1>6. \A i \in (f + 1)..Len(s) : \A j \in (i + 1)..Len(s) :
          j \in (i + 1)..n /\ t[j] = s[j]
  OBVIOUS
<1>7. EntryIn(t, x, f, d, k, c)
  <2>1. \A i \in (f + 1)..Len(s) : i \in (f + 1)..n /\ t[i] = s[i]
    OBVIOUS
  <2>2. QED
    BY <1>3, <2>1 DEF CleanIn, EntryIn
<1>8. ReadsIn(t, f, d, c)
  BY <1>1, <1>5 DEF CleanIn, ReadsIn
<1>9. FailedIn(t, f, d, c)
  BY <1>1, <1>4, <1>5 DEF CleanIn, FailedIn
<1>10. PendingIn(t, x, d, c)
  <2>1. \A i \in (x + 1)..n : i = n \/ (i \in (x + 1)..Len(s) /\ t[i] = s[i])
    OBVIOUS
  <2>2. QED
    BY <1>2, <2>1 DEF CleanIn, PendingIn
<1>11. LatestIn(t, f, k, c)
  BY <1>1, <1>6 DEF CleanIn, LatestIn
<1>12. QED
  BY <1>7, <1>8, <1>9, <1>10, <1>11 DEF CleanIn

\* Executing request x + 1 changes nothing of what a channel settles to.
LEMMA SettlesExecuted ==
    ASSUME NEW c, NEW s, NEW t, NEW x \in Nat, NEW d, NEW b, NEW e, NEW n \in Nat,
           x + 1 <= n - 1,
           \A i \in (x + 1)..(n - 1) :
               (MutIn(t[i], c) <=> MutIn(s[i], c)) /\ t[i].pos = s[i].pos,
           b = IF MutIn(s[x + 1], c) THEN s[x + 1].pos ELSE d
    PROVE  SettlesIn(t, x + 1, b, e, n, c) <=> SettlesIn(s, x, d, e, n, c)
<1>1. SettlesIn(t, x, d, e, n, c) <=> SettlesIn(s, x, d, e, n, c)
  BY SettlesFrame
<1>2. \A i : i \in (x + 1)..(n - 1) <=> i = x + 1 \/ i \in (x + 2)..(n - 1)
  OBVIOUS
<1>3. \A i \in (x + 2)..(n - 1) : x + 1 + 1 <= i
  OBVIOUS
<1>4. MutIn(t[x + 1], c) <=> MutIn(s[x + 1], c)
  BY <1>2
<1>5. t[x + 1].pos = s[x + 1].pos
  BY <1>2
<1>6. x + 1 + 1 = x + 2
  OBVIOUS
<1> HIDE DEF MutIn
<1>7. SettlesIn(t, x + 1, b, e, n, c) <=> SettlesIn(t, x, d, e, n, c)
  <2>1. CASE \E i \in (x + 2)..(n - 1) : MutIn(t[i], c)
    BY <1>2, <1>6, <2>1 DEF SettlesIn
  <2>2. CASE \A i \in (x + 2)..(n - 1) : ~MutIn(t[i], c)
    BY <1>2, <1>4, <1>5, <1>6, <2>2 DEF SettlesIn
  <2>3. QED
    BY <2>1, <2>2
<1>8. QED
  BY <1>1, <1>7

\* IndexedDB executes the oldest request, and the channel stays consistent.
LEMMA ExecutedClean ==
    ASSUME NEW c, NEW s, NEW t, NEW x \in Nat, NEW f \in 0..x, NEW d, NEW b, NEW k,
           Len(s) \in Nat, x + 1 \in 1..Len(s), Len(t) = Len(s),
           \A i \in 1..Len(s) : i # x + 1 => t[i] = s[i],
           t[x + 1].kind = s[x + 1].kind, t[x + 1].ch = s[x + 1].ch,
           t[x + 1].pos = s[x + 1].pos, t[x + 1].outcome = "ok",
           b = IF MutIn(s[x + 1], c) THEN s[x + 1].pos ELSE d,
           ReadIn(s[x + 1], c) => t[x + 1].value = d,
           \A i \in (x + 1)..Len(s) : s[i].outcome = "pending",
           CleanIn(s, x, f, d, k, c)
    PROVE  CleanIn(t, x + 1, f, b, k, c)
<1>1. \A i \in 1..Len(s) :
          /\ MutIn(t[i], c) <=> MutIn(s[i], c)
          /\ ReadIn(t[i], c) <=> ReadIn(s[i], c)
          /\ t[i].pos = s[i].pos
  BY DEF MutIn, ReadIn
<1>2. ~BadIn(t[x + 1], c) /\ ~BadIn(s[x + 1], c)
  BY DEF BadIn
<1>3. \A i \in 1..Len(s) : BadIn(t[i], c) <=> BadIn(s[i], c)
  BY <1>2
<1>4. \A i \in (f + 1)..Len(s) : i \in 1..Len(s)
  OBVIOUS
<1>5. \A i \in (f + 1)..Len(s) : \A j \in (i + 1)..Len(s) : j \in 1..Len(s)
  OBVIOUS
<1>6. ASSUME NEW n \in (x + 2)..(Len(s) + 1), NEW e
      PROVE  SettlesIn(t, x + 1, b, e, n, c) <=> SettlesIn(s, x, d, e, n, c)
  <2>1. n \in Nat /\ x + 1 <= n - 1
    OBVIOUS
  <2>2. \A i \in (x + 1)..(n - 1) : i \in 1..Len(s)
    OBVIOUS
  <2>3. \A i \in (x + 1)..(n - 1) :
            (MutIn(t[i], c) <=> MutIn(s[i], c)) /\ t[i].pos = s[i].pos
    BY <1>1, <2>2
  <2>4. b = IF MutIn(s[x + 1], c) THEN s[x + 1].pos ELSE d
    OBVIOUS
  <2>5. QED
    BY <2>1, <2>3, <2>4, SettlesExecuted
<1>7. EntryIn(t, x + 1, f, b, k, c)
  <2>1. ASSUME \A i \in (f + 1)..Len(t) : ~BadIn(t[i], c), k # None
        PROVE  SettlesIn(t, x + 1, b, k, Len(s) + 1, c)
    <3>1. \A i \in (f + 1)..Len(s) : ~BadIn(s[i], c)
      BY <1>3, <1>4, <2>1
    <3>2. SettlesIn(s, x, d, k, Len(s) + 1, c)
      BY <2>1, <3>1 DEF CleanIn, EntryIn
    <3>3. QED
      BY <1>6, <3>2
  <2>2. QED
    BY <2>1 DEF EntryIn
<1>8. ReadsIn(t, f, b, c)
  <2>1. ASSUME NEW i \in (f + 1)..Len(s), ReadIn(t[i], c)
        PROVE  /\ \A j \in (i + 1)..Len(s) : ~MutIn(t[j], c)
               /\ t[i].outcome = "ok" => t[i].value = b
    <3>1. ReadIn(s[i], c)
      BY <1>1, <1>4, <2>1
    <3>2. \A j \in (i + 1)..Len(s) : ~MutIn(s[j], c)
      BY <3>1 DEF CleanIn, ReadsIn
    <3>3. CASE i = x + 1
      BY <1>1, <1>5, <3>1, <3>2, <3>3 DEF MutIn, ReadIn
    <3>4. CASE i > x + 1
      <4>1. t[i].outcome = "pending"
        BY <3>4
      <4>2. QED
        BY <1>1, <1>5, <3>2, <4>1
    <3>5. CASE i < x + 1
      <4>1. ~MutIn(s[x + 1], c)
        BY <3>2, <3>5
      <4>2. s[i].outcome = "ok" => s[i].value = d
        BY <3>1 DEF CleanIn, ReadsIn
      <4>3. t[i] = s[i]
        BY <3>5
      <4>4. QED
        BY <1>1, <1>5, <3>2, <4>1, <4>2, <4>3
    <3>6. QED
      BY <3>3, <3>4, <3>5
  <2>2. QED
    BY <2>1 DEF ReadsIn
<1>9. FailedIn(t, f, b, c)
  <2>1. ASSUME NEW i \in (f + 1)..Len(s), BadIn(t[i], c)
        PROVE  /\ \A j \in (i + 1)..Len(s) : ~MutIn(t[j], c)
               /\ t[i].prev[c] \in {None, b}
    <3>1. BadIn(s[i], c) /\ i # x + 1
      BY <1>2, <1>3, <1>4, <2>1
    <3>2. (\A j \in (i + 1)..Len(s) : ~MutIn(s[j], c)) /\ s[i].prev[c] \in {None, d}
      BY <3>1 DEF CleanIn, FailedIn
    <3>3. i < x + 1
      BY <3>1 DEF BadIn
    <3>4. ~MutIn(s[x + 1], c) /\ t[i] = s[i]
      BY <3>2, <3>3
    <3>5. QED
      BY <1>1, <1>5, <3>2, <3>4
  <2>2. QED
    BY <2>1 DEF FailedIn
<1>10. PendingIn(t, x + 1, b, c)
  <2>1. \A i \in (x + 2)..Len(s) : i \in (x + 1)..Len(s) /\ t[i] = s[i]
    OBVIOUS
  <2>2. QED
    BY <1>6, <2>1 DEF CleanIn, PendingIn
<1>11. LatestIn(t, f, k, c)
  <2>1. ASSUME NEW i \in (f + 1)..Len(s), MutIn(t[i], c),
               \A j \in (i + 1)..Len(s) : ~MutIn(t[j], c)
        PROVE  k \in {None, t[i].pos}
    <3>1. MutIn(s[i], c) /\ t[i].pos = s[i].pos
      BY <1>1, <1>4, <2>1
    <3>2. \A j \in (i + 1)..Len(s) : ~MutIn(s[j], c)
      BY <1>1, <1>5, <2>1
    <3>3. QED
      BY <3>1, <3>2 DEF CleanIn, LatestIn
  <2>2. QED
    BY <2>1 DEF LatestIn
<1>12. QED
  BY <1>7, <1>8, <1>9, <1>10, <1>11 DEF CleanIn

\* A request fails: one that writes this channel is its latest mutation, and its
\* rollback restores what the table holds.
LEMMA FailedClean ==
    ASSUME NEW c, NEW s, NEW t, NEW x \in Nat, NEW f \in 0..x, NEW d, NEW k,
           Len(s) \in Nat, x + 1 \in 1..Len(s), Len(t) = Len(s),
           \A i \in 1..Len(s) : i # x + 1 => t[i] = s[i],
           t[x + 1].kind = s[x + 1].kind, t[x + 1].ch = s[x + 1].ch,
           t[x + 1].pos = s[x + 1].pos, t[x + 1].prev = s[x + 1].prev,
           t[x + 1].outcome = "failed",
           MutIn(s[x + 1], c) => \A j \in (x + 2)..Len(s) : ~MutIn(s[j], c),
           \A i \in (x + 1)..Len(s) : s[i].outcome = "pending",
           CleanIn(s, x, f, d, k, c)
    PROVE  CleanIn(t, x + 1, f, d, k, c)
<1>1. \A i \in 1..Len(s) :
          /\ MutIn(t[i], c) <=> MutIn(s[i], c)
          /\ ReadIn(t[i], c) <=> ReadIn(s[i], c)
          /\ t[i].pos = s[i].pos /\ t[i].prev = s[i].prev
  BY DEF MutIn, ReadIn
<1>2. ~BadIn(s[x + 1], c) /\ (BadIn(t[x + 1], c) <=> MutIn(s[x + 1], c))
  BY <1>1 DEF BadIn
<1>3. \A i \in 1..Len(s) : i # x + 1 => (BadIn(t[i], c) <=> BadIn(s[i], c))
  OBVIOUS
<1>4. \A i \in (f + 1)..Len(s) : i \in 1..Len(s)
  OBVIOUS
<1>5. \A i \in (f + 1)..Len(s) : \A j \in (i + 1)..Len(s) : j \in 1..Len(s)
  OBVIOUS
<1>6. ASSUME ~MutIn(s[x + 1], c), NEW n \in (x + 2)..(Len(s) + 1), NEW e
      PROVE  SettlesIn(t, x + 1, d, e, n, c) <=> SettlesIn(s, x, d, e, n, c)
  BY <1>1, <1>6, SettlesExecuted
<1>7. EntryIn(t, x + 1, f, d, k, c)
  <2>1. CASE MutIn(s[x + 1], c)
    BY <1>2, <2>1 DEF EntryIn
  <2>2. CASE ~MutIn(s[x + 1], c)
    <3>1. \A i \in (f + 1)..Len(s) : BadIn(t[i], c) <=> BadIn(s[i], c)
      BY <1>2, <1>3, <1>4, <2>2
    <3>2. QED
      BY <1>6, <2>2, <3>1 DEF CleanIn, EntryIn
  <2>3. QED
    BY <2>1, <2>2
<1>8. ReadsIn(t, f, d, c)
  <2>1. ASSUME NEW i \in (f + 1)..Len(s), ReadIn(t[i], c)
        PROVE  /\ \A j \in (i + 1)..Len(s) : ~MutIn(t[j], c)
               /\ t[i].outcome = "ok" => t[i].value = d
    <3>1. ReadIn(s[i], c)
      BY <1>1, <1>4, <2>1
    <3>2. /\ \A j \in (i + 1)..Len(s) : ~MutIn(s[j], c)
          /\ s[i].outcome = "ok" => s[i].value = d
      BY <3>1 DEF CleanIn, ReadsIn
    <3>3. t[i].outcome = "ok" => t[i] = s[i]
      BY <1>4
    <3>4. QED
      BY <1>1, <1>5, <3>2, <3>3
  <2>2. QED
    BY <2>1 DEF ReadsIn
<1>9. FailedIn(t, f, d, c)
  <2>1. ASSUME NEW i \in (f + 1)..Len(s), BadIn(t[i], c)
        PROVE  /\ \A j \in (i + 1)..Len(s) : ~MutIn(t[j], c)
               /\ t[i].prev[c] \in {None, d}
    <3>1. CASE i = x + 1
      <4>1. MutIn(s[x + 1], c)
        BY <1>2, <2>1, <3>1
      <4>2. s[i].prev[c] # None => SettlesIn(s, x, d, s[i].prev[c], x + 1, c)
        BY <3>1, <4>1 DEF CleanIn, PendingIn
      <4>3. s[i].prev[c] \in {None, d}
        BY <4>2 DEF SettlesIn
      <4>4. t[i].prev = s[i].prev
        BY <3>1
      <4>5. \A j \in (i + 1)..Len(s) : j \in (x + 2)..Len(s)
        BY <3>1
      <4>6. \A j \in (i + 1)..Len(s) : ~MutIn(t[j], c)
        BY <1>1, <1>5, <4>1, <4>5
      <4>7. QED
        BY <4>3, <4>4, <4>6
    <3>2. CASE i # x + 1
      <4>1. BadIn(s[i], c) /\ t[i] = s[i]
        BY <1>3, <1>4, <2>1, <3>2
      <4>2. (\A j \in (i + 1)..Len(s) : ~MutIn(s[j], c)) /\ s[i].prev[c] \in {None, d}
        BY <4>1 DEF CleanIn, FailedIn
      <4>3. QED
        BY <1>1, <1>5, <4>1, <4>2
    <3>3. QED
      BY <3>1, <3>2
  <2>2. QED
    BY <2>1 DEF FailedIn
<1>10. PendingIn(t, x + 1, d, c)
  <2>1. \A i \in (x + 2)..Len(s) : i \in (x + 1)..Len(s) /\ t[i] = s[i]
    OBVIOUS
  <2>2. CASE MutIn(s[x + 1], c)
    BY <2>1, <2>2 DEF PendingIn
  <2>3. CASE ~MutIn(s[x + 1], c)
    BY <1>6, <2>1, <2>3 DEF CleanIn, PendingIn
  <2>4. QED
    BY <2>2, <2>3
<1>11. LatestIn(t, f, k, c)
  <2>1. ASSUME NEW i \in (f + 1)..Len(s), MutIn(t[i], c),
               \A j \in (i + 1)..Len(s) : ~MutIn(t[j], c)
        PROVE  k \in {None, t[i].pos}
    <3>1. MutIn(s[i], c) /\ t[i].pos = s[i].pos
      BY <1>1, <1>4, <2>1
    <3>2. \A j \in (i + 1)..Len(s) : ~MutIn(s[j], c)
      BY <1>1, <1>5, <2>1
    <3>3. QED
      BY <3>1, <3>2 DEF CleanIn, LatestIn
  <2>2. QED
    BY <2>1 DEF LatestIn
<1>12. QED
  BY <1>7, <1>8, <1>9, <1>10, <1>11 DEF CleanIn

\* The oldest call resumes: a read brings what the table holds, a failed mutation
\* restores it, anything else leaves the entry alone.
LEMMA ResumedClean ==
    ASSUME NEW c, NEW s, NEW t, NEW x \in Nat, NEW f \in Nat, NEW d, NEW k, NEW l,
           Len(s) \in Nat, x \in 0..Len(s), f + 1 \in 1..x, Len(t) = Len(s),
           \A i \in 1..Len(s) : i # f + 1 => t[i] = s[i],
           CleanIn(s, x, f, d, k, c),
           \/ ReadIn(s[f + 1], c) /\ l = IF s[f + 1].outcome = "ok" /\ s[f + 1].value # None
                                         THEN s[f + 1].value ELSE k
           \/ BadIn(s[f + 1], c) /\ l = s[f + 1].prev[c]
           \/ BadIn(s[f + 1], c) /\ s[f + 1].prev[c] = None /\ s[f + 1].pos = None /\ l = k
           \/ ~BadIn(s[f + 1], c) /\ l = k
    PROVE  CleanIn(t, x, f + 1, d, l, c)
<1> HIDE DEF MutIn, ReadIn, BadIn
<1>1. /\ \A i \in (f + 2)..Len(s) : i \in (f + 1)..Len(s) /\ t[i] = s[i]
      /\ \A i \in (f + 1)..Len(s) : \A j \in (i + 1)..Len(s) : t[j] = s[j]
      /\ \A i \in (x + 1)..Len(s) : i \in (f + 2)..Len(s)
      /\ f + 1 + 1 = f + 2 /\ f + 1 \in (f + 1)..Len(s)
  OBVIOUS
<1>2. ASSUME NEW n \in (x + 1)..(Len(s) + 1), NEW e
      PROVE  SettlesIn(t, x, d, e, n, c) <=> SettlesIn(s, x, d, e, n, c)
  <2>1. \A i \in (x + 1)..(n - 1) : t[i] = s[i]
    BY <1>1
  <2>2. QED
    BY <2>1, SettlesFrame
<1>3. ReadsIn(t, f + 1, d, c) /\ FailedIn(t, f + 1, d, c)
  BY <1>1 DEF CleanIn, ReadsIn, FailedIn
<1>4. PendingIn(t, x, d, c)
  BY <1>1, <1>2 DEF CleanIn, PendingIn
<1>5. ASSUME \A j \in (f + 2)..Len(s) : ~MutIn(s[j], c)
      PROVE  SettlesIn(s, x, d, d, Len(s) + 1, c)
  <2>1. \A i \in (x + 1)..(Len(s) + 1 - 1) : ~MutIn(s[i], c)
    BY <1>1, <1>5
  <2>2. QED
    BY <2>1 DEF SettlesIn
<1>6. ASSUME ReadIn(s[f + 1], c) \/ BadIn(s[f + 1], c)
      PROVE  \A j \in (f + 2)..Len(s) : ~MutIn(s[j], c)
  BY <1>1, <1>6 DEF CleanIn, ReadsIn, FailedIn
<1>7. EntryIn(t, x, f + 1, d, l, c)
  <2>1. ASSUME \A i \in (f + 2)..Len(s) : ~BadIn(t[i], c), l # None
        PROVE  SettlesIn(s, x, d, l, Len(s) + 1, c)
    <3>1. CASE l = k /\ ~BadIn(s[f + 1], c)
      <4>1. \A i \in (f + 1)..Len(s) : i = f + 1 \/ i \in (f + 2)..Len(s)
        OBVIOUS
      <4>2. \A i \in (f + 1)..Len(s) : ~BadIn(s[i], c)
        BY <1>1, <2>1, <3>1, <4>1
      <4>3. QED
        BY <2>1, <3>1, <4>2 DEF CleanIn, EntryIn
    <3>2. CASE ReadIn(s[f + 1], c) /\ l = s[f + 1].value /\ s[f + 1].outcome = "ok"
      <4>1. l = d
        BY <1>1, <3>2 DEF CleanIn, ReadsIn
      <4>2. QED
        BY <1>5, <1>6, <3>2, <4>1
    <3>3. CASE BadIn(s[f + 1], c) /\ l = s[f + 1].prev[c]
      <4>1. l = d
        BY <1>1, <2>1, <3>3 DEF CleanIn, FailedIn
      <4>2. QED
        BY <1>5, <1>6, <3>3, <4>1
    <3>4. CASE BadIn(s[f + 1], c) /\ s[f + 1].pos = None /\ l = k
      <4>1. MutIn(s[f + 1], c)
        BY <3>4 DEF BadIn
      <4>2. l \in {None, s[f + 1].pos}
        BY <1>1, <1>6, <3>4, <4>1 DEF CleanIn, LatestIn
      <4>3. QED
        BY <2>1, <3>4, <4>2
    <3>5. ReadIn(s[f + 1], c) => ~BadIn(s[f + 1], c)
      BY DEF ReadIn, BadIn, MutIn
    <3>6. QED
      BY <3>1, <3>2, <3>3, <3>4, <3>5
  <2>2. QED
    BY <1>1, <1>2, <2>1 DEF EntryIn
<1>8. LatestIn(t, f + 1, l, c)
  <2>1. ASSUME NEW i \in (f + 2)..Len(s), MutIn(t[i], c),
               \A j \in (i + 1)..Len(s) : ~MutIn(t[j], c)
        PROVE  l \in {None, t[i].pos}
    <3>1. MutIn(s[i], c) /\ t[i] = s[i] /\ i \in (f + 1)..Len(s)
      BY <1>1, <2>1
    <3>2. \A j \in (i + 1)..Len(s) : ~MutIn(s[j], c)
      BY <1>1, <2>1, <3>1
    <3>3. k \in {None, s[i].pos}
      BY <3>1, <3>2 DEF CleanIn, LatestIn
    <3>4. ~ReadIn(s[f + 1], c) /\ ~BadIn(s[f + 1], c)
      BY <1>6, <3>1
    <3>5. QED
      BY <3>1, <3>3, <3>4
  <2>2. QED
    BY <1>1, <2>1 DEF LatestIn
<1>9. QED
  BY <1>3, <1>4, <1>7, <1>8 DEF CleanIn

-----------------------------------------------------------------------------

\* Each channel stays consistent, as long as it stays untainted.
LEMMA ConsistentStep ==
    ASSUME IInv, [Next]_vars, NEW c \in Channel, ~tainted'[c]
    PROVE  Consistent(c)'
<1> USE NoneAssumption
<1> DEFINE G == CleanIn(ops, executed, finished, db[c], cache[c], c)
           H == CleanIn(ops', executed', finished', db'[c], cache'[c], c)
<1> SUFFICES H
  BY CleanNext
<1>1. /\ TypeOK /\ OpsWellFormed
      /\ Len(ops) \in Nat /\ executed \in 0..Len(ops) /\ finished \in 0..executed
      /\ executed \in Nat /\ finished \in Nat
      /\ tainted \in [Channel -> BOOLEAN] /\ cache \in [Channel -> Entry]
      /\ db \in [Channel -> Entry]
  BY DEF IInv, TypeOK
<1>2. ~tainted[c] => G
  BY CleanNow DEF IInv
<1>3. ~Overlaps(c) => \A i \in (finished + 1)..Len(ops) : ~ReadIn(ops[i], c) /\ ~BadIn(ops[i], c)
  BY DEF Overlaps, Unfinished, Reads, Failed, Mutates, ReadIn, BadIn, MutIn
<1> HIDE DEF G, H
<1>4. ASSUME NEW kind \in {"update", "clear", "clearAll"},
             NEW ch \in Channel \cup {None}, NEW pos \in Entry, Request(kind, ch, pos),
             ch = c \/ kind = "clearAll", cache'[c] = pos, ~tainted[c], ~Overlaps(c)
      PROVE  H
  <2>1. /\ Len(ops') = Len(ops) + 1 /\ db' = db /\ executed' = executed /\ finished' = finished
        /\ \A i \in 1..Len(ops) : ops'[i] = ops[i]
        /\ ops'[Len(ops')].kind = kind /\ ops'[Len(ops')].ch = ch
        /\ ops'[Len(ops')].pos = pos /\ ops'[Len(ops')].prev = cache
        /\ ops'[Len(ops')].outcome = "pending"
    BY <1>1, <1>4, RequestFacts DEF Kinds
  <2>2. MutIn(ops'[Len(ops')], c)
    BY <1>4, <2>1 DEF MutIn
  <2>3. CleanIn(ops', executed, finished, db[c], pos, c)
    BY <1>1, <1>2, <1>3, <1>4, <2>1, <2>2, MutationBegins DEF G
  <2>4. QED
    BY <1>4, <2>1, <2>3 DEF H
<1>5. ASSUME NEW kind \in Kinds, NEW ch \in Channel \cup {None}, NEW pos \in Entry,
             Request(kind, ch, pos), cache'[c] = cache[c], ~tainted[c],
             kind = "get" \/ (ch # c /\ kind # "clearAll")
      PROVE  H
  <2>1. /\ Len(ops') = Len(ops) + 1 /\ db' = db /\ executed' = executed /\ finished' = finished
        /\ \A i \in 1..Len(ops) : ops'[i] = ops[i]
        /\ ops'[Len(ops')].kind = kind /\ ops'[Len(ops')].ch = ch
        /\ ops'[Len(ops')].outcome = "pending"
    BY <1>1, <1>5, RequestFacts
  <2>2. ~MutIn(ops'[Len(ops')], c)
    BY <1>5, <2>1 DEF MutIn
  <2>3. CleanIn(ops', executed, finished, db[c], cache[c], c)
    BY <1>1, <1>2, <1>5, <2>1, <2>2, OtherBegins DEF G
  <2>4. QED
    BY <1>5, <2>1, <2>3 DEF H
<1>6. ASSUME NEW ch \in Channel, GetPosition(ch) PROVE H
  BY <1>5, <1>6 DEF GetPosition, Kinds, Entry
<1>7. ASSUME NEW ch \in Channel, NEW pos \in Position, UpdatePosition(ch, pos) PROVE H
  <2>1. CASE ch = c
    <3>1. cache'[c] = pos /\ tainted'[c] = (tainted[c] \/ Overlaps(c))
      BY <1>1, <1>7, <2>1, Zenon DEF UpdatePosition
    <3>2. QED
      BY <1>4, <1>7, <2>1, <3>1 DEF UpdatePosition, Entry
  <2>2. CASE ch # c
    <3>1. cache'[c] = cache[c] /\ tainted'[c] = tainted[c]
      BY <1>1, <1>7, <2>2 DEF UpdatePosition
    <3>2. QED
      BY <1>5, <1>7, <2>2, <3>1 DEF UpdatePosition, Entry, Kinds
  <2>3. QED
    BY <2>1, <2>2
<1>8. ASSUME NEW ch \in Channel, ClearPosition(ch) PROVE H
  <2>1. CASE ch = c
    <3>1. cache'[c] = None /\ tainted'[c] = (tainted[c] \/ Overlaps(c))
      BY <1>1, <1>8, <2>1, Zenon DEF ClearPosition
    <3>2. QED
      BY <1>4, <1>8, <2>1, <3>1 DEF ClearPosition, Entry
  <2>2. CASE ch # c
    <3>1. cache'[c] = cache[c] /\ tainted'[c] = tainted[c]
      BY <1>1, <1>8, <2>2 DEF ClearPosition
    <3>2. QED
      BY <1>5, <1>8, <2>2, <3>1 DEF ClearPosition, Entry, Kinds
  <2>3. QED
    BY <2>1, <2>2
<1>9. CASE ClearAll
  <2>1. cache'[c] = None /\ tainted'[c] = (tainted[c] \/ Overlaps(c))
    BY <1>1, <1>9, Zenon DEF ClearAll
  <2>2. QED
    BY <1>4, <1>9, <2>1 DEF ClearAll, Entry
<1>10. ASSUME NEW ch \in Channel, InvalidateCache(ch) PROVE H
  <2>1. cache'[c] \in {None, cache[c]} /\ UNCHANGED <<db, ops, executed, finished, tainted>>
    BY <1>1, <1>10 DEF InvalidateCache
  <2>2. CleanIn(ops, executed, finished, db[c], cache'[c], c)
    BY <1>2, <2>1 DEF G, CleanIn, EntryIn, LatestIn
  <2>3. QED
    BY <2>1, <2>2 DEF H
<1>11. ASSUME NEW v, Len(ops') = Len(ops), executed + 1 \in 1..Len(ops),
              \A j \in 1..Len(ops) : j # executed + 1 => ops'[j] = ops[j],
              ops'[executed + 1] = Answered(ops[executed + 1], "ok", v),
              ReadIn(ops[executed + 1], c) => v = db[c], ~tainted[c], NEW b,
              b = IF MutIn(ops[executed + 1], c) THEN ops[executed + 1].pos ELSE db[c]
       PROVE  CleanIn(ops', executed + 1, finished, b, cache[c], c)
  <2>1. /\ ops'[executed + 1].kind = ops[executed + 1].kind
        /\ ops'[executed + 1].ch = ops[executed + 1].ch
        /\ ops'[executed + 1].pos = ops[executed + 1].pos
        /\ ops'[executed + 1].outcome = "ok"
        /\ ReadIn(ops[executed + 1], c) => ops'[executed + 1].value = db[c]
    BY <1>11 DEF Answered
  <2>2. \A i \in (executed + 1)..Len(ops) : ops[i].outcome = "pending"
    BY <1>1 DEF OpsWellFormed
  <2>3. QED
    BY <1>1, <1>2, <1>11, <2>1, <2>2, ExecutedClean DEF G
<1>12. CASE ExecuteOk
  <2> DEFINE n == executed + 1
  <2>1. /\ n \in 1..Len(ops) /\ Len(ops') = Len(ops)
        /\ \A j \in 1..Len(ops) : j # n => ops'[j] = ops[j]
        /\ ops'[n] = Answered(ops[n], "ok", IF ops[n].kind = "get" THEN db[ops[n].ch] ELSE None)
        /\ executed' = n /\ finished' = finished /\ cache' = cache
    BY <1>1, <1>12, ExecuteOkFacts
  <2>2. tainted' = tainted /\ db' = Stored(ops[n])
    BY <1>12 DEF ExecuteOk
  <2>3. ops[n].kind \in {"clear", "clearAll"} => ops[n].pos = None
    BY <1>1, <2>1 DEF OpsWellFormed
  <2>4. db'[c] = IF MutIn(ops[n], c) THEN ops[n].pos ELSE db[c]
    BY <1>1, <2>2, <2>3 DEF Stored, MutIn
  <2>5. ReadIn(ops[n], c) =>
            (IF ops[n].kind = "get" THEN db[ops[n].ch] ELSE None) = db[c]
    BY DEF ReadIn
  <2>6. CleanIn(ops', n, finished, db'[c], cache[c], c)
    BY <1>11, <2>1, <2>2, <2>4, <2>5
  <2>7. QED
    BY <2>1, <2>6 DEF H
<1>13. CASE ExecuteFails
  <2> DEFINE n == executed + 1
  <2>1. /\ n \in 1..Len(ops) /\ Len(ops') = Len(ops)
        /\ \A j \in 1..Len(ops) : j # n => ops'[j] = ops[j]
        /\ ops'[n] = Answered(ops[n], "failed", None)
        /\ executed' = n /\ finished' = finished /\ cache' = cache /\ db' = db
    BY <1>1, <1>13, ExecuteFailsFacts
  <2>2. tainted'[c] = (tainted[c] \/ (Mutates(n, c) /\ YoungerMutation(n, c)))
    BY <1>1, <1>13, Zenon DEF ExecuteFails
  <2>3. ~tainted[c] /\ (MutIn(ops[n], c) => \A j \in (n + 1)..Len(ops) : ~MutIn(ops[j], c))
    BY <2>2 DEF Mutates, MutIn, YoungerMutation
  <2>4. /\ ops'[n].kind = ops[n].kind /\ ops'[n].ch = ops[n].ch /\ ops'[n].pos = ops[n].pos
        /\ ops'[n].prev = ops[n].prev /\ ops'[n].outcome = "failed"
    BY <2>1 DEF Answered
  <2>5. \A i \in n..Len(ops) : ops[i].outcome = "pending"
    BY <1>1 DEF OpsWellFormed
  <2>6. \A j \in (executed + 2)..Len(ops) : j \in (n + 1)..Len(ops)
    BY <1>1
  <2>7. CleanIn(ops', n, finished, db[c], cache[c], c)
    BY <1>1, <1>2, <2>1, <2>3, <2>4, <2>5, <2>6, FailedClean DEF G
  <2>8. QED
    BY <2>1, <2>7 DEF H
<1>14. CASE Resume
  <2> DEFINE n == finished + 1
             o == ops[n]
  <2>1. /\ n \in 1..executed /\ Len(ops') = Len(ops)
        /\ \A j \in 1..Len(ops) : j # n => ops'[j] = ops[j]
        /\ executed' = executed /\ finished' = n /\ db' = db /\ tainted' = tainted
    BY <1>1, <1>14, ResumeFacts
  <2>2. n \in 1..Len(ops) /\ o \in Op
    BY <1>1, <2>1 DEF TypeOK
  <2>3. o.kind \in {"clear", "clearAll"} => o.pos = None
    BY <1>1, <2>2 DEF OpsWellFormed
  <2>4. cache' = IF o.kind = "get" THEN Filled(o) ELSE RolledBack(o)
    BY <1>14 DEF Resume
  <2>5. o.outcome \in {"ok", "failed"} /\ o.kind \in Kinds \ {"blank"}
    BY <1>1, <2>1, <2>2 DEF OpsWellFormed, Op, Outcomes, Unfinished
  <2>6. o.kind \in {"get", "update", "clear"} => o.ch \in Channel
    BY <1>1, <2>2 DEF OpsWellFormed
  <2>7. \/ ReadIn(o, c) /\ cache'[c] = IF o.outcome = "ok" /\ o.value # None
                                        THEN o.value ELSE cache[c]
        \/ BadIn(o, c) /\ cache'[c] = o.prev[c]
        \/ BadIn(o, c) /\ o.prev[c] = None /\ o.pos = None /\ cache'[c] = cache[c]
        \/ ~BadIn(o, c) /\ cache'[c] = cache[c]
    BY <1>1, <2>3, <2>4, <2>5, <2>6 DEF Filled, RolledBack, ReadIn, BadIn, MutIn, Kinds
  <2>8. CleanIn(ops', executed, n, db[c], cache'[c], c)
    BY <1>1, <1>2, <2>1, <2>7, ResumedClean DEF G
  <2>9. QED
    BY <2>1, <2>8 DEF H
<1>15. CASE Restart
  <2>1. Len(ops') = 0 /\ executed' = 0 /\ finished' = 0 /\ cache'[c] = None
    BY <1>15 DEF Restart
  <2>2. QED
    BY <2>1 DEF H, CleanIn, EntryIn, ReadsIn, FailedIn, PendingIn, LatestIn
<1>16. CASE UNCHANGED vars
  BY <1>2, <1>16 DEF vars, G, H
<1>17. QED
  BY <1>6, <1>7, <1>8, <1>9, <1>10, <1>12, <1>13, <1>14, <1>15, <1>16 DEF Next

LEMMA Initially == Init => IInv
<1> SUFFICES ASSUME Init PROVE IInv
  OBVIOUS
<1>1. TypeOK
  BY NoneAssumption DEF Init, TypeOK, Entry
<1>2. OpsWellFormed
  BY DEF Init, OpsWellFormed, Unfinished
<1>3. ASSUME NEW c \in Channel PROVE Consistent(c)
  <2>1. CleanIn(ops, executed, finished, db[c], cache[c], c)
    BY DEF Init, CleanIn, EntryIn, ReadsIn, FailedIn, PendingIn, LatestIn
  <2>2. QED
    BY <2>1, CleanNow
<1>4. QED
  BY <1>1, <1>2, <1>3 DEF IInv

LEMMA Inductive == IInv /\ [Next]_vars => IInv'
<1> SUFFICES ASSUME IInv, [Next]_vars PROVE IInv'
  OBVIOUS
<1>1. TypeOK' /\ OpsWellFormed'
  BY TypeStep, OpsStep DEF IInv
<1>2. \A c \in Channel : ~tainted'[c] => Consistent(c)'
  BY ConsistentStep
<1>3. QED
  BY <1>1, <1>2 DEF IInv

-----------------------------------------------------------------------------

\* The inductive invariant holds in every reachable state.
THEOREM Invariance == Spec => []IInv
<1>1. QED
  BY Initially, Inductive, PTL DEF Spec

\* Every variable of OffsetManager keeps its type.
THEOREM TypeCorrect == Spec => []TypeOK
<1>1. IInv => TypeOK
  BY DEF IInv
<1>2. QED
  BY <1>1, Invariance, PTL

\* A cached position is the one the table will hold once the requests in flight have
\* been executed, whatever fails and whenever the worker dies, unless calls overlap badly.
THEOREM TwoTierConsistency == Spec => []CacheSettles
<1>1. IInv => CacheSettles
  BY DEF IInv, Consistent, CacheSettles
<1>2. QED
  BY <1>1, Invariance, PTL

\* With nothing in flight on a channel, cache and table agree: a failed write has been
\* rolled back to what the table still holds.
THEOREM QuietAgreement == Spec => []QuietAgrees
<1>1. ASSUME IInv PROVE QuietAgrees
  <2>1. /\ Len(ops) \in Nat /\ executed \in 0..Len(ops) /\ finished \in 0..executed
    BY <1>1 DEF IInv, TypeOK
  <2>2. ASSUME NEW c \in Channel, ~tainted[c], Quiet(c), cache[c] # None
        PROVE  cache[c] = db[c]
    <3>1. \A i \in (executed + 1)..Len(ops) : i \in Unfinished
      BY <2>1 DEF Unfinished
    <3>2. SettlesTo(cache[c], Len(ops) + 1, c)
      BY <1>1, <2>2 DEF IInv, Consistent, EntrySettles, NoFailure, Failed, Quiet
    <3>3. QED
      BY <2>1, <2>2, <3>1, <3>2 DEF SettlesTo, LastPending, Quiet
  <2>3. QED
    BY <2>2 DEF QuietAgrees
<1>2. QED
  BY <1>1, Invariance, PTL

\* A read-through never replaces a cached position by another one, unless a mutation
\* began while the read was in flight.
THEOREM FillsOnlyEmpty == Spec => FillNeverReplaces
<1>1. ASSUME IInv, [Next]_vars, NEW c \in Channel, ~tainted[c], finished < executed,
             finished' = finished + 1, Reads(finished + 1, c), cache[c] # None
      PROVE  cache'[c] = cache[c]
  <2> DEFINE n == finished + 1
  <2>1. /\ TypeOK /\ Consistent(c)
        /\ Len(ops) \in Nat /\ executed \in 0..Len(ops) /\ finished \in 0..executed
        /\ executed \in Nat /\ finished \in Nat /\ cache \in [Channel -> Entry]
    BY <1>1 DEF IInv, TypeOK
  <2>2. Resume
    <3>1. finished' # finished /\ finished' # 0
      BY <1>1, <2>1
    <3>2. QED
      BY <1>1, <3>1 DEF Next, vars, GetPosition, UpdatePosition, ClearPosition, ClearAll,
                        InvalidateCache, Request, ExecuteOk, ExecuteFails, Restart
  <2>3. n \in Unfinished /\ \A i \in Unfinished : i = n \/ i \in (n + 1)..Len(ops)
    BY <1>1, <2>1 DEF Unfinished
  <2>4. ~YoungerMutation(n, c) /\ (ops[n].outcome = "ok" => ops[n].value = db[c])
    BY <1>1, <2>1, <2>3 DEF Consistent, ReadsCurrent
  <2>5. \A i \in Unfinished : ~Mutates(i, c)
    BY <1>1, <2>3, <2>4 DEF YoungerMutation, Mutates, Reads
  <2>6. SettlesTo(cache[c], Len(ops) + 1, c)
    BY <1>1, <2>1, <2>5 DEF Consistent, EntrySettles, NoFailure, Failed
  <2>7. \A i \in (executed + 1)..(Len(ops) + 1 - 1) : i \in Unfinished
    BY <2>1 DEF Unfinished
  <2>8. cache[c] = db[c]
    BY <2>5, <2>6, <2>7 DEF SettlesTo, LastPending
  <2>9. cache' = Filled(ops[n])
    BY <1>1, <2>2 DEF Resume, Reads
  <2>10. QED
    BY <1>1, <2>1, <2>4, <2>8, <2>9 DEF Filled, Reads
<1>2. IInv /\ [Next]_vars =>
        [\A ch \in Channel :
          /\ ~tainted[ch]
          /\ finished < executed
          /\ finished' = finished + 1
          /\ Reads(finished + 1, ch)
          /\ cache[ch] # None
          => cache'[ch] = cache[ch]]_vars
  BY <1>1
<1>3. QED
  BY <1>2, Invariance, PTL DEF Spec, FillNeverReplaces

=============================================================================
