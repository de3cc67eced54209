--------------------------- MODULE OffsetManager ---------------------------
(***************************************************************************)
(* The two-tier store of channel positions: a synchronous in-memory Map    *)
(* (cache) over the IndexedDB table `offsets` (db).  Every method runs to  *)
(* its first await in one step; IndexedDB then executes the requests of    *)
(* the one object store in the order they were made, and the methods       *)
(* resume in that order too.  Between the request and its continuation     *)
(* other callers run: gap fill, the update executor, RPC responses and the *)
(* `subscribed` handler all share the one manager.                         *)
(***************************************************************************)
EXTENDS Naturals, Sequences

CONSTANTS
    Channel,    \* channel names
    Position,   \* {offset, epoch} pairs, told apart only by identity
    None,       \* no entry (Map.get / Table.get answer undefined)
    MaxCalls,   \* bound on the calls made between two restarts
    Methods     \* the methods the callers use

ASSUME NoneAssumption == None \notin Position /\ None \notin Channel
ASSUME BoundAssumption == MaxCalls \in Nat
ASSUME MethodsAssumption ==
    Methods \subseteq {"get", "update", "clear", "clearAll", "invalidate"}

VARIABLES
    cache,      \* OffsetManager.cache
    db,         \* the `offsets` table
    ops,        \* the requests made, in order; a finished one stays, blanked
    executed,   \* how many of them IndexedDB has executed
    finished,   \* how many of them have resumed their caller
    tainted     \* ghost: the calls on this channel overlapped badly (see Overlaps)

vars == <<cache, db, ops, executed, finished, tainted>>

Entry == Position \cup {None}
Kinds == {"get", "update", "clear", "clearAll", "blank"}
Outcomes == {"pending", "ok", "failed"}

\* One call in flight: its method, channel, the position it writes (None for a
\* delete), the cache snapshot its rollback restores, and what IndexedDB answered.
Op == [kind : Kinds, ch : Channel \cup {None}, pos : Entry, prev : [Channel -> Entry],
       outcome : Outcomes, value : Entry]

TypeOK ==
    /\ cache \in [Channel -> Entry]
    /\ db \in [Channel -> Entry]
    /\ ops \in Seq(Op)
    /\ executed \in 0..Len(ops)
    /\ finished \in 0..executed
    /\ tainted \in [Channel -> BOOLEAN]

-----------------------------------------------------------------------------

Unfinished == (finished + 1)..Len(ops)

\* Call i writes or deletes the position of channel ch.
Mutates(i, ch) ==
    \/ ops[i].kind \in {"update", "clear"} /\ ops[i].ch = ch
    \/ ops[i].kind = "clearAll"

Reads(i, ch) == ops[i].kind = "get" /\ ops[i].ch = ch

Failed(i, ch) == Mutates(i, ch) /\ ops[i].outcome = "failed"
YoungerMutation(i, ch) == \E j \in (i + 1)..Len(ops) : Mutates(j, ch)

\* The ghost names the overlaps the manager does not protect itself from: a
\* mutation begun while a read-through of the channel is in flight, and a
\* younger mutation of the channel begun before a failed one is rolled back.
Overlaps(ch) == \E i \in Unfinished : Reads(i, ch) \/ Failed(i, ch)

\* A finished call leaves nothing but its place in the order.
Blank == [kind |-> "blank", ch |-> None, pos |-> None,
          prev |-> [c \in Channel |-> None], outcome |-> "ok", value |-> None]

Request(kind, ch, pos) ==
    /\ Len(ops) < MaxCalls
    /\ ops' = Append(ops, [kind |-> kind, ch |-> ch, pos |-> pos, prev |-> cache,
                           outcome |-> "pending", value |-> None])
    /\ UNCHANGED <<db, executed, finished>>

-----------------------------------------------------------------------------

Init ==
    /\ cache = [ch \in Channel |-> None]
    /\ db \in [Channel -> Entry]
    /\ ops = <<>>
    /\ executed = 0
    /\ finished = 0
    /\ tainted = [ch \in Channel |-> FALSE]

\* getPosition (and warmCache) on a cache miss: queue the read.  A hit returns
\* the cached pair in the same step and changes nothing.
GetPosition(ch) ==
    /\ "get" \in Methods
    /\ cache[ch] = None
    /\ Request("get", ch, None)
    /\ UNCHANGED <<cache, tainted>>

\* updatePosition up to its await: remember the cached pair, overwrite it, put.
UpdatePosition(ch, pos) ==
    /\ "update" \in Methods
    /\ Request("update", ch, pos)
    /\ cache' = [cache EXCEPT ![ch] = pos]
    /\ tainted' = [tainted EXCEPT ![ch] = @ \/ Overlaps(ch)]

\* clearPosition up to its await.
ClearPosition(ch) ==
    /\ "clear" \in Methods
    /\ Request("clear", ch, None)
    /\ cache' = [cache EXCEPT ![ch] = None]
    /\ tainted' = [tainted EXCEPT ![ch] = @ \/ Overlaps(ch)]

\* clearAll (and reset) up to its await.
ClearAll ==
    /\ "clearAll" \in Methods
    /\ Request("clearAll", None, None)
    /\ cache' = [c \in Channel |-> None]
    /\ tainted' = [c \in Channel |-> tainted[c] \/ Overlaps(c)]

\* invalidateCache, and invalidateAllCache as every channel in turn.
InvalidateCache(ch) ==
    /\ "invalidate" \in Methods
    /\ cache[ch] # None
    /\ cache' = [cache EXCEPT ![ch] = None]
    /\ UNCHANGED <<db, ops, executed, finished, tainted>>

-----------------------------------------------------------------------------

\* A mutant: the table keeps the whole request.
StoredWhole(o) ==
    IF o.kind = "update" THEN [db EXCEPT ![o.ch] = o] ELSE db

\* What the table holds once request o is executed.
Stored(o) ==
    CASE o.kind = "update" -> [db EXCEPT ![o.ch] = o.pos]
      [] o.kind = "clear" -> [db EXCEPT ![o.ch] = None]
      [] o.kind = "clearAll" -> [c \in Channel |-> None]
      [] OTHER -> db

\* Request o with IndexedDB's answer.
Answered(o, outcome, value) ==
    [kind |-> o.kind, ch |-> o.ch, pos |-> o.pos, prev |-> o.prev,
     outcome |-> outcome, value |-> value]

\* IndexedDB executes the oldest request.
ExecuteOk ==
    LET i == executed + 1 IN
    /\ i \in DOMAIN ops
    /\ ops' = [ops EXCEPT ![i] =
                  Answered(@, "ok", IF ops[i].kind = "get" THEN db[ops[i].ch] ELSE None)]
    /\ db' = Stored(ops[i])
    /\ executed' = i
    /\ UNCHANGED <<cache, finished, tainted>>

\* ... or its transaction aborts (quota, closed connection).
ExecuteFails ==
    LET i == executed + 1 IN
    /\ i \in DOMAIN ops
    /\ ops' = [ops EXCEPT ![i] = Answered(@, "failed", None)]
    /\ executed' = i
    /\ tainted' = [ch \in Channel |->
                      tainted[ch] \/ (Mutates(i, ch) /\ YoungerMutation(i, ch))]
    /\ UNCHANGED <<cache, db, finished>>

-----------------------------------------------------------------------------

\* The cache after a read-through: a record found replaces the entry, whatever
\* is there by now.
Filled(o) ==
    IF o.outcome = "ok" /\ o.value # None THEN [cache EXCEPT ![o.ch] = o.value] ELSE cache

\* A mutant: the catch block puts back what it failed to write.
RolledForward(o) ==
    IF o.outcome = "ok" THEN cache
    ELSE IF o.kind = "update" THEN [cache EXCEPT ![o.ch] = o.pos] ELSE o.prev

\* The cache after a write settles: a failure restores what the call saw.
RolledBack(o) ==
    IF o.outcome = "ok" THEN cache
    ELSE CASE o.kind = "update" -> [cache EXCEPT ![o.ch] = o.prev[o.ch]]
           [] o.kind = "clear" -> IF o.prev[o.ch] # None
                                  THEN [cache EXCEPT ![o.ch] = o.prev[o.ch]]
                                  ELSE cache
           [] OTHER -> o.prev

\* The oldest executed call resumes after its await.
Resume ==
    LET i == finished + 1
        o == ops[i]
    IN  /\ finished < executed
        /\ cache' = IF o.kind = "get" THEN Filled(o) ELSE RolledBack(o)
        /\ ops' = [ops EXCEPT ![i] = Blank]
        /\ finished' = i
        /\ UNCHANGED <<db, executed, tainted>>

\* The worker dies: memory and unexecuted requests are gone, the table stays.
Restart ==
    /\ ops # <<>>
    /\ cache' = [ch \in Channel |-> None]
    /\ ops' = <<>>
    /\ executed' = 0
    /\ finished' = 0
    /\ tainted' = [ch \in Channel |-> FALSE]
    /\ UNCHANGED db

Next ==
    \/ \E ch \in Channel :
          \/ GetPosition(ch)
          \/ \E pos \in Position : UpdatePosition(ch, pos)
          \/ ClearPosition(ch)
          \/ InvalidateCache(ch)
    \/ ClearAll
    \/ ExecuteOk
    \/ ExecuteFails
    \/ Resume
    \/ Restart

Spec == Init /\ [][Next]_vars

-----------------------------------------------------------------------------

\* Call i is the last unexecuted mutation of the channel among the calls before n.
LastPending(i, n, ch) ==
    /\ i \in (executed + 1)..(n - 1)
    /\ Mutates(i, ch)
    /\ \A j \in (i + 1)..(n - 1) : ~Mutates(j, ch)

\* The table holds e once the calls before n have been executed without a failure.
SettlesTo(e, n, ch) ==
    \/ \E i \in (executed + 1)..(n - 1) : LastPending(i, n, ch) /\ ops[i].pos = e
    \/ /\ \A i \in (executed + 1)..(n - 1) : ~Mutates(i, ch)
       /\ db[ch] = e

NoFailure(ch) == \A i \in Unfinished : ~Failed(i, ch)
Quiet(ch) == \A i \in Unfinished : ~Mutates(i, ch) /\ ~Reads(i, ch)

(***************************************************************************)
(* Two-tier consistency (class comment, lines 9-19): at every moment a     *)
(* cached entry is the position the table will hold when the requests      *)
(* already made have been executed, failed writes and crashes included,    *)
(* unless the callers overlapped in one of the two ways the ghost names.   *)
(***************************************************************************)
EntrySettles(ch) ==
    NoFailure(ch) /\ cache[ch] # None => SettlesTo(cache[ch], Len(ops) + 1, ch)

CacheSettles == \A ch \in Channel : ~tainted[ch] => EntrySettles(ch)

(***************************************************************************)
(* The inductive strengthening.  On an untainted channel a read has no     *)
(* younger mutation and carries what the table holds; a failed write has   *)
(* no younger mutation and restores what the table holds; a pending write  *)
(* would restore what the table holds when its turn comes; the entry is    *)
(* what the latest unfinished write put there.                             *)
(***************************************************************************)
OpsWellFormed ==
    /\ \A i \in 1..finished : ops[i].kind = "blank"
    /\ \A i \in Unfinished : ops[i].kind # "blank"
    /\ \A i \in (finished + 1)..executed : ops[i].outcome # "pending"
    /\ \A i \in (executed + 1)..Len(ops) : ops[i].outcome = "pending"
    /\ \A i \in 1..Len(ops) : ops[i].kind \in {"get", "update", "clear"} => ops[i].ch \in Channel
    /\ \A i \in 1..Len(ops) : ops[i].kind \in {"clear", "clearAll"} => ops[i].pos = None

ReadsCurrent(ch) ==
    \A i \in Unfinished : Reads(i, ch) =>
        /\ ~YoungerMutation(i, ch)
        /\ ops[i].outcome = "ok" => ops[i].value = db[ch]

FailedRestores(ch) ==
    \A i \in Unfinished : Failed(i, ch) =>
        /\ ~YoungerMutation(i, ch)
        /\ ops[i].prev[ch] \in {None, db[ch]}

PendingRestores(ch) ==
    \A i \in (executed + 1)..Len(ops) :
        Mutates(i, ch) /\ ops[i].prev[ch] # None => SettlesTo(ops[i].prev[ch], i, ch)

LatestCached(ch) ==
    \A i \in Unfinished :
        Mutates(i, ch) /\ ~YoungerMutation(i, ch) => cache[ch] \in {None, ops[i].pos}

Consistent(ch) ==
    /\ EntrySettles(ch)
    /\ ReadsCurrent(ch)
    /\ FailedRestores(ch)
    /\ PendingRestores(ch)
    /\ LatestCached(ch)

IInv ==
    /\ TypeOK
    /\ OpsWellFormed
    /\ \A ch \in Channel : ~tainted[ch] => Consistent(ch)

(***************************************************************************)
(* With nothing in flight on a channel the two tiers agree: rolling back a *)
(* failed write restores exactly what the table still holds (lines 117-131 *)
(* and 153-161), unless the calls overlapped badly.                        *)
(***************************************************************************)
QuietAgrees ==
    \A ch \in Channel :
        ~tainted[ch] /\ Quiet(ch) /\ cache[ch] # None => cache[ch] = db[ch]

(***************************************************************************)
(* The read-through of getPosition (line 70) only ever fills an empty      *)
(* entry: it never replaces a cached position by another one, unless a     *)
(* mutation began while the read was in flight.                            *)
(***************************************************************************)
FillNeverReplaces ==
    [][\A ch \in Channel :
          /\ ~tainted[ch]
          /\ finished < executed
          /\ finished' = finished + 1
          /\ Reads(finished + 1, ch)
          /\ cache[ch] # None
          => cache'[ch] = cache[ch]]_vars

=============================================================================
