------------------------ MODULE MultipartUploadProofs ------------------------
(***************************************************************************)
(* MultipartUpload for every number of parts, of transfers that share the  *)
(* file's record, of faults and of crashes.                                *)
(***************************************************************************)
EXTENDS MultipartUpload, TLAPS, WellFoundedInduction

\* Where a transfer can be.
Places == {"idle", "verify", "create", "record", "parts", "mark", "clear"}

\* A record names the upload it is about.
RecordHasId == record # NoRecord => record.id \in Id

\* So does a transfer that speaks of one.
TransferHasId ==
    \A u \in Uploader : pc[u] \in {"verify", "record", "parts", "mark"} => id[u] \in Id

\* A transfer that starts afresh counts nothing as done.
FreshIsEmpty == \A u \in Uploader : pc[u] = "record" => have[u] = {}

\* The part about to be counted was taken by the upload it is counted for.
SentIsHeld ==
    \A u \in Uploader : pc[u] = "mark" => ~AllParts(u) /\ NextPart(u) \in held[id[u]]

\* Upload ids are given out in order.
IdsAreGiven == record.id < nextId /\ \A u \in Uploader : id[u] < nextId

\* Nobody but who asked for an upload knows of it before it is recorded.
FreshIsOwn ==
    \A u \in Uploader : pc[u] = "record" =>
        id[u] # record.id /\ \A v \in Uploader \ {u} : id[v] # id[u]

\* ProgressIsKept, from the moment the record is read.
RecordIsAhead ==
    \A u \in Uploader :
        pc[u] \in {"verify", "parts", "mark"} /\ record.id = id[u] => have[u] \subseteq record.done

IInv ==
    /\ TypeOK
    /\ RecordHasId /\ TransferHasId /\ FreshIsEmpty
    /\ IdsAreGiven /\ FreshIsOwn
    /\ SentIsHeld /\ HaveIsConfirmed /\ RecordIsAhead

-----------------------------------------------------------------------------

\* "Less than" as a relation, and that it has no infinite descent.
Below == {p \in Nat \X Nat : p[1] < p[2]}

LEMMA BelowFacts == IsWellFoundedOn(Below, Nat)
BY NatLessThanWellFounded DEF OpToRel, Below

\* The lowest part that is left is one of those left.
LEMMA MinFacts ==
    ASSUME NEW S \in SUBSET Part, S # {}
    PROVE  Min(S) \in S
<1>1. S \subseteq Nat
  BY PartAssumption DEF Part
<1>2. PICK x \in S : \A y \in S : ~(<<y, x>> \in Below)
  BY <1>1, WFMin, BelowFacts
<1>3. ASSUME NEW y \in S PROVE ~(y < x)
  <2>1. <<y, x>> \in Nat \X Nat
    BY <1>1
  <2>2. <<y, x>>[1] = y /\ <<y, x>>[2] = x
    OBVIOUS
  <2>3. QED
    BY <1>2, <2>1, <2>2, Zenon DEF Below
<1>4. \A y \in S : x <= y
  BY <1>1, <1>3
<1>5. QED
  BY <1>4 DEF Min

LEMMA NextPartFacts ==
    ASSUME NEW u \in Uploader, ~AllParts(u)
    PROVE  NextPart(u) \in Part /\ NextPart(u) \notin have[u]
BY MinFacts DEF AllParts, NextPart

LEMMA GoToFacts ==
    ASSUME TypeOK, NEW u \in Uploader, NEW s \in Places, GoTo(u, s)
    PROVE  /\ pc' \in [Uploader -> Places] /\ pc'[u] = s
           /\ \A v \in Uploader : v # u => pc'[v] = pc[v]
BY DEF TypeOK, GoTo, Places

\* A transfer that ends lets go of its upload and of what it counted.
LEMMA EndFacts ==
    ASSUME TypeOK, NEW u \in Uploader, End(u)
    PROVE  /\ pc' \in [Uploader -> Places] /\ pc'[u] = "idle"
           /\ id' \in [Uploader -> Id \union {NoId}] /\ id'[u] = NoId
           /\ have' \in [Uploader -> SUBSET Part]
           /\ \A v \in Uploader : v # u =>
                pc'[v] = pc[v] /\ id'[v] = id[v] /\ have'[v] = have[v]
BY GoToFacts DEF TypeOK, End, Places

LEMMA FaultFacts ==
    ASSUME TypeOK, Fault
    PROVE  faults' \in 0..MaxFaults
BY BoundAssumption DEF TypeOK, Fault

\* Every variable keeps its type.
LEMMA TypeStep ==
    ASSUME TypeOK, RecordHasId, TransferHasId, SentIsHeld, [Next]_vars
    PROVE  TypeOK'
<1> USE BoundAssumption DEF TypeOK, Records, NoRecord, Id, NoId, Places, RecordHasId, TransferHasId, SentIsHeld
<1>0. ASSUME NEW u \in Uploader, RequestFails(u) PROVE TypeOK'
  BY <1>0, GoToFacts, EndFacts, FaultFacts
  DEF RequestFails, serverVars, counters
<1>1. ASSUME NEW u \in Uploader, Begin(u) PROVE TypeOK'
  BY <1>1, GoToFacts, EndFacts, FaultFacts
  DEF Begin, serverVars, counters
<1>2. ASSUME NEW u \in Uploader, Verify(u) PROVE TypeOK'
  BY <1>2, GoToFacts, EndFacts, FaultFacts
  DEF Verify, serverVars, counters, Confirmed
<1>3. ASSUME NEW u \in Uploader, CannotResume(u) PROVE TypeOK'
  BY <1>3, GoToFacts, EndFacts, FaultFacts
  DEF CannotResume, serverVars, counters
<1>4. ASSUME NEW u \in Uploader, Create(u) PROVE TypeOK'
  <2> HIDE DEF TypeOK
  <2>1. nextId' \in 1..(MaxIds + 1) /\ open' \subseteq Id
    <3>1. nextId \in 1..MaxIds /\ open' = open \union {nextId} /\ nextId' = nextId + 1
      BY <1>4 DEF Create
    <3>2. open \subseteq 1..MaxIds
      BY DEF TypeOK
    <3>3. QED
      BY <3>1, <3>2
  <2>2. faults' \in 0..MaxFaults
    BY <1>4, FaultFacts DEF Create, TypeOK
  <2>3. pc' \in [Uploader -> Places] /\ id' \in [Uploader -> Id \union {NoId}]
        /\ have' \in [Uploader -> SUBSET Part]
    <3>1. CASE End(u)
      BY <3>1, EndFacts
    <3>2. CASE GoTo(u, "record") /\ id' = [id EXCEPT ![u] = nextId] /\ have' = [have EXCEPT ![u] = {}]
      <4>1. pc' \in [Uploader -> Places]
        BY <3>2, GoToFacts
      <4>2. nextId \in Id
        BY <1>4 DEF Create
      <4>3. QED
        BY <3>2, <4>1, <4>2 DEF TypeOK
    <3>3. QED
      BY <1>4, <3>1, <3>2 DEF Create
  <2>4. QED
    BY <1>4, <2>1, <2>2, <2>3 DEF Create, TypeOK
<1>5. ASSUME NEW u \in Uploader, MakeRecord(u) PROVE TypeOK'
  BY <1>5, GoToFacts, EndFacts, FaultFacts
  DEF MakeRecord, serverVars, counters
<1>6. ASSUME NEW u \in Uploader, SendPart(u) PROVE TypeOK'
  BY <1>6, GoToFacts, EndFacts, FaultFacts, NextPartFacts
  DEF SendPart, serverVars, counters
<1>7. ASSUME NEW u \in Uploader, MarkPart(u) PROVE TypeOK'
  <2> HIDE DEF TypeOK
  <2>1. UNCHANGED <<serverVars, counters>>
    BY <1>7 DEF MarkPart
  <2>2. CASE End(u) /\ record' = record
    BY <2>1, <2>2, EndFacts DEF TypeOK, serverVars, counters
  <2>3. CASE record # NoRecord /\ GoTo(u, "parts") /\ id' = id
             /\ record' = [record EXCEPT !.done = @ \union {NextPart(u)}]
             /\ have' = [have EXCEPT ![u] = @ \union {NextPart(u)}]
    <3>1. NextPart(u) \in Part
      BY <1>7, NextPartFacts DEF MarkPart
    <3>2. pc' \in [Uploader -> Places]
      BY <2>3, GoToFacts
    <3>3. record' \in Records /\ have' \in [Uploader -> SUBSET Part]
      BY <2>3, <3>1 DEF TypeOK
    <3>4. QED
      BY <2>1, <2>3, <3>2, <3>3 DEF TypeOK, serverVars, counters
  <2>4. QED
    BY <1>7, <2>2, <2>3 DEF MarkPart
<1>8. ASSUME NEW u \in Uploader, Complete(u) PROVE TypeOK'
  <2> HIDE DEF TypeOK
  <2>1. pc' \in [Uploader -> Places] /\ id' \in [Uploader -> Id \union {NoId}]
        /\ have' \in [Uploader -> SUBSET Part]
    BY <1>8, GoToFacts, EndFacts DEF Complete, TypeOK
  <2>2. faults' \in 0..MaxFaults
    BY <1>8, FaultFacts DEF Complete, TypeOK
  <2>3. object' \subseteq Part /\ open' \subseteq Id
    BY <1>8 DEF Complete, TypeOK
  <2>4. QED
    BY <1>8, <2>1, <2>2, <2>3 DEF Complete, TypeOK
<1>9. ASSUME NEW u \in Uploader, Refused(u) PROVE TypeOK'
  BY <1>9, GoToFacts, EndFacts, FaultFacts
  DEF Refused, serverVars, counters
<1>10. ASSUME NEW u \in Uploader, Clear(u) PROVE TypeOK'
  BY <1>10, GoToFacts, EndFacts, FaultFacts
  DEF Clear, serverVars, counters
<1>11. ASSUME NEW i \in Id, Drop(i) PROVE TypeOK'
  BY <1>11, GoToFacts, EndFacts, FaultFacts
  DEF Drop, serverVars, counters
<1>12. ASSUME Expire PROVE TypeOK'
  BY <1>12, GoToFacts, EndFacts, FaultFacts
  DEF Expire, serverVars, counters
<1>13. ASSUME Crash PROVE TypeOK'
  BY <1>13, GoToFacts, EndFacts, FaultFacts
  DEF Crash, serverVars, counters
<1>14. CASE UNCHANGED vars
  BY <1>14 DEF vars, serverVars, counters
<1>15. QED
  BY <1>0, <1>1, <1>2, <1>3, <1>4, <1>5, <1>6, <1>7, <1>8, <1>9, <1>10, <1>11, <1>12, <1>13, <1>14
  DEF Next, Step, Goes

\* A record is made with an upload's id and keeps it.
LEMMA RecordStep ==
    ASSUME TypeOK, RecordHasId, TransferHasId, [Next]_vars
    PROVE  (RecordHasId /\ TransferHasId)'
<1> USE DEF TypeOK, Records, NoRecord, Places, RecordHasId, TransferHasId
<1>0. ASSUME NEW u \in Uploader, RequestFails(u) PROVE (RecordHasId /\ TransferHasId)'
  BY <1>0, GoToFacts, EndFacts
  DEF RequestFails, serverVars, counters
<1>1. ASSUME NEW u \in Uploader, Begin(u) PROVE (RecordHasId /\ TransferHasId)'
  BY <1>1, GoToFacts, EndFacts
  DEF Begin, serverVars, counters
<1>2. ASSUME NEW u \in Uploader, Verify(u) PROVE (RecordHasId /\ TransferHasId)'
  BY <1>2, GoToFacts, EndFacts
  DEF Verify, serverVars, counters, Confirmed
<1>3. ASSUME NEW u \in Uploader, CannotResume(u) PROVE (RecordHasId /\ TransferHasId)'
  BY <1>3, GoToFacts, EndFacts
  DEF CannotResume, serverVars, counters
<1>4. ASSUME NEW u \in Uploader, Create(u) PROVE (RecordHasId /\ TransferHasId)'
  BY <1>4, GoToFacts, EndFacts
  DEF Create, serverVars, counters
<1>5. ASSUME NEW u \in Uploader, MakeRecord(u) PROVE (RecordHasId /\ TransferHasId)'
  BY <1>5, GoToFacts, EndFacts
  DEF MakeRecord, serverVars, counters
<1>6. ASSUME NEW u \in Uploader, SendPart(u) PROVE (RecordHasId /\ TransferHasId)'
  BY <1>6, GoToFacts, EndFacts, NextPartFacts
  DEF SendPart, serverVars, counters
<1>7. ASSUME NEW u \in Uploader, MarkPart(u) PROVE (RecordHasId /\ TransferHasId)'
  BY <1>7, GoToFacts, EndFacts, NextPartFacts
  DEF MarkPart, serverVars, counters
<1>8. ASSUME NEW u \in Uploader, Complete(u) PROVE (RecordHasId /\ TransferHasId)'
  BY <1>8, GoToFacts, EndFacts
  DEF Complete, serverVars, counters, AllParts
<1>9. ASSUME NEW u \in Uploader, Refused(u) PROVE (RecordHasId /\ TransferHasId)'
  BY <1>9, GoToFacts, EndFacts
  DEF Refused, serverVars, counters
<1>10. ASSUME NEW u \in Uploader, Clear(u) PROVE (RecordHasId /\ TransferHasId)'
  BY <1>10, GoToFacts, EndFacts
  DEF Clear, serverVars, counters
<1>11. ASSUME NEW i \in Id, Drop(i) PROVE (RecordHasId /\ TransferHasId)'
  BY <1>11, GoToFacts, EndFacts
  DEF Drop, serverVars, counters
<1>12. ASSUME Expire PROVE (RecordHasId /\ TransferHasId)'
  BY <1>12, GoToFacts, EndFacts
  DEF Expire, serverVars, counters
<1>13. ASSUME Crash PROVE (RecordHasId /\ TransferHasId)'
  BY <1>13, GoToFacts, EndFacts
  DEF Crash, serverVars, counters
<1>14. CASE UNCHANGED vars
  BY <1>14 DEF vars, serverVars, counters
<1>15. QED
  BY <1>0, <1>1, <1>2, <1>3, <1>4, <1>5, <1>6, <1>7, <1>8, <1>9, <1>10, <1>11, <1>12, <1>13, <1>14
  DEF Next, Step, Goes

\* What counts as done was confirmed or has just been sent, to the same upload.
LEMMA ConfirmedStep ==
    ASSUME TypeOK, TransferHasId, FreshIsEmpty, SentIsHeld, HaveIsConfirmed, [Next]_vars
    PROVE  (FreshIsEmpty /\ HaveIsConfirmed)'
<1> USE DEF TypeOK, Places, TransferHasId, FreshIsEmpty, SentIsHeld, HaveIsConfirmed
<1>0. ASSUME NEW u \in Uploader, RequestFails(u) PROVE (FreshIsEmpty /\ HaveIsConfirmed)'
  BY <1>0, GoToFacts, EndFacts
  DEF RequestFails, serverVars, counters
<1>1. ASSUME NEW u \in Uploader, Begin(u) PROVE (FreshIsEmpty /\ HaveIsConfirmed)'
  BY <1>1, GoToFacts, EndFacts
  DEF Begin, serverVars, counters
<1>2. ASSUME NEW u \in Uploader, Verify(u) PROVE (FreshIsEmpty /\ HaveIsConfirmed)'
  BY <1>2, GoToFacts, EndFacts
  DEF Verify, serverVars, counters, Confirmed
<1>3. ASSUME NEW u \in Uploader, CannotResume(u) PROVE (FreshIsEmpty /\ HaveIsConfirmed)'
  BY <1>3, GoToFacts, EndFacts
  DEF CannotResume, serverVars, counters
<1>4. ASSUME NEW u \in Uploader, Create(u) PROVE (FreshIsEmpty /\ HaveIsConfirmed)'
  BY <1>4, GoToFacts, EndFacts
  DEF Create, serverVars, counters
<1>5. ASSUME NEW u \in Uploader, MakeRecord(u) PROVE (FreshIsEmpty /\ HaveIsConfirmed)'
  BY <1>5, GoToFacts, EndFacts
  DEF MakeRecord, serverVars, counters
<1>6. ASSUME NEW u \in Uploader, SendPart(u) PROVE (FreshIsEmpty /\ HaveIsConfirmed)'
  BY <1>6, GoToFacts, EndFacts, NextPartFacts
  DEF SendPart, serverVars, counters
<1>7. ASSUME NEW u \in Uploader, MarkPart(u) PROVE (FreshIsEmpty /\ HaveIsConfirmed)'
  BY <1>7, GoToFacts, EndFacts, NextPartFacts
  DEF MarkPart, serverVars, counters
<1>8. ASSUME NEW u \in Uploader, Complete(u) PROVE (FreshIsEmpty /\ HaveIsConfirmed)'
  BY <1>8, GoToFacts, EndFacts
  DEF Complete, serverVars, counters, AllParts
<1>9. ASSUME NEW u \in Uploader, Refused(u) PROVE (FreshIsEmpty /\ HaveIsConfirmed)'
  BY <1>9, GoToFacts, EndFacts
  DEF Refused, serverVars, counters
<1>10. ASSUME NEW u \in Uploader, Clear(u) PROVE (FreshIsEmpty /\ HaveIsConfirmed)'
  BY <1>10, GoToFacts, EndFacts
  DEF Clear, serverVars, counters
<1>11. ASSUME NEW i \in Id, Drop(i) PROVE (FreshIsEmpty /\ HaveIsConfirmed)'
  BY <1>11, GoToFacts, EndFacts
  DEF Drop, serverVars, counters
<1>12. ASSUME Expire PROVE (FreshIsEmpty /\ HaveIsConfirmed)'
  BY <1>12, GoToFacts, EndFacts
  DEF Expire, serverVars, counters
<1>13. ASSUME Crash PROVE (FreshIsEmpty /\ HaveIsConfirmed)'
  BY <1>13, GoToFacts, EndFacts
  DEF Crash, serverVars, counters
<1>14. CASE UNCHANGED vars
  BY <1>14 DEF vars, serverVars, counters
<1>15. QED
  BY <1>0, <1>1, <1>2, <1>3, <1>4, <1>5, <1>6, <1>7, <1>8, <1>9, <1>10, <1>11, <1>12, <1>13, <1>14
  DEF Next, Step, Goes

\* A part that was sent stays where it was sent to.
LEMMA SentStep ==
    ASSUME TypeOK, TransferHasId, SentIsHeld, [Next]_vars
    PROVE  SentIsHeld'
<1> USE DEF TypeOK, Places, TransferHasId, SentIsHeld, NextPart, AllParts
<1>0. ASSUME NEW u \in Uploader, RequestFails(u) PROVE SentIsHeld'
  BY <1>0, GoToFacts, EndFacts
  DEF RequestFails, serverVars, counters
<1>1. ASSUME NEW u \in Uploader, Begin(u) PROVE SentIsHeld'
  BY <1>1, GoToFacts, EndFacts
  DEF Begin, serverVars, counters
<1>2. ASSUME NEW u \in Uploader, Verify(u) PROVE SentIsHeld'
  BY <1>2, GoToFacts, EndFacts
  DEF Verify, serverVars, counters, Confirmed
<1>3. ASSUME NEW u \in Uploader, CannotResume(u) PROVE SentIsHeld'
  BY <1>3, GoToFacts, EndFacts
  DEF CannotResume, serverVars, counters
<1>4. ASSUME NEW u \in Uploader, Create(u) PROVE SentIsHeld'
  BY <1>4, GoToFacts, EndFacts
  DEF Create, serverVars, counters
<1>5. ASSUME NEW u \in Uploader, MakeRecord(u) PROVE SentIsHeld'
  BY <1>5, GoToFacts, EndFacts
  DEF MakeRecord, serverVars, counters
<1>6. ASSUME NEW u \in Uploader, SendPart(u) PROVE SentIsHeld'
  <2>1. \A v \in Uploader : pc[v] = "mark" => id[v] \in Id /\ held[id[v]] \subseteq held'[id[v]]
    BY <1>6 DEF SendPart
  <2>2. ASSUME NEW v \in Uploader, v # u, pc'[v] = "mark"
        PROVE  pc[v] = "mark" /\ have'[v] = have[v] /\ id'[v] = id[v]
    BY <1>6, <2>2, GoToFacts, EndFacts DEF SendPart
  <2>3. pc'[u] = "mark" => have' = have /\ id' = id
    BY <1>6, GoToFacts, EndFacts DEF SendPart
  <2>4. pc'[u] = "mark" => ~AllParts(u)' /\ NextPart(u)' \in held'[id'[u]]
    BY <1>6, <2>3 DEF SendPart
  <2>5. ASSUME NEW v \in Uploader, v # u, pc'[v] = "mark"
        PROVE  ~AllParts(v)' /\ NextPart(v)' \in held'[id'[v]]
    BY <2>1, <2>2, <2>5
  <2>6. QED
    BY <2>4, <2>5
<1>7. ASSUME NEW u \in Uploader, MarkPart(u) PROVE SentIsHeld'
  BY <1>7, GoToFacts, EndFacts, NextPartFacts
  DEF MarkPart, serverVars, counters
<1>8. ASSUME NEW u \in Uploader, Complete(u) PROVE SentIsHeld'
  BY <1>8, GoToFacts, EndFacts
  DEF Complete, serverVars, counters, AllParts
<1>9. ASSUME NEW u \in Uploader, Refused(u) PROVE SentIsHeld'
  BY <1>9, GoToFacts, EndFacts
  DEF Refused, serverVars, counters
<1>10. ASSUME NEW u \in Uploader, Clear(u) PROVE SentIsHeld'
  BY <1>10, GoToFacts, EndFacts
  DEF Clear, serverVars, counters
<1>11. ASSUME NEW i \in Id, Drop(i) PROVE SentIsHeld'
  BY <1>11, GoToFacts, EndFacts
  DEF Drop, serverVars, counters
<1>12. ASSUME Expire PROVE SentIsHeld'
  BY <1>12, GoToFacts, EndFacts
  DEF Expire, serverVars, counters
<1>13. ASSUME Crash PROVE SentIsHeld'
  BY <1>13, GoToFacts, EndFacts
  DEF Crash, serverVars, counters
<1>14. CASE UNCHANGED vars
  BY <1>14 DEF vars, serverVars, counters
<1>15. QED
  BY <1>0, <1>1, <1>2, <1>3, <1>4, <1>5, <1>6, <1>7, <1>8, <1>9, <1>10, <1>11, <1>12, <1>13, <1>14
  DEF Next, Step, Goes

\* An upload id is given out once; who has just got one has it alone.
LEMMA FreshStep ==
    ASSUME TypeOK, TransferHasId, IdsAreGiven, FreshIsOwn, [Next]_vars
    PROVE  (IdsAreGiven /\ FreshIsOwn)'
<1> USE DEF TypeOK, Records, NoRecord, NoId, Id, Places, TransferHasId, IdsAreGiven, FreshIsOwn
<1>0. ASSUME NEW u \in Uploader, RequestFails(u) PROVE (IdsAreGiven /\ FreshIsOwn)'
  BY <1>0, GoToFacts, EndFacts DEF RequestFails, serverVars, counters
<1>1. ASSUME NEW u \in Uploader, Begin(u) PROVE (IdsAreGiven /\ FreshIsOwn)'
  BY <1>1, GoToFacts, EndFacts DEF Begin, serverVars, counters
<1>2. ASSUME NEW u \in Uploader, Verify(u) PROVE (IdsAreGiven /\ FreshIsOwn)'
  BY <1>2, GoToFacts, EndFacts DEF Verify, serverVars, counters, Confirmed
<1>3. ASSUME NEW u \in Uploader, CannotResume(u) PROVE (IdsAreGiven /\ FreshIsOwn)'
  BY <1>3, GoToFacts, EndFacts DEF CannotResume, serverVars, counters
<1>4. ASSUME NEW u \in Uploader, Create(u) PROVE (IdsAreGiven /\ FreshIsOwn)'
  BY <1>4, GoToFacts, EndFacts DEF Create, serverVars, counters
<1>5. ASSUME NEW u \in Uploader, MakeRecord(u) PROVE (IdsAreGiven /\ FreshIsOwn)'
  BY <1>5, GoToFacts, EndFacts DEF MakeRecord, serverVars, counters
<1>6. ASSUME NEW u \in Uploader, SendPart(u) PROVE (IdsAreGiven /\ FreshIsOwn)'
  BY <1>6, GoToFacts, EndFacts DEF SendPart, serverVars, counters
<1>7. ASSUME NEW u \in Uploader, MarkPart(u) PROVE (IdsAreGiven /\ FreshIsOwn)'
  BY <1>7, GoToFacts, EndFacts DEF MarkPart, serverVars, counters
<1>8. ASSUME NEW u \in Uploader, Complete(u) PROVE (IdsAreGiven /\ FreshIsOwn)'
  BY <1>8, GoToFacts, EndFacts DEF Complete, serverVars, counters
<1>9. ASSUME NEW u \in Uploader, Refused(u) PROVE (IdsAreGiven /\ FreshIsOwn)'
  BY <1>9, GoToFacts, EndFacts DEF Refused, serverVars, counters
<1>10. ASSUME NEW u \in Uploader, Clear(u) PROVE (IdsAreGiven /\ FreshIsOwn)'
  BY <1>10, GoToFacts, EndFacts DEF Clear, serverVars, counters
<1>11. ASSUME NEW i \in Id, Drop(i) PROVE (IdsAreGiven /\ FreshIsOwn)'
  BY <1>11, GoToFacts, EndFacts DEF Drop, serverVars, counters
<1>12. ASSUME Expire PROVE (IdsAreGiven /\ FreshIsOwn)'
  BY <1>12, GoToFacts, EndFacts DEF Expire, serverVars, counters
<1>13. ASSUME Crash PROVE (IdsAreGiven /\ FreshIsOwn)'
  BY <1>13, GoToFacts, EndFacts DEF Crash, serverVars, counters
<1>14. CASE UNCHANGED vars
  BY <1>14 DEF vars, serverVars, counters
<1>15. QED
  BY <1>0, <1>1, <1>2, <1>3, <1>4, <1>5, <1>6, <1>7, <1>8, <1>9, <1>10, <1>11, <1>12, <1>13, <1>14
  DEF Next, Step, Goes

\* Parts are added to the record of an upload as long as it is there, and never taken out.
LEMMA KeptStep ==
    ASSUME TypeOK, RecordHasId, TransferHasId, FreshIsEmpty, FreshIsOwn, RecordIsAhead, [Next]_vars
    PROVE  RecordIsAhead'
<1> USE DEF TypeOK, Records, NoRecord, NoId, Id, Places, RecordHasId, TransferHasId, FreshIsEmpty,
            FreshIsOwn, RecordIsAhead
<1>0. ASSUME NEW u \in Uploader, RequestFails(u) PROVE RecordIsAhead'
  BY <1>0, GoToFacts, EndFacts DEF RequestFails, serverVars, counters
<1>1. ASSUME NEW u \in Uploader, Begin(u) PROVE RecordIsAhead'
  BY <1>1, GoToFacts, EndFacts DEF Begin, serverVars, counters
<1>2. ASSUME NEW u \in Uploader, Verify(u) PROVE RecordIsAhead'
  BY <1>2, GoToFacts, EndFacts DEF Verify, serverVars, counters, Confirmed
<1>3. ASSUME NEW u \in Uploader, CannotResume(u) PROVE RecordIsAhead'
  BY <1>3, GoToFacts, EndFacts DEF CannotResume, serverVars, counters
<1>4. ASSUME NEW u \in Uploader, Create(u) PROVE RecordIsAhead'
  BY <1>4, GoToFacts, EndFacts DEF Create, serverVars, counters
<1>5. ASSUME NEW u \in Uploader, MakeRecord(u) PROVE RecordIsAhead'
  BY <1>5, GoToFacts, EndFacts DEF MakeRecord, serverVars, counters
<1>6. ASSUME NEW u \in Uploader, SendPart(u) PROVE RecordIsAhead'
  BY <1>6, GoToFacts, EndFacts DEF SendPart, serverVars, counters
<1>7. ASSUME NEW u \in Uploader, MarkPart(u) PROVE RecordIsAhead'
  BY <1>7, GoToFacts, EndFacts DEF MarkPart, serverVars, counters
<1>8. ASSUME NEW u \in Uploader, Complete(u) PROVE RecordIsAhead'
  BY <1>8, GoToFacts, EndFacts DEF Complete, serverVars, counters
<1>9. ASSUME NEW u \in Uploader, Refused(u) PROVE RecordIsAhead'
  BY <1>9, GoToFacts, EndFacts DEF Refused, serverVars, counters
<1>10. ASSUME NEW u \in Uploader, Clear(u) PROVE RecordIsAhead'
  BY <1>10, GoToFacts, EndFacts DEF Clear, serverVars, counters
<1>11. ASSUME NEW i \in Id, Drop(i) PROVE RecordIsAhead'
  BY <1>11, GoToFacts, EndFacts DEF Drop, serverVars, counters
<1>12. ASSUME Expire PROVE RecordIsAhead'
  BY <1>12, GoToFacts, EndFacts DEF Expire, serverVars, counters
<1>13. ASSUME Crash PROVE RecordIsAhead'
  BY <1>13, GoToFacts, EndFacts DEF Crash, serverVars, counters
<1>14. CASE UNCHANGED vars
  BY <1>14 DEF vars, serverVars, counters
<1>15. QED
  BY <1>0, <1>1, <1>2, <1>3, <1>4, <1>5, <1>6, <1>7, <1>8, <1>9, <1>10, <1>11, <1>12, <1>13, <1>14
  DEF Next, Step, Goes

-----------------------------------------------------------------------------

LEMMA InitHolds == Init => IInv
BY PartAssumption, BoundAssumption
   DEF Init, IInv, TypeOK, Records, NoRecord, NoId, Id, RecordHasId, TransferHasId, FreshIsEmpty,
       IdsAreGiven, FreshIsOwn, SentIsHeld, HaveIsConfirmed, RecordIsAhead

LEMMA StepHolds == IInv /\ [Next]_vars => IInv'
BY TypeStep, RecordStep, ConfirmedStep, SentStep, FreshStep, KeptStep DEF IInv

(* The inductive invariant holds in every reachable state.                 *)
THEOREM Invariance == Spec => []IInv
BY InitHolds, StepHolds, PTL DEF Spec

(* Every variable keeps its type: a part that is sent is a part of the     *)
(* file, and a record always names an upload.                              *)
THEOREM TypeCorrect == Spec => []TypeOK
BY Invariance, PTL DEF IInv

(* What a transfer counts as done, S3 holds for the upload it speaks of,   *)
(* whatever other transfers do to the record the two share.                *)
THEOREM DoneIsHeld == Spec => []HaveIsConfirmed
BY Invariance, PTL DEF IInv

(* What a transfer has done stays recorded for whoever resumes its upload, *)
(* however many transfers mark parts in the record they share.             *)
THEOREM ProgressKept == Spec => []ProgressIsKept
<1>1. IInv => ProgressIsKept
  BY DEF IInv, RecordIsAhead, ProgressIsKept
<1>2. QED
  BY <1>1, Invariance, PTL

-----------------------------------------------------------------------------
(* A transfer, seen from outside. *)

Stages == [u \in Uploader |-> Stage(u)]

\* The stage a place belongs to.
StageAt(s) ==
    CASE s = "idle" -> "idle"
      [] s = "clear" -> "stored"
      [] OTHER -> "sending"

\* A transfer that goes somewhere is at the stage of that place, the others where they were.
LEMMA StageMoves ==
    ASSUME TypeOK, NEW u \in Uploader, NEW s \in Places, GoTo(u, s)
    PROVE  Stages' = [Stages EXCEPT ![u] = StageAt(s)]
<1>1. \A v \in Uploader : v # u => Stage(v)' = Stage(v)
  BY GoToFacts DEF Stage
<1>2. Stage(u)' = StageAt(s)
  BY GoToFacts DEF Stage, StageAt
<1>3. QED
  BY <1>1, <1>2 DEF Stages

\* Going on within a stage is not seen.
LEMMA StageStays ==
    ASSUME TypeOK, NEW u \in Uploader, NEW s \in Places, GoTo(u, s), Stage(u) = StageAt(s)
    PROVE  Stages' = Stages
BY StageMoves DEF Stages

\* What the rest of the system sees.
Seen == <<Stages, object = Part, record # NoRecord>>

LEMMA Unseen ==
    ASSUME UNCHANGED Seen
    PROVE  UNCHANGED Outside!vars
BY DEF Outside!vars, Seen, Stages

\* What a transfer does is a step of the transfer it promises to be, or not seen at all.
LEMMA TransferStep ==
    ASSUME IInv, NEW u \in Uploader, Step(u)
    PROVE  [Outside!Next]_(Outside!vars)
<1> SUFFICES ASSUME ~ UNCHANGED Seen PROVE Outside!Next
  BY Unseen
<1> DEFINE Stored == object = Part
           Noted == record # NoRecord
<1>0. TypeOK /\ TransferHasId /\ RecordHasId
  BY DEF IInv
<1>1. CASE Begin(u)
  <2>1. PICK s \in {"create", "verify"} : GoTo(u, s)
    BY <1>1 DEF Begin
  <2>2. Stages' = [Stages EXCEPT ![u] = "sending"]
    BY <1>0, <2>1, StageMoves DEF Places, StageAt
  <2>3. Stages[u] = "idle"
    BY <1>1 DEF Begin, Stages, Stage
  <2>4. Stored' = Stored /\ Noted' = Noted
    BY <1>1 DEF Begin, serverVars, counters
  <2>5. Outside!Begin(u)
    BY <2>2, <2>3, <2>4 DEF Outside!Begin, Outside!Passes, Stages
  <2>6. QED
    BY <2>5 DEF Outside!Next
<1>2. CASE Verify(u) \/ (SendPart(u) /\ ~End(u))
  <2>1. PICK s \in {"parts", "mark"} : GoTo(u, s)
    BY <1>2 DEF Verify, SendPart
  <2>2. Stage(u) = StageAt(s)
    BY <1>2 DEF Verify, SendPart, Stage, StageAt
  <2>3. UNCHANGED <<object, record>>
    BY <1>2 DEF Verify, SendPart, serverVars
  <2>4. QED
    BY <1>0, <2>1, <2>2, <2>3, StageStays DEF Seen, Places
<1>3. CASE CannotResume(u)
  <2>1. Stages' = Stages
    BY <1>0, <1>3, StageStays DEF CannotResume, Places, Stage, StageAt
  <2>2. Stored' = Stored /\ ~Noted'
    BY <1>3 DEF CannotResume, serverVars, counters
  <2>3. Outside!Forget
    BY <2>1, <2>2 DEF Outside!Forget, Stages
  <2>4. QED
    BY <2>3 DEF Outside!Next
<1>4. CASE Create(u) /\ ~End(u)
  <2>1. Stages' = Stages
    BY <1>0, <1>4, StageStays DEF Create, Places, Stage, StageAt
  <2>2. QED
    BY <1>4, <2>1 DEF Create, Seen
<1>5. CASE MakeRecord(u)
  <2>1. Stages' = Stages
    BY <1>0, <1>5, StageStays DEF MakeRecord, Places, Stage, StageAt
  <2>2. Stored' = Stored
    BY <1>5 DEF MakeRecord, serverVars, counters
  <2>3. Noted'
    BY <1>0, <1>5 DEF MakeRecord, TransferHasId, NoRecord, NoId, Id
  <2>4. Stages[u] = "sending"
    BY <1>5 DEF MakeRecord, Stages, Stage
  <2>5. Outside!Note
    BY <2>1, <2>2, <2>3, <2>4 DEF Outside!Note, Stages
  <2>6. QED
    BY <2>5 DEF Outside!Next
<1>6. CASE MarkPart(u) /\ ~End(u)
  <2>1. GoTo(u, "parts") /\ record # NoRecord /\ UNCHANGED object
        /\ record' = [record EXCEPT !.done = @ \union {NextPart(u)}]
    BY <1>6 DEF MarkPart, serverVars, counters
  <2>2. Stages' = Stages
    BY <1>0, <1>6, <2>1, StageStays DEF MarkPart, Places, Stage, StageAt
  <2>3. record' # NoRecord
    <3>1. record.id \in Id /\ record'.id = record.id
      BY <1>0, <2>1 DEF TypeOK, Records, RecordHasId
    <3>2. QED
      BY <3>1 DEF NoRecord, NoId, Id
  <2>4. QED
    BY <2>1, <2>2, <2>3 DEF Seen
<1>7. CASE Complete(u) /\ ~End(u)
  <2>1. Stages' = [Stages EXCEPT ![u] = "stored"]
    BY <1>0, <1>7, StageMoves DEF Complete, Places, StageAt
  <2>2. Stages[u] = "sending"
    BY <1>7 DEF Complete, Stages, Stage
  <2>3. Stored' /\ Noted' = Noted
    BY <1>0, <1>7 DEF Complete, AllParts, TypeOK
  <2>4. Outside!Succeed(u)
    BY <2>1, <2>2, <2>3 DEF Outside!Succeed, Outside!Passes, Stages
  <2>5. QED
    BY <2>4 DEF Outside!Next
<1>8. CASE Clear(u)
  <2>1. Stages' = [Stages EXCEPT ![u] = "idle"]
    BY <1>0, <1>8, StageMoves DEF Clear, End, Places, StageAt
  <2>2. Stages[u] = "stored"
    BY <1>8 DEF Clear, Stages, Stage
  <2>3. Stored' = Stored /\ ~Noted'
    BY <1>8 DEF Clear, serverVars, counters
  <2>4. Outside!Leave(u)
    BY <2>1, <2>2, <2>3 DEF Outside!Leave, Outside!Passes, Stages
  <2>5. QED
    BY <2>4 DEF Outside!Next
<1>9. CASE End(u) /\ ~Clear(u)
  <2>1. Stages' = [Stages EXCEPT ![u] = "idle"]
    BY <1>0, <1>9, StageMoves DEF End, Places, StageAt
  <2>2. pc'[u] = "idle"
    BY <1>0, <1>9, EndFacts
  <2>3. pc[u] \in {"create", "parts", "mark"} /\ record' = record
    <3>1. CASE Create(u) \/ MakeRecord(u) \/ SendPart(u) \/ MarkPart(u) \/ Complete(u) \/ Refused(u)
      BY <1>0, <2>2, <3>1, GoToFacts
      DEF Create, MakeRecord, SendPart, MarkPart, Complete, Refused, Places
    <3>2. CASE Begin(u) \/ Verify(u) \/ CannotResume(u)
      BY <1>0, <2>2, <3>2, GoToFacts DEF Begin, Verify, CannotResume, Places
    <3>3. CASE RequestFails(u)
      BY <3>3 DEF RequestFails
    <3>4. QED
      BY <1>9, <3>1, <3>2, <3>3 DEF Step, Goes
  <2>4. Stages[u] = "sending"
    BY <2>3 DEF Stages, Stage
  <2>5. Stored' \in {Stored, TRUE}
    <3>1. CASE Complete(u)
      BY <1>0, <3>1 DEF Complete, AllParts, TypeOK
    <3>2. CASE ~Complete(u)
      BY <1>9, <3>2
      DEF Step, Goes, serverVars, counters, RequestFails, Begin, Verify, CannotResume, Create, MakeRecord, SendPart, MarkPart, Refused
    <3>3. QED
      BY <3>1, <3>2
  <2>6. Outside!Fail(u)
    BY <2>1, <2>3, <2>4, <2>5 DEF Outside!Fail, Outside!Passes, Stages
  <2>7. QED
    BY <2>6 DEF Outside!Next
<1>10. CASE Refused(u) \/ RequestFails(u)
  BY <1>9, <1>10 DEF Refused, RequestFails, Clear
<1>11. QED
  BY <1>1, <1>2, <1>3, <1>4, <1>5, <1>6, <1>7, <1>8, <1>9, <1>10, Zenon DEF Step, Goes

(* The multipart upload is a transfer as the file cache knows it: however  *)
(* transfers of the file share, lose and replace its record, each succeeds *)
(* only with the whole object stored.                                      *)
THEOREM Refinement == Spec => ImplementsTransfer
<1>1. Init => Outside!Init
  BY PartAssumption DEF Init, Outside!Init, Stage, Part, NoRecord
<1>2. IInv /\ [Next]_vars => [Outside!Next]_(Outside!vars)
  <2> SUFFICES ASSUME IInv, [Next]_vars, ~ UNCHANGED Seen PROVE Outside!Next
    BY Unseen
  <2>1. ASSUME NEW u \in Uploader, Step(u) PROVE Outside!Next
    BY <2>1, TransferStep DEF Seen, Outside!vars, Stages
  <2>2. CASE Expire
    <3>1. Stages' = Stages /\ UNCHANGED object /\ record' = NoRecord
      BY <2>2 DEF Expire, Stages, Stage
    <3>2. Outside!Forget
      BY <3>1 DEF Outside!Forget, Stages
    <3>3. QED
      BY <3>2 DEF Outside!Next
  <2>3. CASE Crash
    <3>1. Stages' = [u \in Uploader |-> "idle"] /\ UNCHANGED <<object, record>>
      BY <2>3 DEF Crash, Stages, Stage, serverVars
    <3>2. Outside!Crash
      BY <3>1 DEF Outside!Crash, Stages
    <3>3. QED
      BY <3>2 DEF Outside!Next
  <2>4. CASE \E i \in Id : Drop(i)
    BY <2>4 DEF Drop, Seen, Stages, Stage
  <2>5. CASE UNCHANGED vars
    BY <2>5 DEF vars, serverVars, counters, Seen, Stages, Stage
  <2>6. QED
    BY <2>1, <2>2, <2>3, <2>4, <2>5 DEF Next
<1>3. QED
  BY <1>1, <1>2, Invariance, PTL DEF Spec, ImplementsTransfer, Outside!Spec

=============================================================================
