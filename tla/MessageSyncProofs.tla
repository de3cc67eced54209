-------------------------- MODULE MessageSyncProofs --------------------------
(***************************************************************************)
(* MessageSync for every number of messages, sendings, edits, retries and  *)
(* faults.                                                                 *)
(***************************************************************************)
EXTENDS MessageSync, TLAPS

\* The calls that will still write the status of their message.
Settling == {"rpc", "mark", "fail"}

\* What is marked as delivered was answered, ...
MarkedIsAccepted ==
    \A t \in Task : call[t].pc \in {"mark", "markSession"} => t[1] \in accepted

\* ... and what is published was taken.
TopicIsAccepted == \A x \in topic : x # SessionRow => x \in accepted

SyncedIsAccepted == \A m \in Msg : message[m] = "synced" => m \in accepted

\* A message that is pending has a call that will settle it.
PendingSettles ==
    \A m \in Msg : message[m] = "pending" =>
        m \in abandoned \/ \E t \in Task : t[1] = m /\ call[t].pc \in Settling

\* Whoever knows of the server's session knows it from a message it took.
KnownFromServer ==
    \/ accepted # {}
    \/ /\ ~session.known /\ topic = {}
       /\ \A t \in Task : ~call[t].row.known
       /\ \A e \in Edit : edit[e] \notin {"write", "try", "markEdit"}

\* The row, and every copy of it a call may write back.
RowsKnown ==
    /\ session.status = "synced" => session.known
    /\ \A t \in Task : call[t].row.status = "synced" => call[t].row.known

\* An edit that may fail has an attempt to lose.
TriesLeft == \A e \in Edit : edit[e] \in {"new", "write", "try", "markEdit"} => tries[e] >= 1

MessageInv == MarkedIsAccepted /\ TopicIsAccepted /\ SyncedIsAccepted /\ PendingSettles
SessionInv == KnownFromServer /\ RowsKnown
IInv == TypeOK /\ MessageInv /\ SessionInv /\ TriesLeft

-----------------------------------------------------------------------------
(* What the helpers do. *)

\* Where a call can be.
Places == {"new", "session", "message", "rpc", "mark", "markSession", "fail", "failSession", "over"}

\* Where an edit can be.
EditPlaces == {"new", "write", "writeOnly", "unsent", "try", "markEdit", "giveUp", "done",
               "cancelled"}

LEMMA TaskFacts == \A t \in Task : t[1] \in Msg /\ t[2] \in 1..MaxSends /\ t = <<t[1], t[2]>>
BY DEF Task

LEMMA GoToFacts ==
    ASSUME TypeOK, NEW t \in Task, NEW s \in Places, GoTo(t, s)
    PROVE  /\ call' \in [Task -> [pc : Places, row : Row, fresh : BOOLEAN]]
           /\ call'[t].pc = s
           /\ call'[t].row \in {call[t].row, NoRow}
           /\ \A u \in Task : u # t => call'[u] = call[u]
BY DEF TypeOK, GoTo, At, NoRow, Row, Status, Places

LEMMA PutSessionFacts ==
    ASSUME TypeOK, NEW s \in Status, NEW given \in BOOLEAN, PutSession(s, given)
    PROVE  session' \in Row /\ session'.status = s /\ session'.known = (given \/ session.known)
BY DEF TypeOK, PutSession, KeptId, Row

LEMMA PutMessageFacts ==
    ASSUME TypeOK, NEW m \in Msg, NEW s \in Status, PutMessage(m, s)
    PROVE  /\ message' \in [Msg -> Status]
           /\ message'[m] = s
           /\ \A n \in Msg : n # m => message'[n] = message[n]
BY DEF TypeOK, PutMessage

LEMMA StepToFacts ==
    ASSUME TypeOK, NEW e \in Edit, NEW s \in EditPlaces, StepTo(e, s)
    PROVE  /\ edit' \in [Edit -> EditPlaces]
           /\ edit'[e] = s
           /\ \A f \in Edit : f # e => edit'[f] = edit[f]
BY DEF TypeOK, StepTo, EditPlaces

-----------------------------------------------------------------------------

LEMMA TypeStep ==
    ASSUME TypeOK, TriesLeft, [Next]_vars
    PROVE  TypeOK'
<1> USE BoundAssumption
<1>1. ASSUME NEW t \in Task, Send(t) PROVE TypeOK'
  <2>1. session \in Row
    BY DEF TypeOK
  <2>2. At("session", session, session.status = "none")
            \in [pc : Places, row : Row, fresh : BOOLEAN]
    BY <2>1 DEF At, Places
  <2>3. call' \in [Task -> [pc : Places, row : Row, fresh : BOOLEAN]]
    BY <1>1, <2>2 DEF Send, TypeOK, Places
  <2>4. QED
    BY <1>1, <2>3 DEF TypeOK, Places, Send, editVars, worldVars
<1>2. ASSUME NEW t \in Task, WriteSession(t) PROVE TypeOK'
  BY SMTT(30), <1>2, GoToFacts, PutSessionFacts, PutMessageFacts, StepToFacts
  DEF TypeOK, Places, EditPlaces, WriteSession, taskVars, editVars, worldVars, At, Row, Status
<1>3. ASSUME NEW t \in Task, WriteMessage(t) PROVE TypeOK'
  BY <1>3, GoToFacts, PutSessionFacts, PutMessageFacts, StepToFacts
  DEF TypeOK, Places, EditPlaces, WriteMessage, taskVars, editVars, worldVars, Give, NewStatus, Task, Status
<1>4. ASSUME NEW t \in Task, Answer(t) PROVE TypeOK'
  <2>1. call' \in [Task -> [pc : Places, row : Row, fresh : BOOLEAN]]
    BY <1>4, GoToFacts DEF Answer, Places
  <2>2. message' \in [Msg -> Status] /\ session' \in Row
    <3>1. CASE UNCHANGED <<message, session>>
      BY <3>1 DEF TypeOK
    <3>2. CASE PutMessage(t[1], "synced") /\ PutSession("synced", TRUE)
      BY <3>2, TaskFacts, PutSessionFacts, PutMessageFacts DEF Status
    <3>3. QED
      BY <1>4, <3>1, <3>2 DEF Answer
  <2>3. QED
    BY <1>4, <2>1, <2>2 DEF TypeOK, Places, Answer, editVars, worldVars
<1>5. ASSUME NEW t \in Task, NoAnswer(t) PROVE TypeOK'
  BY <1>5, GoToFacts, PutSessionFacts, PutMessageFacts, StepToFacts
  DEF TypeOK, Places, EditPlaces, NoAnswer, taskVars, editVars, worldVars
<1>6. ASSUME NEW t \in Task, MarkMessage(t) PROVE TypeOK'
  BY <1>6, GoToFacts, PutSessionFacts, PutMessageFacts, StepToFacts
  DEF TypeOK, Places, EditPlaces, MarkMessage, taskVars, editVars, worldVars, Give, Task, Status
<1>7. ASSUME NEW t \in Task, MarkSession(t) PROVE TypeOK'
  BY <1>7, GoToFacts, PutSessionFacts, PutMessageFacts, StepToFacts
  DEF TypeOK, Places, EditPlaces, MarkSession, taskVars, editVars, worldVars, Status
<1>8. ASSUME NEW t \in Task, MarkFails(t) PROVE TypeOK'
  BY <1>8, GoToFacts, PutSessionFacts, PutMessageFacts, StepToFacts
  DEF TypeOK, Places, EditPlaces, MarkFails, taskVars, editVars, worldVars, Fault
<1>9. ASSUME NEW t \in Task, FailMessage(t) PROVE TypeOK'
  BY <1>9, GoToFacts, PutSessionFacts, PutMessageFacts, StepToFacts
  DEF TypeOK, Places, EditPlaces, FailMessage, taskVars, editVars, worldVars, Give, Task, Status
<1>10. ASSUME NEW t \in Task, FailMessageFails(t) PROVE TypeOK'
  BY <1>10, GoToFacts, PutSessionFacts, PutMessageFacts, StepToFacts
  DEF TypeOK, Places, EditPlaces, FailMessageFails, taskVars, editVars, worldVars, Give, Fault, Task
<1>11. ASSUME NEW t \in Task, FailSession(t) PROVE TypeOK'
  BY <1>11, GoToFacts, PutSessionFacts, PutMessageFacts, StepToFacts
  DEF TypeOK, Places, EditPlaces, FailSession, taskVars, editVars, worldVars, Status
<1>12. ASSUME NEW m \in Msg, Accept(m) PROVE TypeOK'
  BY <1>12, GoToFacts, PutSessionFacts, PutMessageFacts, StepToFacts
  DEF TypeOK, Places, EditPlaces, Accept, taskVars, editVars, worldVars
<1>13. ASSUME NEW x \in Msg \union {SessionRow}, Deliver(x) PROVE TypeOK'
  BY <1>13, GoToFacts, PutSessionFacts, PutMessageFacts, StepToFacts
  DEF TypeOK, Places, EditPlaces, Deliver, taskVars, editVars, worldVars, Status
<1>14. ASSUME NEW e \in Edit, BeginEdit(e) PROVE TypeOK'
  BY <1>14, GoToFacts, PutSessionFacts, PutMessageFacts, StepToFacts
  DEF TypeOK, Places, EditPlaces, BeginEdit, taskVars, editVars, worldVars
<1>15. ASSUME NEW e \in Edit, WriteEdit(e) PROVE TypeOK'
  BY <1>15, GoToFacts, PutSessionFacts, PutMessageFacts, StepToFacts
  DEF TypeOK, Places, EditPlaces, WriteEdit, taskVars, editVars, worldVars, Status
<1>16. ASSUME NEW e \in Edit, TakeEdit(e) PROVE TypeOK'
  BY <1>16, GoToFacts, PutSessionFacts, PutMessageFacts, StepToFacts
  DEF TypeOK, Places, EditPlaces, TakeEdit, taskVars, editVars, worldVars
<1>17. ASSUME NEW e \in Edit, MarkEdit(e) PROVE TypeOK'
  BY <1>17, GoToFacts, PutSessionFacts, PutMessageFacts, StepToFacts
  DEF TypeOK, Places, EditPlaces, MarkEdit, taskVars, editVars, worldVars, Status
<1>18. ASSUME NEW e \in Edit, AttemptFails(e) PROVE TypeOK'
  BY <1>18, GoToFacts, PutSessionFacts, PutMessageFacts, StepToFacts
  DEF TypeOK, Places, EditPlaces, AttemptFails, taskVars, editVars, worldVars, TriesLeft, TriesAgain
<1>19. ASSUME NEW e \in Edit, GiveUp(e) PROVE TypeOK'
  BY <1>19, GoToFacts, PutSessionFacts, PutMessageFacts, StepToFacts
  DEF TypeOK, Places, EditPlaces, GiveUp, taskVars, editVars, worldVars, Status
<1>20. ASSUME Close PROVE TypeOK'
  BY <1>20, GoToFacts, PutSessionFacts, PutMessageFacts, StepToFacts
  DEF TypeOK, Places, EditPlaces, Close, taskVars, editVars, worldVars, Fault
<1>21. ASSUME Drained PROVE TypeOK'
  BY <1>21, GoToFacts, PutSessionFacts, PutMessageFacts, StepToFacts
  DEF TypeOK, Places, EditPlaces, Drained, taskVars, editVars, worldVars
<1>22. ASSUME Restart PROVE TypeOK'
  BY <1>22, GoToFacts, PutSessionFacts, PutMessageFacts, StepToFacts
  DEF TypeOK, Places, EditPlaces, Restart, taskVars, editVars, worldVars, Fault, At, NoRow, Row, Status, Task
<1>23. CASE UNCHANGED vars
  BY <1>23 DEF TypeOK, vars, taskVars, editVars, worldVars
<1>24. QED
  BY <1>1, <1>2, <1>3, <1>4, <1>5, <1>6, <1>7, <1>8, <1>9, <1>10, <1>11, <1>12, <1>13, <1>14, <1>15, <1>16, <1>17, <1>18, <1>19, <1>20, <1>21, <1>22, <1>23
  DEF Next, Call, Sync, SyncEdit

\* The writes of the session's row, each with what its writer knows.
SessionMoves ==
    \/ session' = session
    \/ PutSession("synced", TRUE) /\ accepted # {}
    \/ PutSession("synced", FALSE) /\ session.known
    \/ PutSession("pending", FALSE) \/ PutSession("failed", FALSE)
    \/ \E t \in Task : \E st \in {"pending", call[t].row.status} : PutSession(st, call[t].row.known)

\* The writes of a message's row.
MessageMoves ==
    \/ message' = message
    \/ \E m \in accepted : PutMessage(m, "synced")
    \/ \E m \in Msg : PutMessage(m, "failed")
    \/ \E t \in Task :
          PutMessage(t[1], "pending") /\ (t[1] \in abandoned' \/ call'[t].pc = "rpc")

\* What a call holds of the row it has read, or has just written.
CopyMoves ==
    \A t \in Task : call'[t].row \in {call[t].row, NoRow, session, session'}

\* A call that settles its message goes on doing so, has done so, or gives up.
CallMoves ==
    \A t \in Task : call[t].pc \in Settling =>
        call'[t].pc \in Settling \/ t[1] \in abandoned' \/ message'[t[1]] # "pending"

\* A message given up is taken up again only by a new request.
GivenUpMoves ==
    \A m \in abandoned : m \in abandoned' \/ \E t \in Task : t[1] = m /\ call'[t].pc = "rpc"


\* A session is only called synced by one who has its id, or gives it.
LEMMA SessionMove ==
    ASSUME TypeOK, MarkedIsAccepted, KnownFromServer, [Next]_vars
    PROVE  SessionMoves
<1> USE DEF TypeOK, Places, EditPlaces, SessionMoves, MarkedIsAccepted, KnownFromServer
<1>1. ASSUME NEW t \in Task, Send(t) PROVE SessionMoves
  BY <1>1, TaskFacts
  DEF Send, taskVars, editVars, worldVars, At, NoRow
<1>2. ASSUME NEW t \in Task, WriteSession(t) PROVE SessionMoves
  BY <1>2, TaskFacts
  DEF WriteSession, taskVars, editVars, worldVars, At
<1>3. ASSUME NEW t \in Task, WriteMessage(t) PROVE SessionMoves
  BY <1>3, TaskFacts
  DEF WriteMessage, taskVars, editVars, worldVars, Give, NewStatus
<1>4. ASSUME NEW t \in Task, Answer(t) PROVE SessionMoves
  BY <1>4, TaskFacts
  DEF Answer, taskVars, editVars, worldVars
<1>5. ASSUME NEW t \in Task, NoAnswer(t) PROVE SessionMoves
  BY <1>5, TaskFacts
  DEF NoAnswer, taskVars, editVars, worldVars
<1>6. ASSUME NEW t \in Task, MarkMessage(t) PROVE SessionMoves
  BY <1>6, TaskFacts
  DEF MarkMessage, taskVars, editVars, worldVars, Give
<1>7. ASSUME NEW t \in Task, MarkSession(t) PROVE SessionMoves
  BY <1>7, TaskFacts
  DEF MarkSession, taskVars, editVars, worldVars
<1>8. ASSUME NEW t \in Task, MarkFails(t) PROVE SessionMoves
  BY <1>8, TaskFacts
  DEF MarkFails, taskVars, editVars, worldVars, Fault
<1>9. ASSUME NEW t \in Task, FailMessage(t) PROVE SessionMoves
  BY <1>9, TaskFacts
  DEF FailMessage, taskVars, editVars, worldVars, Give, Fails
<1>10. ASSUME NEW t \in Task, FailMessageFails(t) PROVE SessionMoves
  BY <1>10, TaskFacts
  DEF FailMessageFails, taskVars, editVars, worldVars, Give, Fault
<1>11. ASSUME NEW t \in Task, FailSession(t) PROVE SessionMoves
  BY <1>11, TaskFacts
  DEF FailSession, taskVars, editVars, worldVars
<1>12. ASSUME NEW m \in Msg, Accept(m) PROVE SessionMoves
  BY <1>12, TaskFacts
  DEF Accept, taskVars, editVars, worldVars
<1>13. ASSUME NEW x \in Msg \union {SessionRow}, Deliver(x) PROVE SessionMoves
  BY <1>13, TaskFacts
  DEF Deliver, taskVars, editVars, worldVars
<1>14. ASSUME NEW e \in Edit, BeginEdit(e) PROVE SessionMoves
  BY <1>14, TaskFacts
  DEF BeginEdit, taskVars, editVars, worldVars
<1>15. ASSUME NEW e \in Edit, WriteEdit(e) PROVE SessionMoves
  BY <1>15, TaskFacts
  DEF WriteEdit, taskVars, editVars, worldVars
<1>16. ASSUME NEW e \in Edit, TakeEdit(e) PROVE SessionMoves
  BY <1>16, TaskFacts
  DEF TakeEdit, taskVars, editVars, worldVars
<1>17. ASSUME NEW e \in Edit, MarkEdit(e) PROVE SessionMoves
  BY <1>17, TaskFacts
  DEF MarkEdit, taskVars, editVars, worldVars
<1>18. ASSUME NEW e \in Edit, AttemptFails(e) PROVE SessionMoves
  BY <1>18, TaskFacts
  DEF AttemptFails, taskVars, editVars, worldVars, TriesAgain
<1>19. ASSUME NEW e \in Edit, GiveUp(e) PROVE SessionMoves
  BY <1>19, TaskFacts
  DEF GiveUp, taskVars, editVars, worldVars
<1>20. ASSUME Close PROVE SessionMoves
  BY <1>20, TaskFacts
  DEF Close, taskVars, editVars, worldVars
<1>21. ASSUME Drained PROVE SessionMoves
  BY <1>21, TaskFacts
  DEF Drained, taskVars, editVars, worldVars
<1>22. ASSUME Restart PROVE SessionMoves
  BY <1>22, TaskFacts
  DEF Restart, taskVars, editVars, worldVars, At, NoRow, Busy
<1>23. CASE UNCHANGED vars
  BY <1>23 DEF vars, taskVars, editVars, worldVars
<1>24. QED
  BY <1>1, <1>2, <1>3, <1>4, <1>5, <1>6, <1>7, <1>8, <1>9, <1>10, <1>11, <1>12, <1>13, <1>14, <1>15, <1>16, <1>17, <1>18, <1>19, <1>20, <1>21, <1>22, <1>23
  DEF Next, Call, Sync, SyncEdit

\* A message is only called delivered when it was taken, and pending when it will be settled.
LEMMA MessageMove ==
    ASSUME TypeOK, MarkedIsAccepted, TopicIsAccepted, [Next]_vars
    PROVE  MessageMoves
<1> USE DEF TypeOK, Places, EditPlaces, MessageMoves, MarkedIsAccepted, TopicIsAccepted
<1>1. ASSUME NEW t \in Task, Send(t) PROVE MessageMoves
  BY <1>1, TaskFacts, GoToFacts
  DEF Send, taskVars, editVars, worldVars, At, NoRow
<1>2. ASSUME NEW t \in Task, WriteSession(t) PROVE MessageMoves
  BY <1>2, TaskFacts, GoToFacts
  DEF WriteSession, taskVars, editVars, worldVars, At
<1>3. ASSUME NEW t \in Task, WriteMessage(t) PROVE MessageMoves
  BY <1>3, TaskFacts, GoToFacts
  DEF WriteMessage, taskVars, editVars, worldVars, Give, NewStatus
<1>4. ASSUME NEW t \in Task, Answer(t) PROVE MessageMoves
  BY <1>4, TaskFacts, GoToFacts
  DEF Answer, taskVars, editVars, worldVars
<1>5. ASSUME NEW t \in Task, NoAnswer(t) PROVE MessageMoves
  BY <1>5, TaskFacts, GoToFacts
  DEF NoAnswer, taskVars, editVars, worldVars
<1>6. ASSUME NEW t \in Task, MarkMessage(t) PROVE MessageMoves
  BY <1>6, TaskFacts, GoToFacts
  DEF MarkMessage, taskVars, editVars, worldVars, Give
<1>7. ASSUME NEW t \in Task, MarkSession(t) PROVE MessageMoves
  BY <1>7, TaskFacts, GoToFacts
  DEF MarkSession, taskVars, editVars, worldVars
<1>8. ASSUME NEW t \in Task, MarkFails(t) PROVE MessageMoves
  BY <1>8, TaskFacts, GoToFacts
  DEF MarkFails, taskVars, editVars, worldVars, Fault
<1>9. ASSUME NEW t \in Task, FailMessage(t) PROVE MessageMoves
  BY <1>9, TaskFacts, GoToFacts
  DEF FailMessage, taskVars, editVars, worldVars, Give, Fails
<1>10. ASSUME NEW t \in Task, FailMessageFails(t) PROVE MessageMoves
  BY <1>10, TaskFacts, GoToFacts
  DEF FailMessageFails, taskVars, editVars, worldVars, Give, Fault
<1>11. ASSUME NEW t \in Task, FailSession(t) PROVE MessageMoves
  BY <1>11, TaskFacts, GoToFacts
  DEF FailSession, taskVars, editVars, worldVars
<1>12. ASSUME NEW m \in Msg, Accept(m) PROVE MessageMoves
  BY <1>12, TaskFacts, GoToFacts
  DEF Accept, taskVars, editVars, worldVars
<1>13. ASSUME NEW x \in Msg \union {SessionRow}, Deliver(x) PROVE MessageMoves
  BY <1>13, TaskFacts, GoToFacts
  DEF Deliver, taskVars, editVars, worldVars
<1>14. ASSUME NEW e \in Edit, BeginEdit(e) PROVE MessageMoves
  BY <1>14, TaskFacts, GoToFacts
  DEF BeginEdit, taskVars, editVars, worldVars
<1>15. ASSUME NEW e \in Edit, WriteEdit(e) PROVE MessageMoves
  BY <1>15, TaskFacts, GoToFacts
  DEF WriteEdit, taskVars, editVars, worldVars
<1>16. ASSUME NEW e \in Edit, TakeEdit(e) PROVE MessageMoves
  BY <1>16, TaskFacts, GoToFacts
  DEF TakeEdit, taskVars, editVars, worldVars
<1>17. ASSUME NEW e \in Edit, MarkEdit(e) PROVE MessageMoves
  BY <1>17, TaskFacts, GoToFacts
  DEF MarkEdit, taskVars, editVars, worldVars
<1>18. ASSUME NEW e \in Edit, AttemptFails(e) PROVE MessageMoves
  BY <1>18, TaskFacts, GoToFacts
  DEF AttemptFails, taskVars, editVars, worldVars, TriesAgain
<1>19. ASSUME NEW e \in Edit, GiveUp(e) PROVE MessageMoves
  BY <1>19, TaskFacts, GoToFacts
  DEF GiveUp, taskVars, editVars, worldVars
<1>20. ASSUME Close PROVE MessageMoves
  BY <1>20, TaskFacts, GoToFacts
  DEF Close, taskVars, editVars, worldVars
<1>21. ASSUME Drained PROVE MessageMoves
  BY <1>21, TaskFacts, GoToFacts
  DEF Drained, taskVars, editVars, worldVars
<1>22. ASSUME Restart PROVE MessageMoves
  BY <1>22, TaskFacts, GoToFacts
  DEF Restart, taskVars, editVars, worldVars, At, NoRow, Busy
<1>23. CASE UNCHANGED vars
  BY <1>23 DEF vars, taskVars, editVars, worldVars
<1>24. QED
  BY <1>1, <1>2, <1>3, <1>4, <1>5, <1>6, <1>7, <1>8, <1>9, <1>10, <1>11, <1>12, <1>13, <1>14, <1>15, <1>16, <1>17, <1>18, <1>19, <1>20, <1>21, <1>22, <1>23
  DEF Next, Call, Sync, SyncEdit

\* Calls learn of the row by reading it or by writing it.
LEMMA CopyMove ==
    ASSUME TypeOK, [Next]_vars
    PROVE  CopyMoves
<1> USE DEF TypeOK, Places, EditPlaces, CopyMoves
<1>1. ASSUME NEW t \in Task, Send(t) PROVE CopyMoves
  BY <1>1, TaskFacts, GoToFacts
  DEF Send, taskVars, editVars, worldVars, At, NoRow
<1>2. ASSUME NEW t \in Task, WriteSession(t) PROVE CopyMoves
  BY <1>2, TaskFacts, GoToFacts
  DEF WriteSession, taskVars, editVars, worldVars, At
<1>3. ASSUME NEW t \in Task, WriteMessage(t) PROVE CopyMoves
  BY <1>3, TaskFacts, GoToFacts
  DEF WriteMessage, taskVars, editVars, worldVars, Give, NewStatus
<1>4. ASSUME NEW t \in Task, Answer(t) PROVE CopyMoves
  BY <1>4, TaskFacts, GoToFacts
  DEF Answer, taskVars, editVars, worldVars
<1>5. ASSUME NEW t \in Task, NoAnswer(t) PROVE CopyMoves
  BY <1>5, TaskFacts, GoToFacts
  DEF NoAnswer, taskVars, editVars, worldVars
<1>6. ASSUME NEW t \in Task, MarkMessage(t) PROVE CopyMoves
  BY <1>6, TaskFacts, GoToFacts
  DEF MarkMessage, taskVars, editVars, worldVars, Give
<1>7. ASSUME NEW t \in Task, MarkSession(t) PROVE CopyMoves
  BY <1>7, TaskFacts, GoToFacts
  DEF MarkSession, taskVars, editVars, worldVars
<1>8. ASSUME NEW t \in Task, MarkFails(t) PROVE CopyMoves
  BY <1>8, TaskFacts, GoToFacts
  DEF MarkFails, taskVars, editVars, worldVars, Fault
<1>9. ASSUME NEW t \in Task, FailMessage(t) PROVE CopyMoves
  BY <1>9, TaskFacts, GoToFacts
  DEF FailMessage, taskVars, editVars, worldVars, Give, Fails
<1>10. ASSUME NEW t \in Task, FailMessageFails(t) PROVE CopyMoves
  BY <1>10, TaskFacts, GoToFacts
  DEF FailMessageFails, taskVars, editVars, worldVars, Give, Fault
<1>11. ASSUME NEW t \in Task, FailSession(t) PROVE CopyMoves
  BY <1>11, TaskFacts, GoToFacts
  DEF FailSession, taskVars, editVars, worldVars
<1>12. ASSUME NEW m \in Msg, Accept(m) PROVE CopyMoves
  BY <1>12, TaskFacts, GoToFacts
  DEF Accept, taskVars, editVars, worldVars
<1>13. ASSUME NEW x \in Msg \union {SessionRow}, Deliver(x) PROVE CopyMoves
  BY <1>13, TaskFacts, GoToFacts
  DEF Deliver, taskVars, editVars, worldVars
<1>14. ASSUME NEW e \in Edit, BeginEdit(e) PROVE CopyMoves
  BY <1>14, TaskFacts, GoToFacts
  DEF BeginEdit, taskVars, editVars, worldVars
<1>15. ASSUME NEW e \in Edit, WriteEdit(e) PROVE CopyMoves
  BY <1>15, TaskFacts, GoToFacts
  DEF WriteEdit, taskVars, editVars, worldVars
<1>16. ASSUME NEW e \in Edit, TakeEdit(e) PROVE CopyMoves
  BY <1>16, TaskFacts, GoToFacts
  DEF TakeEdit, taskVars, editVars, worldVars
<1>17. ASSUME NEW e \in Edit, MarkEdit(e) PROVE CopyMoves
  BY <1>17, TaskFacts, GoToFacts
  DEF MarkEdit, taskVars, editVars, worldVars
<1>18. ASSUME NEW e \in Edit, AttemptFails(e) PROVE CopyMoves
  BY <1>18, TaskFacts, GoToFacts
  DEF AttemptFails, taskVars, editVars, worldVars, TriesAgain
<1>19. ASSUME NEW e \in Edit, GiveUp(e) PROVE CopyMoves
  BY <1>19, TaskFacts, GoToFacts
  DEF GiveUp, taskVars, editVars, worldVars
<1>20. ASSUME Close PROVE CopyMoves
  BY <1>20, TaskFacts, GoToFacts
  DEF Close, taskVars, editVars, worldVars
<1>21. ASSUME Drained PROVE CopyMoves
  BY <1>21, TaskFacts, GoToFacts
  DEF Drained, taskVars, editVars, worldVars
<1>22. ASSUME Restart PROVE CopyMoves
  BY <1>22, TaskFacts, GoToFacts
  DEF Restart, taskVars, editVars, worldVars, At, NoRow, Busy
<1>23. CASE UNCHANGED vars
  BY <1>23 DEF vars, taskVars, editVars, worldVars
<1>24. QED
  BY <1>1, <1>2, <1>3, <1>4, <1>5, <1>6, <1>7, <1>8, <1>9, <1>10, <1>11, <1>12, <1>13, <1>14, <1>15, <1>16, <1>17, <1>18, <1>19, <1>20, <1>21, <1>22, <1>23
  DEF Next, Call, Sync, SyncEdit

\* No call stops in the middle without a trace.
LEMMA CallMove ==
    ASSUME TypeOK, [Next]_vars
    PROVE  CallMoves
<1> USE DEF TypeOK, Status, Places, EditPlaces, CallMoves, Settling
<1>1. ASSUME NEW t \in Task, Send(t) PROVE CallMoves
  BY <1>1, TaskFacts, GoToFacts, PutMessageFacts
  DEF Send, taskVars, editVars, worldVars, At, NoRow
<1>2. ASSUME NEW t \in Task, WriteSession(t) PROVE CallMoves
  BY <1>2, TaskFacts, GoToFacts, PutMessageFacts
  DEF WriteSession, taskVars, editVars, worldVars, At
<1>3. ASSUME NEW t \in Task, WriteMessage(t) PROVE CallMoves
  BY <1>3, TaskFacts, GoToFacts, PutMessageFacts
  DEF WriteMessage, taskVars, editVars, worldVars, Give, NewStatus
<1>4. ASSUME NEW t \in Task, Answer(t) PROVE CallMoves
  BY <1>4, TaskFacts, GoToFacts, PutMessageFacts
  DEF Answer, taskVars, editVars, worldVars
<1>5. ASSUME NEW t \in Task, NoAnswer(t) PROVE CallMoves
  BY <1>5, TaskFacts, GoToFacts, PutMessageFacts
  DEF NoAnswer, taskVars, editVars, worldVars
<1>6. ASSUME NEW t \in Task, MarkMessage(t) PROVE CallMoves
  BY <1>6, TaskFacts, GoToFacts, PutMessageFacts
  DEF MarkMessage, taskVars, editVars, worldVars, Give
<1>7. ASSUME NEW t \in Task, MarkSession(t) PROVE CallMoves
  BY <1>7, TaskFacts, GoToFacts, PutMessageFacts
  DEF MarkSession, taskVars, editVars, worldVars
<1>8. ASSUME NEW t \in Task, MarkFails(t) PROVE CallMoves
  BY <1>8, TaskFacts, GoToFacts, PutMessageFacts
  DEF MarkFails, taskVars, editVars, worldVars, Fault
<1>9. ASSUME NEW t \in Task, FailMessage(t) PROVE CallMoves
  BY <1>9, TaskFacts, GoToFacts, PutMessageFacts
  DEF FailMessage, taskVars, editVars, worldVars, Give, Fails
<1>10. ASSUME NEW t \in Task, FailMessageFails(t) PROVE CallMoves
  BY <1>10, TaskFacts, GoToFacts, PutMessageFacts
  DEF FailMessageFails, taskVars, editVars, worldVars, Give, Fault
<1>11. ASSUME NEW t \in Task, FailSession(t) PROVE CallMoves
  BY <1>11, TaskFacts, GoToFacts, PutMessageFacts
  DEF FailSession, taskVars, editVars, worldVars
<1>12. ASSUME NEW m \in Msg, Accept(m) PROVE CallMoves
  BY <1>12, TaskFacts, GoToFacts, PutMessageFacts
  DEF Accept, taskVars, editVars, worldVars
<1>13. ASSUME NEW x \in Msg \union {SessionRow}, Deliver(x) PROVE CallMoves
  BY <1>13, TaskFacts, GoToFacts, PutMessageFacts
  DEF Deliver, taskVars, editVars, worldVars
<1>14. ASSUME NEW e \in Edit, BeginEdit(e) PROVE CallMoves
  BY <1>14, TaskFacts, GoToFacts, PutMessageFacts
  DEF BeginEdit, taskVars, editVars, worldVars
<1>15. ASSUME NEW e \in Edit, WriteEdit(e) PROVE CallMoves
  BY <1>15, TaskFacts, GoToFacts, PutMessageFacts
  DEF WriteEdit, taskVars, editVars, worldVars
<1>16. ASSUME NEW e \in Edit, TakeEdit(e) PROVE CallMoves
  BY <1>16, TaskFacts, GoToFacts, PutMessageFacts
  DEF TakeEdit, taskVars, editVars, worldVars
<1>17. ASSUME NEW e \in Edit, MarkEdit(e) PROVE CallMoves
  BY <1>17, TaskFacts, GoToFacts, PutMessageFacts
  DEF MarkEdit, taskVars, editVars, worldVars
<1>18. ASSUME NEW e \in Edit, AttemptFails(e) PROVE CallMoves
  BY <1>18, TaskFacts, GoToFacts, PutMessageFacts
  DEF AttemptFails, taskVars, editVars, worldVars, TriesAgain
<1>19. ASSUME NEW e \in Edit, GiveUp(e) PROVE CallMoves
  BY <1>19, TaskFacts, GoToFacts, PutMessageFacts
  DEF GiveUp, taskVars, editVars, worldVars
<1>20. ASSUME Close PROVE CallMoves
  BY <1>20, TaskFacts, GoToFacts, PutMessageFacts
  DEF Close, taskVars, editVars, worldVars
<1>21. ASSUME Drained PROVE CallMoves
  BY <1>21, TaskFacts, GoToFacts, PutMessageFacts
  DEF Drained, taskVars, editVars, worldVars
<1>22. ASSUME Restart PROVE CallMoves
  BY <1>22, TaskFacts, GoToFacts, PutMessageFacts
  DEF Restart, taskVars, editVars, worldVars, At, NoRow, Busy
<1>23. CASE UNCHANGED vars
  BY <1>23 DEF vars, taskVars, editVars, worldVars
<1>24. QED
  BY <1>1, <1>2, <1>3, <1>4, <1>5, <1>6, <1>7, <1>8, <1>9, <1>10, <1>11, <1>12, <1>13, <1>14, <1>15, <1>16, <1>17, <1>18, <1>19, <1>20, <1>21, <1>22, <1>23
  DEF Next, Call, Sync, SyncEdit

\* Only a new request takes a message up again.
LEMMA GivenUpMove ==
    ASSUME TypeOK, [Next]_vars
    PROVE  GivenUpMoves
<1> USE DEF TypeOK, Places, EditPlaces, GivenUpMoves
<1>1. ASSUME NEW t \in Task, Send(t) PROVE GivenUpMoves
  BY <1>1, TaskFacts, GoToFacts
  DEF Send, taskVars, editVars, worldVars, At, NoRow
<1>2. ASSUME NEW t \in Task, WriteSession(t) PROVE GivenUpMoves
  BY <1>2, TaskFacts, GoToFacts
  DEF WriteSession, taskVars, editVars, worldVars, At
<1>3. ASSUME NEW t \in Task, WriteMessage(t) PROVE GivenUpMoves
  BY <1>3, TaskFacts, GoToFacts
  DEF WriteMessage, taskVars, editVars, worldVars, Give, NewStatus
<1>4. ASSUME NEW t \in Task, Answer(t) PROVE GivenUpMoves
  BY <1>4, TaskFacts, GoToFacts
  DEF Answer, taskVars, editVars, worldVars
<1>5. ASSUME NEW t \in Task, NoAnswer(t) PROVE GivenUpMoves
  BY <1>5, TaskFacts, GoToFacts
  DEF NoAnswer, taskVars, editVars, worldVars
<1>6. ASSUME NEW t \in Task, MarkMessage(t) PROVE GivenUpMoves
  BY <1>6, TaskFacts, GoToFacts
  DEF MarkMessage, taskVars, editVars, worldVars, Give
<1>7. ASSUME NEW t \in Task, MarkSession(t) PROVE GivenUpMoves
  BY <1>7, TaskFacts, GoToFacts
  DEF MarkSession, taskVars, editVars, worldVars
<1>8. ASSUME NEW t \in Task, MarkFails(t) PROVE GivenUpMoves
  BY <1>8, TaskFacts, GoToFacts
  DEF MarkFails, taskVars, editVars, worldVars, Fault
<1>9. ASSUME NEW t \in Task, FailMessage(t) PROVE GivenUpMoves
  BY <1>9, TaskFacts, GoToFacts
  DEF FailMessage, taskVars, editVars, worldVars, Give, Fails
<1>10. ASSUME NEW t \in Task, FailMessageFails(t) PROVE GivenUpMoves
  BY <1>10, TaskFacts, GoToFacts
  DEF FailMessageFails, taskVars, editVars, worldVars, Give, Fault
<1>11. ASSUME NEW t \in Task, FailSession(t) PROVE GivenUpMoves
  BY <1>11, TaskFacts, GoToFacts
  DEF FailSession, taskVars, editVars, worldVars
<1>12. ASSUME NEW m \in Msg, Accept(m) PROVE GivenUpMoves
  BY <1>12, TaskFacts, GoToFacts
  DEF Accept, taskVars, editVars, worldVars
<1>13. ASSUME NEW x \in Msg \union {SessionRow}, Deliver(x) PROVE GivenUpMoves
  BY <1>13, TaskFacts, GoToFacts
  DEF Deliver, taskVars, editVars, worldVars
<1>14. ASSUME NEW e \in Edit, BeginEdit(e) PROVE GivenUpMoves
  BY <1>14, TaskFacts, GoToFacts
  DEF BeginEdit, taskVars, editVars, worldVars
<1>15. ASSUME NEW e \in Edit, WriteEdit(e) PROVE GivenUpMoves
  BY <1>15, TaskFacts, GoToFacts
  DEF WriteEdit, taskVars, editVars, worldVars
<1>16. ASSUME NEW e \in Edit, TakeEdit(e) PROVE GivenUpMoves
  BY <1>16, TaskFacts, GoToFacts
  DEF TakeEdit, taskVars, editVars, worldVars
<1>17. ASSUME NEW e \in Edit, MarkEdit(e) PROVE GivenUpMoves
  BY <1>17, TaskFacts, GoToFacts
  DEF MarkEdit, taskVars, editVars, worldVars
<1>18. ASSUME NEW e \in Edit, AttemptFails(e) PROVE GivenUpMoves
  BY <1>18, TaskFacts, GoToFacts
  DEF AttemptFails, taskVars, editVars, worldVars, TriesAgain
<1>19. ASSUME NEW e \in Edit, GiveUp(e) PROVE GivenUpMoves
  BY <1>19, TaskFacts, GoToFacts
  DEF GiveUp, taskVars, editVars, worldVars
<1>20. ASSUME Close PROVE GivenUpMoves
  BY <1>20, TaskFacts, GoToFacts
  DEF Close, taskVars, editVars, worldVars
<1>21. ASSUME Drained PROVE GivenUpMoves
  BY <1>21, TaskFacts, GoToFacts
  DEF Drained, taskVars, editVars, worldVars
<1>22. ASSUME Restart PROVE GivenUpMoves
  BY <1>22, TaskFacts, GoToFacts
  DEF Restart, taskVars, editVars, worldVars, At, NoRow, Busy
<1>23. CASE UNCHANGED vars
  BY <1>23 DEF vars, taskVars, editVars, worldVars
<1>24. QED
  BY <1>1, <1>2, <1>3, <1>4, <1>5, <1>6, <1>7, <1>8, <1>9, <1>10, <1>11, <1>12, <1>13, <1>14, <1>15, <1>16, <1>17, <1>18, <1>19, <1>20, <1>21, <1>22, <1>23
  DEF Next, Call, Sync, SyncEdit

\* The server forgets nothing, and publishes what messages and edits made it change.
ServerMoves ==
    /\ accepted \subseteq accepted'
    /\ topic' # {} => accepted' # {} \/ topic # {} \/ \E e \in Edit : edit[e] = "try"
    /\ \A e \in Edit : edit'[e] \in {"write", "try", "markEdit"} =>
          session.known \/ edit[e] \in {"write", "try", "markEdit"}


\* What reaches the server comes from a message or from an edit of a session it knows.
LEMMA ServerMove ==
    ASSUME TypeOK, [Next]_vars
    PROVE  ServerMoves
<1> USE DEF TypeOK, Places, EditPlaces, ServerMoves
<1>1. ASSUME NEW t \in Task, Send(t) PROVE ServerMoves
  BY <1>1, TaskFacts, StepToFacts
  DEF Send, taskVars, editVars, worldVars, At, NoRow
<1>2. ASSUME NEW t \in Task, WriteSession(t) PROVE ServerMoves
  BY <1>2, TaskFacts, StepToFacts
  DEF WriteSession, taskVars, editVars, worldVars, At
<1>3. ASSUME NEW t \in Task, WriteMessage(t) PROVE ServerMoves
  BY <1>3, TaskFacts, StepToFacts
  DEF WriteMessage, taskVars, editVars, worldVars, Give, NewStatus
<1>4. ASSUME NEW t \in Task, Answer(t) PROVE ServerMoves
  BY <1>4, TaskFacts, StepToFacts
  DEF Answer, taskVars, editVars, worldVars
<1>5. ASSUME NEW t \in Task, NoAnswer(t) PROVE ServerMoves
  BY <1>5, TaskFacts, StepToFacts
  DEF NoAnswer, taskVars, editVars, worldVars
<1>6. ASSUME NEW t \in Task, MarkMessage(t) PROVE ServerMoves
  BY <1>6, TaskFacts, StepToFacts
  DEF MarkMessage, taskVars, editVars, worldVars, Give
<1>7. ASSUME NEW t \in Task, MarkSession(t) PROVE ServerMoves
  BY <1>7, TaskFacts, StepToFacts
  DEF MarkSession, taskVars, editVars, worldVars
<1>8. ASSUME NEW t \in Task, MarkFails(t) PROVE ServerMoves
  BY <1>8, TaskFacts, StepToFacts
  DEF MarkFails, taskVars, editVars, worldVars, Fault
<1>9. ASSUME NEW t \in Task, FailMessage(t) PROVE ServerMoves
  BY <1>9, TaskFacts, StepToFacts
  DEF FailMessage, taskVars, editVars, worldVars, Give, Fails
<1>10. ASSUME NEW t \in Task, FailMessageFails(t) PROVE ServerMoves
  BY <1>10, TaskFacts, StepToFacts
  DEF FailMessageFails, taskVars, editVars, worldVars, Give, Fault
<1>11. ASSUME NEW t \in Task, FailSession(t) PROVE ServerMoves
  BY <1>11, TaskFacts, StepToFacts
  DEF FailSession, taskVars, editVars, worldVars
<1>12. ASSUME NEW m \in Msg, Accept(m) PROVE ServerMoves
  BY <1>12, TaskFacts, StepToFacts
  DEF Accept, taskVars, editVars, worldVars
<1>13. ASSUME NEW x \in Msg \union {SessionRow}, Deliver(x) PROVE ServerMoves
  BY <1>13, TaskFacts, StepToFacts
  DEF Deliver, taskVars, editVars, worldVars
<1>14. ASSUME NEW e \in Edit, BeginEdit(e) PROVE ServerMoves
  BY <1>14, TaskFacts, StepToFacts
  DEF BeginEdit, taskVars, editVars, worldVars
<1>15. ASSUME NEW e \in Edit, WriteEdit(e) PROVE ServerMoves
  BY <1>15, TaskFacts, StepToFacts
  DEF WriteEdit, taskVars, editVars, worldVars
<1>16. ASSUME NEW e \in Edit, TakeEdit(e) PROVE ServerMoves
  BY <1>16, TaskFacts, StepToFacts
  DEF TakeEdit, taskVars, editVars, worldVars
<1>17. ASSUME NEW e \in Edit, MarkEdit(e) PROVE ServerMoves
  BY <1>17, TaskFacts, StepToFacts
  DEF MarkEdit, taskVars, editVars, worldVars
<1>18. ASSUME NEW e \in Edit, AttemptFails(e) PROVE ServerMoves
  BY <1>18, TaskFacts, StepToFacts
  DEF AttemptFails, taskVars, editVars, worldVars, TriesAgain
<1>19. ASSUME NEW e \in Edit, GiveUp(e) PROVE ServerMoves
  BY <1>19, TaskFacts, StepToFacts
  DEF GiveUp, taskVars, editVars, worldVars
<1>20. ASSUME Close PROVE ServerMoves
  BY <1>20, TaskFacts, StepToFacts
  DEF Close, taskVars, editVars, worldVars
<1>21. ASSUME Drained PROVE ServerMoves
  BY <1>21, TaskFacts, StepToFacts
  DEF Drained, taskVars, editVars, worldVars
<1>22. ASSUME Restart PROVE ServerMoves
  BY <1>22, TaskFacts, StepToFacts
  DEF Restart, taskVars, editVars, worldVars, At, NoRow, Busy
<1>23. CASE UNCHANGED vars
  BY <1>23 DEF vars, taskVars, editVars, worldVars
<1>24. QED
  BY <1>1, <1>2, <1>3, <1>4, <1>5, <1>6, <1>7, <1>8, <1>9, <1>10, <1>11, <1>12, <1>13, <1>14, <1>15, <1>16, <1>17, <1>18, <1>19, <1>20, <1>21, <1>22, <1>23
  DEF Next, Call, Sync, SyncEdit

\* A call marks its message when the answer has come.
LEMMA MarkedStep ==
    ASSUME TypeOK, MarkedIsAccepted, [Next]_vars
    PROVE  MarkedIsAccepted'
<1> USE DEF TypeOK, Places, EditPlaces, MarkedIsAccepted
<1>1. ASSUME NEW t \in Task, Send(t) PROVE MarkedIsAccepted'
  BY <1>1, TaskFacts, GoToFacts
  DEF Send, taskVars, editVars, worldVars, At, NoRow
<1>2. ASSUME NEW t \in Task, WriteSession(t) PROVE MarkedIsAccepted'
  BY <1>2, TaskFacts, GoToFacts
  DEF WriteSession, taskVars, editVars, worldVars, At
<1>3. ASSUME NEW t \in Task, WriteMessage(t) PROVE MarkedIsAccepted'
  BY <1>3, TaskFacts, GoToFacts
  DEF WriteMessage, taskVars, editVars, worldVars, Give, NewStatus
<1>4. ASSUME NEW t \in Task, Answer(t) PROVE MarkedIsAccepted'
  BY <1>4, TaskFacts, GoToFacts
  DEF Answer, taskVars, editVars, worldVars
<1>5. ASSUME NEW t \in Task, NoAnswer(t) PROVE MarkedIsAccepted'
  BY <1>5, TaskFacts, GoToFacts
  DEF NoAnswer, taskVars, editVars, worldVars
<1>6. ASSUME NEW t \in Task, MarkMessage(t) PROVE MarkedIsAccepted'
  BY <1>6, TaskFacts, GoToFacts
  DEF MarkMessage, taskVars, editVars, worldVars, Give
<1>7. ASSUME NEW t \in Task, MarkSession(t) PROVE MarkedIsAccepted'
  BY <1>7, TaskFacts, GoToFacts
  DEF MarkSession, taskVars, editVars, worldVars
<1>8. ASSUME NEW t \in Task, MarkFails(t) PROVE MarkedIsAccepted'
  BY <1>8, TaskFacts, GoToFacts
  DEF MarkFails, taskVars, editVars, worldVars, Fault
<1>9. ASSUME NEW t \in Task, FailMessage(t) PROVE MarkedIsAccepted'
  BY <1>9, TaskFacts, GoToFacts
  DEF FailMessage, taskVars, editVars, worldVars, Give, Fails
<1>10. ASSUME NEW t \in Task, FailMessageFails(t) PROVE MarkedIsAccepted'
  BY <1>10, TaskFacts, GoToFacts
  DEF FailMessageFails, taskVars, editVars, worldVars, Give, Fault
<1>11. ASSUME NEW t \in Task, FailSession(t) PROVE MarkedIsAccepted'
  BY <1>11, TaskFacts, GoToFacts
  DEF FailSession, taskVars, editVars, worldVars
<1>12. ASSUME NEW m \in Msg, Accept(m) PROVE MarkedIsAccepted'
  BY <1>12, TaskFacts, GoToFacts
  DEF Accept, taskVars, editVars, worldVars
<1>13. ASSUME NEW x \in Msg \union {SessionRow}, Deliver(x) PROVE MarkedIsAccepted'
  BY <1>13, TaskFacts, GoToFacts
  DEF Deliver, taskVars, editVars, worldVars
<1>14. ASSUME NEW e \in Edit, BeginEdit(e) PROVE MarkedIsAccepted'
  BY <1>14, TaskFacts, GoToFacts
  DEF BeginEdit, taskVars, editVars, worldVars
<1>15. ASSUME NEW e \in Edit, WriteEdit(e) PROVE MarkedIsAccepted'
  BY <1>15, TaskFacts, GoToFacts
  DEF WriteEdit, taskVars, editVars, worldVars
<1>16. ASSUME NEW e \in Edit, TakeEdit(e) PROVE MarkedIsAccepted'
  BY <1>16, TaskFacts, GoToFacts
  DEF TakeEdit, taskVars, editVars, worldVars
<1>17. ASSUME NEW e \in Edit, MarkEdit(e) PROVE MarkedIsAccepted'
  BY <1>17, TaskFacts, GoToFacts
  DEF MarkEdit, taskVars, editVars, worldVars
<1>18. ASSUME NEW e \in Edit, AttemptFails(e) PROVE MarkedIsAccepted'
  BY <1>18, TaskFacts, GoToFacts
  DEF AttemptFails, taskVars, editVars, worldVars, TriesAgain
<1>19. ASSUME NEW e \in Edit, GiveUp(e) PROVE MarkedIsAccepted'
  BY <1>19, TaskFacts, GoToFacts
  DEF GiveUp, taskVars, editVars, worldVars
<1>20. ASSUME Close PROVE MarkedIsAccepted'
  BY <1>20, TaskFacts, GoToFacts
  DEF Close, taskVars, editVars, worldVars
<1>21. ASSUME Drained PROVE MarkedIsAccepted'
  BY <1>21, TaskFacts, GoToFacts
  DEF Drained, taskVars, editVars, worldVars
<1>22. ASSUME Restart PROVE MarkedIsAccepted'
  BY <1>22, TaskFacts, GoToFacts
  DEF Restart, taskVars, editVars, worldVars, At, NoRow, Busy
<1>23. CASE UNCHANGED vars
  BY <1>23 DEF vars, taskVars, editVars, worldVars
<1>24. QED
  BY <1>1, <1>2, <1>3, <1>4, <1>5, <1>6, <1>7, <1>8, <1>9, <1>10, <1>11, <1>12, <1>13, <1>14, <1>15, <1>16, <1>17, <1>18, <1>19, <1>20, <1>21, <1>22, <1>23
  DEF Next, Call, Sync, SyncEdit

\* The server publishes a message it has taken.
LEMMA TopicStep ==
    ASSUME TypeOK, TopicIsAccepted, [Next]_vars
    PROVE  TopicIsAccepted'
<1> USE DEF TypeOK, Places, EditPlaces, TopicIsAccepted
<1>1. ASSUME NEW t \in Task, Send(t) PROVE TopicIsAccepted'
  BY <1>1, TaskFacts
  DEF Send, taskVars, editVars, worldVars, At, NoRow
<1>2. ASSUME NEW t \in Task, WriteSession(t) PROVE TopicIsAccepted'
  BY <1>2, TaskFacts
  DEF WriteSession, taskVars, editVars, worldVars, At
<1>3. ASSUME NEW t \in Task, WriteMessage(t) PROVE TopicIsAccepted'
  BY <1>3, TaskFacts
  DEF WriteMessage, taskVars, editVars, worldVars, Give, NewStatus
<1>4. ASSUME NEW t \in Task, Answer(t) PROVE TopicIsAccepted'
  BY <1>4, TaskFacts
  DEF Answer, taskVars, editVars, worldVars
<1>5. ASSUME NEW t \in Task, NoAnswer(t) PROVE TopicIsAccepted'
  BY <1>5, TaskFacts
  DEF NoAnswer, taskVars, editVars, worldVars
<1>6. ASSUME NEW t \in Task, MarkMessage(t) PROVE TopicIsAccepted'
  BY <1>6, TaskFacts
  DEF MarkMessage, taskVars, editVars, worldVars, Give
<1>7. ASSUME NEW t \in Task, MarkSession(t) PROVE TopicIsAccepted'
  BY <1>7, TaskFacts
  DEF MarkSession, taskVars, editVars, worldVars
<1>8. ASSUME NEW t \in Task, MarkFails(t) PROVE TopicIsAccepted'
  BY <1>8, TaskFacts
  DEF MarkFails, taskVars, editVars, worldVars, Fault
<1>9. ASSUME NEW t \in Task, FailMessage(t) PROVE TopicIsAccepted'
  BY <1>9, TaskFacts
  DEF FailMessage, taskVars, editVars, worldVars, Give, Fails
<1>10. ASSUME NEW t \in Task, FailMessageFails(t) PROVE TopicIsAccepted'
  BY <1>10, TaskFacts
  DEF FailMessageFails, taskVars, editVars, worldVars, Give, Fault
<1>11. ASSUME NEW t \in Task, FailSession(t) PROVE TopicIsAccepted'
  BY <1>11, TaskFacts
  DEF FailSession, taskVars, editVars, worldVars
<1>12. ASSUME NEW m \in Msg, Accept(m) PROVE TopicIsAccepted'
  BY <1>12, TaskFacts
  DEF Accept, taskVars, editVars, worldVars
<1>13. ASSUME NEW x \in Msg \union {SessionRow}, Deliver(x) PROVE TopicIsAccepted'
  BY <1>13, TaskFacts
  DEF Deliver, taskVars, editVars, worldVars
<1>14. ASSUME NEW e \in Edit, BeginEdit(e) PROVE TopicIsAccepted'
  BY <1>14, TaskFacts
  DEF BeginEdit, taskVars, editVars, worldVars
<1>15. ASSUME NEW e \in Edit, WriteEdit(e) PROVE TopicIsAccepted'
  BY <1>15, TaskFacts
  DEF WriteEdit, taskVars, editVars, worldVars
<1>16. ASSUME NEW e \in Edit, TakeEdit(e) PROVE TopicIsAccepted'
  BY <1>16, TaskFacts
  DEF TakeEdit, taskVars, editVars, worldVars
<1>17. ASSUME NEW e \in Edit, MarkEdit(e) PROVE TopicIsAccepted'
  BY <1>17, TaskFacts
  DEF MarkEdit, taskVars, editVars, worldVars
<1>18. ASSUME NEW e \in Edit, AttemptFails(e) PROVE TopicIsAccepted'
  BY <1>18, TaskFacts
  DEF AttemptFails, taskVars, editVars, worldVars, TriesAgain
<1>19. ASSUME NEW e \in Edit, GiveUp(e) PROVE TopicIsAccepted'
  BY <1>19, TaskFacts
  DEF GiveUp, taskVars, editVars, worldVars
<1>20. ASSUME Close PROVE TopicIsAccepted'
  BY <1>20, TaskFacts
  DEF Close, taskVars, editVars, worldVars
<1>21. ASSUME Drained PROVE TopicIsAccepted'
  BY <1>21, TaskFacts
  DEF Drained, taskVars, editVars, worldVars
<1>22. ASSUME Restart PROVE TopicIsAccepted'
  BY <1>22, TaskFacts
  DEF Restart, taskVars, editVars, worldVars, At, NoRow, Busy
<1>23. CASE UNCHANGED vars
  BY <1>23 DEF vars, taskVars, editVars, worldVars
<1>24. QED
  BY <1>1, <1>2, <1>3, <1>4, <1>5, <1>6, <1>7, <1>8, <1>9, <1>10, <1>11, <1>12, <1>13, <1>14, <1>15, <1>16, <1>17, <1>18, <1>19, <1>20, <1>21, <1>22, <1>23
  DEF Next, Call, Sync, SyncEdit

\* An attempt is only lost when there is one.
LEMMA TriesStep ==
    ASSUME TypeOK, TriesLeft, [Next]_vars
    PROVE  TriesLeft'
<1> USE DEF TypeOK, Places, EditPlaces, TriesLeft
<1>1. ASSUME NEW t \in Task, Send(t) PROVE TriesLeft'
  BY <1>1, BoundAssumption, StepToFacts
  DEF Send, taskVars, editVars, worldVars, At, NoRow
<1>2. ASSUME NEW t \in Task, WriteSession(t) PROVE TriesLeft'
  BY <1>2, BoundAssumption, StepToFacts
  DEF WriteSession, taskVars, editVars, worldVars, At
<1>3. ASSUME NEW t \in Task, WriteMessage(t) PROVE TriesLeft'
  BY <1>3, BoundAssumption, StepToFacts
  DEF WriteMessage, taskVars, editVars, worldVars, Give, NewStatus
<1>4. ASSUME NEW t \in Task, Answer(t) PROVE TriesLeft'
  BY <1>4, BoundAssumption, StepToFacts
  DEF Answer, taskVars, editVars, worldVars
<1>5. ASSUME NEW t \in Task, NoAnswer(t) PROVE TriesLeft'
  BY <1>5, BoundAssumption, StepToFacts
  DEF NoAnswer, taskVars, editVars, worldVars
<1>6. ASSUME NEW t \in Task, MarkMessage(t) PROVE TriesLeft'
  BY <1>6, BoundAssumption, StepToFacts
  DEF MarkMessage, taskVars, editVars, worldVars, Give
<1>7. ASSUME NEW t \in Task, MarkSession(t) PROVE TriesLeft'
  BY <1>7, BoundAssumption, StepToFacts
  DEF MarkSession, taskVars, editVars, worldVars
<1>8. ASSUME NEW t \in Task, MarkFails(t) PROVE TriesLeft'
  BY <1>8, BoundAssumption, StepToFacts
  DEF MarkFails, taskVars, editVars, worldVars, Fault
<1>9. ASSUME NEW t \in Task, FailMessage(t) PROVE TriesLeft'
  BY <1>9, BoundAssumption, StepToFacts
  DEF FailMessage, taskVars, editVars, worldVars, Give, Fails
<1>10. ASSUME NEW t \in Task, FailMessageFails(t) PROVE TriesLeft'
  BY <1>10, BoundAssumption, StepToFacts
  DEF FailMessageFails, taskVars, editVars, worldVars, Give, Fault
<1>11. ASSUME NEW t \in Task, FailSession(t) PROVE TriesLeft'
  BY <1>11, BoundAssumption, StepToFacts
  DEF FailSession, taskVars, editVars, worldVars
<1>12. ASSUME NEW m \in Msg, Accept(m) PROVE TriesLeft'
  BY <1>12, BoundAssumption, StepToFacts
  DEF Accept, taskVars, editVars, worldVars
<1>13. ASSUME NEW x \in Msg \union {SessionRow}, Deliver(x) PROVE TriesLeft'
  BY <1>13, BoundAssumption, StepToFacts
  DEF Deliver, taskVars, editVars, worldVars
<1>14. ASSUME NEW e \in Edit, BeginEdit(e) PROVE TriesLeft'
  BY <1>14, BoundAssumption, StepToFacts
  DEF BeginEdit, taskVars, editVars, worldVars
<1>15. ASSUME NEW e \in Edit, WriteEdit(e) PROVE TriesLeft'
  BY <1>15, BoundAssumption, StepToFacts
  DEF WriteEdit, taskVars, editVars, worldVars
<1>16. ASSUME NEW e \in Edit, TakeEdit(e) PROVE TriesLeft'
  BY <1>16, BoundAssumption, StepToFacts
  DEF TakeEdit, taskVars, editVars, worldVars
<1>17. ASSUME NEW e \in Edit, MarkEdit(e) PROVE TriesLeft'
  BY <1>17, BoundAssumption, StepToFacts
  DEF MarkEdit, taskVars, editVars, worldVars
<1>18. ASSUME NEW e \in Edit, AttemptFails(e) PROVE TriesLeft'
  BY <1>18, BoundAssumption, StepToFacts
  DEF AttemptFails, taskVars, editVars, worldVars, TriesAgain
<1>19. ASSUME NEW e \in Edit, GiveUp(e) PROVE TriesLeft'
  BY <1>19, BoundAssumption, StepToFacts
  DEF GiveUp, taskVars, editVars, worldVars
<1>20. ASSUME Close PROVE TriesLeft'
  BY <1>20, BoundAssumption, StepToFacts
  DEF Close, taskVars, editVars, worldVars
<1>21. ASSUME Drained PROVE TriesLeft'
  BY <1>21, BoundAssumption, StepToFacts
  DEF Drained, taskVars, editVars, worldVars
<1>22. ASSUME Restart PROVE TriesLeft'
  BY <1>22, BoundAssumption, StepToFacts
  DEF Restart, taskVars, editVars, worldVars, At, NoRow, Busy
<1>23. CASE UNCHANGED vars
  BY <1>23 DEF vars, taskVars, editVars, worldVars
<1>24. QED
  BY <1>1, <1>2, <1>3, <1>4, <1>5, <1>6, <1>7, <1>8, <1>9, <1>10, <1>11, <1>12, <1>13, <1>14, <1>15, <1>16, <1>17, <1>18, <1>19, <1>20, <1>21, <1>22, <1>23
  DEF Next, Call, Sync, SyncEdit

LEMMA SyncedStep ==
    ASSUME TypeOK, MessageInv, [Next]_vars
    PROVE  SyncedIsAccepted'
<1>1. MessageMoves /\ accepted \subseteq accepted'
  BY MessageMove, ServerMove DEF MessageInv, ServerMoves
<1>2. CASE message' = message
  BY <1>1, <1>2 DEF MessageInv, SyncedIsAccepted
<1>3. ASSUME NEW m \in accepted, PutMessage(m, "synced") PROVE SyncedIsAccepted'
  <2>1. m \in Msg
    BY DEF TypeOK
  <2>2. \A n \in Msg : n # m => message'[n] = message[n]
    BY <1>3, <2>1, PutMessageFacts DEF Status
  <2>3. QED
    BY <1>1, <2>2 DEF MessageInv, SyncedIsAccepted
<1>4. ASSUME NEW m \in Msg, NEW st \in {"failed", "pending"}, PutMessage(m, st)
      PROVE  SyncedIsAccepted'
  <2>1. message'[m] = st /\ \A n \in Msg : n # m => message'[n] = message[n]
    BY <1>4, PutMessageFacts DEF Status
  <2>2. QED
    BY <1>1, <2>1 DEF MessageInv, SyncedIsAccepted
<1>5. ASSUME NEW k \in Msg, PutMessage(k, "failed") PROVE SyncedIsAccepted'
  BY <1>4, <1>5
<1>6. ASSUME NEW t \in Task, PutMessage(t[1], "pending") PROVE SyncedIsAccepted'
  BY <1>4, <1>6, TaskFacts
<1>7. QED
  BY <1>1, <1>2, <1>3, <1>5, <1>6 DEF MessageMoves

LEMMA PendingStep ==
    ASSUME TypeOK, MessageInv, [Next]_vars
    PROVE  PendingSettles'
<1>1. MessageMoves /\ CallMoves /\ GivenUpMoves
  BY MessageMove, CallMove, GivenUpMove DEF MessageInv
<1> SUFFICES ASSUME NEW m \in Msg, message'[m] = "pending", m \notin abandoned'
             PROVE  \E t \in Task : t[1] = m /\ call'[t].pc \in Settling
  BY DEF PendingSettles
<1>2. CASE message[m] = "pending"
  <2>1. CASE m \in abandoned
    BY <1>1, <2>1 DEF GivenUpMoves, Settling
  <2>2. CASE m \notin abandoned
    <3>1. PICK t \in Task : t[1] = m /\ call[t].pc \in Settling
      BY <1>2, <2>2 DEF MessageInv, PendingSettles
    <3>2. QED
      BY <1>1, <3>1 DEF CallMoves
  <2>3. QED
    BY <2>1, <2>2
<1>3. CASE message[m] # "pending"
  <2>1. \A n \in Msg : ~PutMessage(n, "failed") /\ ~PutMessage(n, "synced")
    <3> SUFFICES ASSUME NEW n \in Msg, NEW st \in {"failed", "synced"}, PutMessage(n, st)
                 PROVE  FALSE
      OBVIOUS
    <3>1. QED
      BY <1>3, PutMessageFacts DEF Status
  <2>2. accepted \subseteq Msg /\ message' # message
    BY <1>3 DEF TypeOK
  <2>3. PICK t \in Task : PutMessage(t[1], "pending") /\ (t[1] \in abandoned' \/ call'[t].pc = "rpc")
    BY <1>1, <2>1, <2>2 DEF MessageMoves
  <2>4. t[1] = m
    BY <1>3, <2>3, TaskFacts, PutMessageFacts DEF Status
  <2>5. QED
    BY <2>3, <2>4 DEF Settling
<1>4. QED
  BY <1>2, <1>3

\* What the row is after a step.
LEMMA SessionFacts ==
    ASSUME TypeOK, MessageInv, SessionInv, [Next]_vars
    PROVE  /\ session'.known => accepted # {}
           /\ session'.status = "synced" => session'.known
<1>1. SessionMoves
  BY SessionMove DEF MessageInv, SessionInv
<1>2. CASE session' = session
  BY <1>2 DEF SessionInv, KnownFromServer, RowsKnown
<1>3. ASSUME NEW st \in Status, NEW given \in BOOLEAN, PutSession(st, given),
             given \/ session.known => accepted # {},
             st = "synced" => given \/ session.known
      PROVE  (session'.known => accepted # {}) /\ (session'.status = "synced" => session'.known)
  BY <1>3, PutSessionFacts
<1>4. session.known => accepted # {}
  BY DEF SessionInv, KnownFromServer
<1>5. CASE PutSession("synced", TRUE) /\ accepted # {}
  BY <1>3, <1>5 DEF Status
<1>6. CASE PutSession("synced", FALSE) /\ session.known
  BY <1>3, <1>4, <1>6 DEF Status
<1>7. CASE PutSession("pending", FALSE) \/ PutSession("failed", FALSE)
  BY <1>3, <1>4, <1>7 DEF Status
<1>8. ASSUME NEW t \in Task, NEW st \in {"pending", call[t].row.status},
             PutSession(st, call[t].row.known)
      PROVE  (session'.known => accepted # {}) /\ (session'.status = "synced" => session'.known)
  <2>1. call[t].row.status \in Status /\ call[t].row.known \in BOOLEAN
    BY DEF TypeOK, Row
  <2>2. /\ call[t].row.known => accepted # {}
        /\ call[t].row.status = "synced" => call[t].row.known
    BY DEF SessionInv, KnownFromServer, RowsKnown
  <2>3. st \in Status
    BY <2>1 DEF Status
  <2>4. QED
    BY <1>3, <1>4, <1>8, <2>1, <2>2, <2>3
<1>9. QED
  BY <1>1, <1>2, <1>5, <1>6, <1>7, <1>8 DEF SessionMoves

LEMMA RowsStep ==
    ASSUME TypeOK, MessageInv, SessionInv, [Next]_vars
    PROVE  RowsKnown'
<1>1. CopyMoves
  BY CopyMove
<1>2. session'.status = "synced" => session'.known
  BY SessionFacts
<1>3. ASSUME NEW t \in Task, call'[t].row.status = "synced" PROVE call'[t].row.known
  BY <1>1, <1>2, <1>3 DEF CopyMoves, SessionInv, RowsKnown, NoRow
<1>4. QED
  BY <1>2, <1>3 DEF RowsKnown

LEMMA KnownStep ==
    ASSUME TypeOK, MessageInv, SessionInv, [Next]_vars
    PROVE  KnownFromServer'
<1>1. CopyMoves /\ ServerMoves
  BY CopyMove, ServerMove
<1>2. CASE accepted' # {}
  BY <1>2 DEF KnownFromServer
<1>3. CASE accepted' = {}
  <2>1. accepted = {}
    BY <1>1, <1>3 DEF ServerMoves
  <2>2. /\ ~session.known /\ topic = {}
        /\ \A t \in Task : ~call[t].row.known
        /\ \A e \in Edit : edit[e] \notin {"write", "try", "markEdit"}
    BY <2>1 DEF SessionInv, KnownFromServer
  <2>3. ~session'.known
    BY <2>1, SessionFacts
  <2>4. \A t \in Task : ~call'[t].row.known
    BY <1>1, <2>2, <2>3 DEF CopyMoves, NoRow
  <2>5. topic' = {} /\ \A e \in Edit : edit'[e] \notin {"write", "try", "markEdit"}
    BY <1>1, <1>3, <2>2 DEF ServerMoves
  <2>6. QED
    BY <2>3, <2>4, <2>5 DEF KnownFromServer
<1>4. QED
  BY <1>2, <1>3

-----------------------------------------------------------------------------

LEMMA InitInv == Init => IInv
<1> SUFFICES ASSUME Init PROVE IInv
  OBVIOUS
<1>1. TypeOK
  BY BoundAssumption DEF Init, TypeOK, At, NoRow, Row, Status
<1>2. MessageInv
  BY DEF Init, MessageInv, MarkedIsAccepted, TopicIsAccepted, SyncedIsAccepted, PendingSettles, At
<1>3. SessionInv /\ TriesLeft
  BY BoundAssumption DEF Init, SessionInv, KnownFromServer, RowsKnown, TriesLeft, At, NoRow
<1>4. QED
  BY <1>1, <1>2, <1>3 DEF IInv

(* IInv holds in every reachable state, whatever the number of messages,   *)
(* sendings, edits, retries, failing writes, closes and deaths.            *)
THEOREM Invariance == Spec => []IInv
<1>1. ASSUME IInv, [Next]_vars PROVE IInv'
  BY <1>1, TypeStep, MarkedStep, TopicStep, SyncedStep, PendingStep, KnownStep, RowsStep, TriesStep
  DEF IInv, MessageInv, SessionInv
<1>2. QED
  BY <1>1, InitInv, PTL DEF Spec

(* Every variable keeps its type; no edit is tried more often than it may. *)
THEOREM TypeCorrect == Spec => []TypeOK
<1>1. IInv => TypeOK
  BY DEF IInv
<1>2. QED
  BY <1>1, Invariance, PTL

(* A message shown as delivered is with the server, and one shown as being *)
(* delivered has a call that will settle it, unless it was abandoned.      *)
THEOREM NoMessageLost == Spec => []NothingLost
<1>1. ASSUME IInv PROVE NothingLost
  <2> SUFFICES ASSUME NEW m \in Msg, message[m] = "pending", m \notin abandoned
               PROVE  \E k \in 1..MaxSends : Busy(<<m, k>>)
    BY <1>1 DEF IInv, MessageInv, SyncedIsAccepted, NothingLost
  <2>1. PICK t \in Task : t[1] = m /\ call[t].pc \in Settling
    BY <1>1 DEF IInv, MessageInv, PendingSettles
  <2>2. t[2] \in 1..MaxSends /\ t = <<m, t[2]>>
    BY <2>1, TaskFacts
  <2>3. Busy(<<m, t[2]>>)
    BY <2>1, <2>2 DEF Busy, Settling
  <2>4. QED
    BY <2>2, <2>3
<1>2. QED
  BY <1>1, Invariance, PTL

\* Nothing has happened to the layer, and nothing was abandoned.
Undisturbed == life = "open" /\ abandoned = {}

\* Only a fault abandons a message, or ends the layer.
LEMMA UndisturbedStep ==
    ASSUME faults \in Nat, faults = 0 => Undisturbed, [Next]_vars
    PROVE  /\ faults' \in {faults, faults + 1}
           /\ faults' = 0 => Undisturbed'
<1> USE DEF Undisturbed, Fault, worldVars
<1> DEFINE Goal == /\ faults' \in {faults, faults + 1}
                   /\ faults' = 0 => Undisturbed'
<1>1. ASSUME NEW t \in Task, Call(t) PROVE Goal
  <2>1. CASE Send(t) \/ WriteSession(t)
    BY <2>1 DEF Send, WriteSession
  <2>2. CASE WriteMessage(t)
    BY <2>2 DEF WriteMessage, Give
  <2>3. QED
    BY <1>1, <2>1, <2>2 DEF Call
<1>2. ASSUME NEW t \in Task, Sync(t) PROVE Goal
  <2>1. CASE Answer(t) \/ NoAnswer(t) \/ MarkSession(t) \/ FailSession(t)
    BY <2>1 DEF Answer, NoAnswer, MarkSession, FailSession
  <2>2. CASE MarkMessage(t) \/ FailMessage(t)
    BY <2>2 DEF MarkMessage, FailMessage, Give
  <2>3. CASE MarkFails(t) \/ FailMessageFails(t)
    BY <2>3 DEF MarkFails, FailMessageFails
  <2>4. QED
    BY <1>2, <2>1, <2>2, <2>3 DEF Sync
<1>3. ASSUME NEW m \in Msg, Accept(m) PROVE Goal
  BY <1>3 DEF Accept
<1>4. ASSUME NEW x \in Msg \union {SessionRow}, Deliver(x) PROVE Goal
  BY <1>4 DEF Deliver
<1>5. ASSUME NEW e \in Edit, SyncEdit(e) PROVE Goal
  <2>1. UNCHANGED <<abandoned, worldVars>>
    <3>1. CASE BeginEdit(e) \/ WriteEdit(e) \/ TakeEdit(e)
      BY <3>1 DEF BeginEdit, WriteEdit, TakeEdit
    <3>2. CASE MarkEdit(e) \/ GiveUp(e)
      BY <3>2 DEF MarkEdit, GiveUp
    <3>3. CASE AttemptFails(e)
      BY <3>3 DEF AttemptFails
    <3>4. QED
      BY <1>5, <3>1, <3>2, <3>3 DEF SyncEdit
  <2>2. QED
    BY <2>1
<1>6. CASE Close \/ Restart
  <2>1. faults' = faults + 1
    BY <1>6 DEF Close, Restart
  <2>2. QED
    BY <2>1
<1>7. CASE Drained
  BY <1>7 DEF Drained
<1>8. CASE UNCHANGED vars
  BY <1>8 DEF vars
<1>9. QED
  BY <1>1, <1>2, <1>3, <1>4, <1>5, <1>6, <1>7, <1>8 DEF Next

(* As long as the layer was not closed, did not die and could write, each  *)
(* message shown as being delivered has a task that will settle it: no     *)
(* loss, delay or refusal of requests leaves one behind.                   *)
THEOREM NoneLeftBehind == Spec => []SendingHasTask
<1>1. Init => faults \in Nat /\ (faults = 0 => Undisturbed)
  BY DEF Init, Undisturbed
<1>2. faults \in Nat /\ (faults = 0 => Undisturbed) /\ [Next]_vars
        => (faults \in Nat /\ (faults = 0 => Undisturbed))'
  BY UndisturbedStep
<1>3. NothingLost /\ (faults = 0 => Undisturbed) => SendingHasTask
  BY DEF NothingLost, Undisturbed, SendingHasTask
<1>4. QED
  BY <1>1, <1>2, <1>3, NoMessageLost, PTL DEF Spec

(* A session marked 'synced' has its server_id, and the server has a       *)
(* message of it, although calls write back what they have read earlier.   *)
THEOREM SyncedKnown == Spec => []SyncedIsKnown
<1>1. ASSUME IInv PROVE SyncedIsKnown
  BY <1>1 DEF IInv, SessionInv, RowsKnown, KnownFromServer, SyncedIsKnown
<1>2. QED
  BY <1>1, Invariance, PTL

=============================================================================
