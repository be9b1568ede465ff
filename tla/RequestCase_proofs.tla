------------------------ MODULE RequestCase_proofs --------------------------
(***************************************************************************)
(* Proofs about RequestCase for every set of actors and documents, every   *)
(* choice of handlers, and every interleaving and failure of the calls; at *)
(* the end, about the deadline that a filing and an extension ask for      *)
(* (StatuteClock), for every calendar, clock and question.                 *)
(***************************************************************************)
EXTENDS RequestCase, StatuteClock, FiniteSetTheorems, TLAPS

\* The targets transitionRequest is called with.
Working == {"in_review", "in_progress", "clarification_needed"}

\* What a call still has to do is a sequence of such targets, and a call that
\* is about to make a transition has one to make.
TodoOK(f) ==
  /\ f.todo \in Seq(Working)
  /\ f.pc \in {"tasks", "transition", "move"} \/ f.op = "clarify"
       => f.todo # <<>>

FrameInv == frame \in [Actors -> Frame] /\ \A a \in Actors : TodoOK(frame[a])

TypeInv == TypeOK /\ FrameInv

-----------------------------------------------------------------------------
(* Rows, frames and what an update makes of them.                          *)

\* The fields of a row have their types.
LEMMA RowFields ==
  ASSUME NEW r \in Row
  PROVE  /\ r.status \in Status /\ r.closed \in BOOLEAN /\ r.extensions \in Nat
         /\ r.forwardedTo \in Nat
BY DEF Row

\* Writing the scope keeps a row a row.
LEMMA RowScope ==
  ASSUME NEW r \in Row
  PROVE  /\ [r EXCEPT !.scope = "draft"] \in Row
         /\ [r EXCEPT !.scope = "approved"] \in Row
BY DEF Row

\* So does writing the status,
LEMMA RowStatus ==
  ASSUME NEW r \in Row, NEW s \in Status
  PROVE  [r EXCEPT !.status = s] \in Row
BY DEF Row

\* counting an extension,
LEMMA RowExtended ==
  ASSUME NEW r \in Row, NEW n \in Nat
  PROVE  [r EXCEPT !.extensions = n] \in Row
BY DEF Row

\* and closing the row.
LEMMA RowClosed ==
  ASSUME NEW r \in Row, NEW s \in Status, NEW n \in Nat
  PROVE  [r EXCEPT !.status = s, !.closed = TRUE, !.forwardedTo = n] \in Row
BY DEF Row

\* A freshly filed request is a row.
LEMMA FiledRowType == FiledRow \in Row
BY DEF FiledRow, Row, Status

\* The frame of an actor with no call under way is a frame.
LEMMA IdleType == Idle \in Frame /\ TodoOK(Idle)
BY FiledRowType DEF Idle, Frame, Pc, TodoOK

\* The fields of a frame have their types.
LEMMA FrameFields ==
  ASSUME NEW f \in Frame
  PROVE  /\ f.pc \in Pc /\ f.request \in Row /\ f.todo \in Seq(Status)
         /\ f.docs \in SUBSET Docs /\ f.ship \in SUBSET Docs
         /\ f.burn \in SUBSET Docs /\ f.held \in SUBSET Docs
         /\ f.made \in Nat
BY DEF Frame

\* Moving on changes where a frame is and nothing else.
LEMMA PcUpdate ==
  ASSUME NEW f \in Frame, NEW pc \in Pc
  PROVE  LET g == [f EXCEPT !.pc = pc] IN
         /\ g \in Frame /\ g.pc = pc /\ g.op = f.op /\ g.request = f.request
         /\ g.todo = f.todo /\ g.docs = f.docs /\ g.ship = f.ship
         /\ g.burn = f.burn /\ g.held = f.held /\ g.made = f.made
BY DEF Frame

\* Reading the row again keeps a frame a frame;
LEMMA FrameRequest ==
  ASSUME NEW f \in Frame, NEW pc \in Pc, NEW r \in Row
  PROVE  [f EXCEPT !.pc = pc, !.request = r] \in Frame
BY DEF Frame

\* so does the status releaseRequest carries on with,
LEMMA FrameStatus ==
  ASSUME NEW f \in Frame
  PROVE  [f EXCEPT !.request.status = "records_review"] \in Frame
BY DEF Frame, Row, Status

\* the id of a row the call created,
LEMMA FrameMade ==
  ASSUME NEW f \in Frame, NEW pc \in Pc, NEW n \in Nat
  PROVE  [f EXCEPT !.pc = pc, !.made = n] \in Frame
BY DEF Frame

\* the review set it read,
LEMMA FrameDocs ==
  ASSUME NEW f \in Frame, NEW pc \in Pc, NEW A \in SUBSET Docs
  PROVE  [f EXCEPT !.pc = pc, !.docs = A] \in Frame
BY DEF Frame

\* what an automatic dispatch has read and plans,
LEMMA FramePlanned ==
  ASSUME NEW f \in Frame, NEW pc \in Pc, NEW r \in Row, NEW t \in Seq(Status)
  PROVE  [f EXCEPT !.pc = pc, !.request = r, !.todo = t] \in Frame
BY DEF Frame

\* its going on as a dispatch,
LEMMA FrameDispatch ==
  ASSUME NEW f \in Frame, NEW pc \in Pc
  PROVE  [f EXCEPT !.op = "dispatch", !.pc = pc] \in Frame
BY DEF Frame, AllHandlers

\* the review set with the decisions that were read before it,
LEMMA FrameGathered ==
  ASSUME NEW f \in Frame, NEW pc \in Pc, NEW D \in SUBSET Docs,
         NEW A \in SUBSET Docs, NEW B \in SUBSET Docs, NEW C \in SUBSET Docs
  PROVE  [f EXCEPT !.pc = pc, !.docs = D, !.ship = A, !.burn = B, !.held = C]
           \in Frame
BY DEF Frame

\* and the decisions it sorted that set by.
LEMMA FrameSorted ==
  ASSUME NEW f \in Frame, NEW pc \in Pc, NEW A \in SUBSET Docs,
         NEW B \in SUBSET Docs, NEW C \in SUBSET Docs
  PROVE  [f EXCEPT !.pc = pc, !.ship = A, !.burn = B, !.held = C] \in Frame
BY DEF Frame

\* The transitions a use-case may plan.
LEMMA Todos ==
  /\ <<>> \in Seq(Working)
  /\ <<"in_review">> \in Seq(Working)
  /\ <<"in_progress">> \in Seq(Working)
  /\ <<"in_review", "in_progress">> \in Seq(Working)
  /\ <<"clarification_needed">> \in Seq(Working)
  /\ Seq(Working) \subseteq Seq(Status)
BY DEF Working, Status

\* A dispatch plans such transitions.
LEMMA OnwardType ==
  ASSUME NEW s
  PROVE  Onward(s) \in Seq(Working) /\ Onward(s) \in Seq(Status)
BY Todos DEF Onward

\* The next transition of a plan, and what is left of it.
LEMMA NextTodo ==
  ASSUME NEW todo \in Seq(Working), todo # <<>>
  PROVE  /\ Head(todo) \in Working
         /\ Head(todo) \in Status
         /\ Tail(todo) \in Seq(Working)
BY DEF Working, Status

-----------------------------------------------------------------------------
(* One lemma for each way an action moves a frame.                         *)

\* An actor's frame is replaced and the others' are not.
LEMMA Resuming ==
  ASSUME FrameInv, NEW a \in Actors, NEW f \in Frame, TodoOK(f), Resume(a, f)
  PROVE  /\ FrameInv'
         /\ frame'[a] = f
         /\ \A b \in Actors : b # a => frame'[b] = frame[b]
BY DEF FrameInv, Resume

\* An actor's call ends.
LEMMA Finishing ==
  ASSUME FrameInv, NEW a \in Actors, Finish(a)
  PROVE  /\ FrameInv'
         /\ frame'[a] = Idle
         /\ \A b \in Actors : b # a => frame'[b] = frame[b]
BY IdleType, Resuming DEF Finish

\* An actor's call moves on, to a transition only if it has one to make.
LEMMA Going ==
  ASSUME FrameInv, NEW a \in Actors, NEW pc \in Pc, Goto(a, pc),
         pc \in {"tasks", "transition", "move"} => frame[a].todo # <<>>
  PROVE  /\ FrameInv'
         /\ frame'[a] = [frame[a] EXCEPT !.pc = pc]
         /\ \A b \in Actors : b # a => frame'[b] = frame[b]
<1> DEFINE f == [frame[a] EXCEPT !.pc = pc]
<1>1. frame[a] \in Frame /\ TodoOK(frame[a]) BY DEF FrameInv
<1>2. f \in Frame /\ f.pc = pc /\ f.todo = frame[a].todo /\ f.op = frame[a].op
  BY <1>1, PcUpdate
<1>3. TodoOK(f) BY <1>1, <1>2 DEF TodoOK
<1>4. Resume(a, f) BY DEF Goto
<1> HIDE DEF f
<1>5. /\ FrameInv' /\ frame'[a] = f
      /\ \A b \in Actors : b # a => frame'[b] = frame[b]
  BY <1>2, <1>3, <1>4, Resuming
<1> QED BY <1>5 DEF f

\* A call begins: it has read the row and written nothing.
LEMMA Beginning ==
  ASSUME TypeInv, NEW a \in Actors, NEW op \in AllHandlers, NEW pc \in Pc,
         NEW todo \in Seq(Working), Begin(a, op, pc, todo),
         pc \in {"tasks", "transition", "move"} \/ op = "clarify"
           => todo # <<>>
  PROVE  /\ TypeInv'
         /\ frame'[a].op = op /\ frame'[a].pc = pc
         /\ frame'[a].request = request /\ frame'[a].todo = todo
         /\ frame'[a].burn = {}
         /\ \A b \in Actors : b # a => frame'[b] = frame[b]
         /\ UNCHANGED <<rowVars, reviewVars, outVars>>
<1> DEFINE f == [Idle EXCEPT !.op = op, !.pc = pc, !.request = request,
                            !.todo = todo]
<1>0. todo \in Seq(Status) /\ request \in Row BY Todos DEF TypeInv, TypeOK
<1>1. /\ f \in Frame /\ f.op = op /\ f.pc = pc /\ f.request = request
      /\ f.todo = todo /\ f.burn = {}
  BY <1>0, IdleType DEF Frame, Idle
<1>2. TodoOK(f) BY <1>1 DEF TodoOK
<1>3. Resume(a, f) /\ FrameInv BY DEF Begin, TypeInv
<1>4. env' \in Environment /\ UNCHANGED <<rowVars, reviewVars, outVars>>
  <2>1. /\ env \in Environment /\ env.calls > 0
        /\ env' = [env EXCEPT !.calls = @ - 1]
        /\ UNCHANGED <<rowVars, reviewVars, outVars>>
    BY DEF Begin, TypeInv, TypeOK
  <2> QED BY <2>1 DEF Environment
<1> HIDE DEF f
<1>5. /\ FrameInv' /\ frame'[a] = f
      /\ \A b \in Actors : b # a => frame'[b] = frame[b]
  BY <1>1, <1>2, <1>3, Resuming
<1>6. TypeOK'
  BY <1>4, <1>5 DEF TypeInv, TypeOK, FrameInv, rowVars, reviewVars, outVars
<1> QED BY <1>1, <1>4, <1>5, <1>6 DEF TypeInv

\* An event a call logs is an event.
LEMMA EntryType ==
  ASSUME TypeOK, NEW a \in Actors, NEW to \in Status \cup {"unsaid"},
         NEW kind \in {"status_change", "extension", "approval"},
         LogEvent(a, kind, to)
  PROVE  trail' \in Seq(Entry)
<1>1. frame[a].request.status \in Status
  BY FrameFields, RowFields DEF TypeOK
<1>2. [kind |-> kind, to |-> to,
       from |-> IF kind = "status_change" THEN frame[a].request.status
                                          ELSE "unsaid"] \in Entry
  BY <1>1 DEF Entry
<1> QED BY <1>2 DEF LogEvent, TypeOK

\* Every step of every call keeps the types and the plans.
LEMMA TypeStep == TypeInv /\ [Next]_vars => TypeInv'
<1> SUFFICES ASSUME TypeInv, [Next]_vars PROVE TypeInv'
  OBVIOUS
<1>0. TypeOK /\ FrameInv BY DEF TypeInv
<1> USE DEF TypeInv
<1>1. ASSUME NEW a \in Actors, ApproveTriage(a) PROVE TypeInv'
  <2> DEFINE todo == IF request.status = "submitted"
                     THEN <<"in_review">> ELSE <<>>
  <2>1. Begin(a, "approveTriage", "write", todo) BY <1>1 DEF ApproveTriage
  <2>2. todo \in Seq(Working) BY Todos
  <2> HIDE DEF todo
  <2> QED BY <2>1, <2>2, Beginning DEF AllHandlers, Pc
<1>2. ASSUME NEW a \in Actors, TriageJob(a) PROVE TypeInv'
  <2> DEFINE todo == <<>>
  <2>1. Begin(a, "triageJob", "write", todo) BY <1>2 DEF TriageJob
  <2>2. todo \in Seq(Working) BY Todos
  <2> HIDE DEF todo
  <2> QED BY <2>1, <2>2, Beginning DEF AllHandlers, Pc
<1>3. ASSUME NEW a \in Actors, Extend(a) PROVE TypeInv'
  <2> DEFINE todo == <<>>
  <2>1. Begin(a, "extend", "write", todo) BY <1>3 DEF Extend
  <2>2. todo \in Seq(Working) BY Todos
  <2> HIDE DEF todo
  <2> QED BY <2>1, <2>2, Beginning DEF AllHandlers, Pc
<1>4. ASSUME NEW a \in Actors, Deny(a) PROVE TypeInv'
  <2> DEFINE todo == <<>>
  <2>1. Begin(a, "deny", "write", todo) BY <1>4 DEF Deny
  <2>2. todo \in Seq(Working) BY Todos
  <2> HIDE DEF todo
  <2> QED BY <2>1, <2>2, Beginning DEF AllHandlers, Pc
<1>5. ASSUME NEW a \in Actors, FulfillByReference(a) PROVE TypeInv'
  <2> DEFINE todo == <<>>
  <2>1. Begin(a, "fulfillByReference", "letter", todo) BY <1>5
    DEF FulfillByReference
  <2>2. todo \in Seq(Working) BY Todos
  <2> HIDE DEF todo
  <2> QED BY <2>1, <2>2, Beginning DEF AllHandlers, Pc
<1>6. ASSUME NEW a \in Actors, Refer(a) PROVE TypeInv'
  <2> DEFINE todo == <<>>
  <2>1. Begin(a, "refer", "write", todo) BY <1>6 DEF Refer
  <2>2. todo \in Seq(Working) BY Todos
  <2> HIDE DEF todo
  <2> QED BY <2>1, <2>2, Beginning DEF AllHandlers, Pc
<1>7. ASSUME NEW a \in Actors, Forward(a) PROVE TypeInv'
  <2> DEFINE todo == <<>>
  <2>1. Begin(a, "forward", "file", todo) BY <1>7 DEF Forward
  <2>2. todo \in Seq(Working) BY Todos
  <2> HIDE DEF todo
  <2> QED BY <2>1, <2>2, Beginning DEF AllHandlers, Pc
<1>8. ASSUME NEW a \in Actors, Clarify(a) PROVE TypeInv'
  <2> DEFINE todo == <<"clarification_needed">>
  <2>1. Begin(a, "clarify", "message", todo) BY <1>8 DEF Clarify
  <2>2. todo \in Seq(Working) BY Todos
  <2>3. todo # <<>> OBVIOUS
  <2> HIDE DEF todo
  <2> QED BY <2>1, <2>2, <2>3, Beginning DEF AllHandlers, Pc
<1>9. ASSUME NEW a \in Actors, Reply(a) PROVE TypeInv'
  <2> DEFINE todo == IF request.status = "clarification_needed"
                     THEN <<"in_review">> ELSE <<>>
  <2>1. Begin(a, "reply", "message", todo) BY <1>9 DEF Reply
  <2>2. todo \in Seq(Working) BY Todos
  <2> HIDE DEF todo
  <2> QED BY <2>1, <2>2, Beginning DEF AllHandlers, Pc
<1>10. ASSUME NEW a \in Actors, ReleaseRequest(a) PROVE TypeInv'
  <2> DEFINE todo == <<>>
  <2>1. Begin(a, "release", "docs", todo) BY <1>10 DEF ReleaseRequest
  <2>2. todo \in Seq(Working) BY Todos
  <2> HIDE DEF todo
  <2> QED BY <2>1, <2>2, Beginning DEF AllHandlers, Pc
<1>11. ASSUME NEW a \in Actors, Dispatch(a) PROVE TypeInv'
  <2> DEFINE todo == Onward(request.status)
             pc == IF todo = <<>> THEN "task" ELSE "transition"
  <2>1. Begin(a, "dispatch", pc, todo) BY <1>11 DEF Dispatch
  <2>2. todo \in Seq(Working) BY OnwardType
  <2>3. pc \in Pc /\ (pc \in {"tasks", "transition", "move"} => todo # <<>>)
    BY DEF Pc
  <2> HIDE DEF todo, pc
  <2> QED BY <2>1, <2>2, <2>3, Beginning DEF AllHandlers
<1>12. ASSUME NEW a \in Actors, TransitionRead(a) PROVE TypeInv'
  <2> DEFINE f == [frame[a] EXCEPT !.pc = "move", !.request = request]
  <2>1. frame[a] \in Frame /\ TodoOK(frame[a]) BY <1>0 DEF FrameInv
  <2>2. f \in Frame BY <1>0, <2>1, FrameRequest DEF TypeOK, Pc
  <2>3. TodoOK(f) BY <1>12, <2>1 DEF TransitionRead, TodoOK, Frame
  <2>4. Resume(a, f) \/ Finish(a) BY <1>12 DEF TransitionRead
  <2>5. FrameInv' BY <1>0, <2>2, <2>3, <2>4, Resuming, Finishing
  <2> QED BY <1>0, <1>12, <2>5
    DEF TransitionRead, TypeOK, FrameInv, rowVars, reviewVars, outVars
<1>13. ASSUME NEW a \in Actors, TransitionWrite(a) PROVE TypeInv'
  <2>1. frame[a] \in Frame /\ TodoOK(frame[a]) BY <1>0 DEF FrameInv
  <2>2. Head(frame[a].todo) \in Status BY <1>13, <2>1, NextTodo
    DEF TransitionWrite, TodoOK
  <2>3. request' \in Row BY <1>0, <1>13, <2>2, RowStatus
    DEF TransitionWrite, TypeOK
  <2>4. FrameInv' BY <1>0, <1>13, Going DEF TransitionWrite, Pc
  <2> QED BY <1>0, <1>13, <2>3, <2>4
    DEF TransitionWrite, TypeOK, FrameInv, rowVars, reviewVars, outVars
<1>14. ASSUME NEW a \in Actors, TransitionLog(a) PROVE TypeInv'
  <2> DEFINE rest == Tail(frame[a].todo)
             f(pc) == [frame[a] EXCEPT !.pc = pc, !.todo = rest]
  <2>1. frame[a] \in Frame /\ TodoOK(frame[a]) BY <1>0 DEF FrameInv
  <2>2. /\ Head(frame[a].todo) \in Status /\ rest \in Seq(Working)
        /\ rest \in Seq(Status)
    BY <1>14, <2>1, NextTodo, Todos DEF TransitionLog, TodoOK
  <2>3. trail' \in Seq(Entry) BY <1>0, <1>14, <2>2, EntryType DEF TransitionLog
  <2>4. /\ f("transition") \in Frame /\ f("task") \in Frame
        /\ rest # <<>> => TodoOK(f("transition"))
        /\ frame[a].op = "dispatch" => TodoOK(f("task"))
    <3> HIDE DEF rest
    <3> QED BY <2>1, <2>2 DEF Frame, Pc, TodoOK
  <2>5. \/ rest # <<>> /\ Resume(a, f("transition"))
        \/ frame[a].op = "dispatch" /\ Resume(a, f("task"))
        \/ Finish(a)
    BY <1>14 DEF TransitionLog
  <2>6. FrameInv'
    <3> HIDE DEF f
    <3> QED BY <1>0, <2>4, <2>5, Resuming, Finishing
  <2> QED BY <1>0, <1>14, <2>3, <2>6
    DEF TransitionLog, TypeOK, FrameInv, rowVars, reviewVars, outVars
<1>15. ASSUME NEW a \in Actors, ApproveTriageWrite(a) PROVE TypeInv'
  <2>1. request' \in Row
    BY <1>0, <1>15, RowScope DEF ApproveTriageWrite, TypeOK
  <2>2. FrameInv' BY <1>0, <1>15, Going, Finishing DEF ApproveTriageWrite, Pc
  <2> QED BY <1>0, <1>15, <2>1, <2>2
    DEF ApproveTriageWrite, TypeOK, FrameInv, rowVars, reviewVars, outVars
<1>16. ASSUME NEW a \in Actors, ApplyTriageDraft(a) PROVE TypeInv'
  <2>1. request' \in Row
    BY <1>0, <1>16, RowScope DEF ApplyTriageDraft, TypeOK
  <2>2. FrameInv' BY <1>0, <1>16, Going, Finishing DEF ApplyTriageDraft, Pc
  <2> QED BY <1>0, <1>16, <2>1, <2>2
    DEF ApplyTriageDraft, TypeOK, FrameInv, rowVars, reviewVars, outVars
<1>17. ASSUME NEW a \in Actors, DenyWrite(a) PROVE TypeInv'
  <2>1. request' \in Row
    BY <1>0, <1>17, RowClosed, RowFields DEF DenyWrite, TypeOK, Close, Status
  <2>2. FrameInv' BY <1>0, <1>17, Going DEF DenyWrite, Pc
  <2> QED BY <1>0, <1>17, <2>1, <2>2
    DEF DenyWrite, TypeOK, FrameInv, rowVars, reviewVars, outVars
<1>18. ASSUME NEW a \in Actors, ReferenceWrite(a) PROVE TypeInv'
  <2>1. request' \in Row
    BY <1>0, <1>18, RowClosed, RowFields
       DEF ReferenceWrite, TypeOK, Close, Status
  <2>2. FrameInv' BY <1>0, <1>18, Going DEF ReferenceWrite, Pc
  <2> QED BY <1>0, <1>18, <2>1, <2>2
    DEF ReferenceWrite, TypeOK, FrameInv, rowVars, reviewVars, outVars
<1>19. ASSUME NEW a \in Actors, ReferWrite(a) PROVE TypeInv'
  <2>1. request' \in Row
    BY <1>0, <1>19, RowClosed, RowFields DEF ReferWrite, TypeOK, Close, Status
  <2>2. FrameInv' BY <1>0, <1>19, Going DEF ReferWrite, Pc
  <2> QED BY <1>0, <1>19, <2>1, <2>2
    DEF ReferWrite, TypeOK, FrameInv, rowVars, reviewVars, outVars
<1>20. ASSUME NEW a \in Actors, ForwardWrite(a) PROVE TypeInv'
  <2>1. request' \in Row
    BY <1>0, <1>20, RowClosed, FrameFields
       DEF ForwardWrite, TypeOK, Close, Status
  <2>2. FrameInv' BY <1>0, <1>20, Going DEF ForwardWrite, Pc
  <2> QED BY <1>0, <1>20, <2>1, <2>2
    DEF ForwardWrite, TypeOK, FrameInv, rowVars, reviewVars, outVars
<1>21. ASSUME NEW a \in Actors, ExtendWrite(a) PROVE TypeInv'
  <2>1. frame[a].request.extensions + 1 \in Nat
    BY <1>0, FrameFields, RowFields DEF FrameInv
  <2>2. request' \in Row BY <1>0, <1>21, <2>1, RowExtended
    DEF ExtendWrite, TypeOK
  <2>3. FrameInv' BY <1>0, <1>21, Going DEF ExtendWrite, Pc
  <2> QED BY <1>0, <1>21, <2>2, <2>3
    DEF ExtendWrite, TypeOK, FrameInv, rowVars, reviewVars, outVars
<1>22. ASSUME NEW a \in Actors, ExtendLog(a) PROVE TypeInv'
  <2>1. trail' \in Seq(Entry) BY <1>0, <1>22, EntryType DEF ExtendLog
  <2>2. FrameInv' BY <1>0, <1>22, Going DEF ExtendLog, Pc
  <2> QED BY <1>0, <1>22, <2>1, <2>2
    DEF ExtendLog, TypeOK, FrameInv, rowVars, reviewVars, outVars
<1>23. ASSUME NEW a \in Actors, DenyLog(a) PROVE TypeInv'
  <2>1. trail' \in Seq(Entry) BY <1>0, <1>23, EntryType DEF DenyLog, Status
  <2>2. FrameInv' BY <1>0, <1>23, Going DEF DenyLog, Pc
  <2> QED BY <1>0, <1>23, <2>1, <2>2
    DEF DenyLog, TypeOK, FrameInv, rowVars, reviewVars, outVars
<1>24. ASSUME NEW a \in Actors, ReferenceLog(a) PROVE TypeInv'
  <2>1. trail' \in Seq(Entry) BY <1>0, <1>24, EntryType
    DEF ReferenceLog, Status
  <2>2. FrameInv' BY <1>0, <1>24, Finishing DEF ReferenceLog
  <2> QED BY <1>0, <1>24, <2>1, <2>2
    DEF ReferenceLog, TypeOK, FrameInv, rowVars, reviewVars, outVars
<1>25. ASSUME NEW a \in Actors, ReferLog(a) PROVE TypeInv'
  <2>1. trail' \in Seq(Entry) BY <1>0, <1>25, EntryType DEF ReferLog, Status
  <2>2. FrameInv' BY <1>0, <1>25, Going DEF ReferLog, Pc
  <2> QED BY <1>0, <1>25, <2>1, <2>2
    DEF ReferLog, TypeOK, FrameInv, rowVars, reviewVars, outVars
<1>26. ASSUME NEW a \in Actors, ForwardLog(a) PROVE TypeInv'
  <2>1. trail' \in Seq(Entry) BY <1>0, <1>26, EntryType DEF ForwardLog, Status
  <2>2. FrameInv' BY <1>0, <1>26, Going DEF ForwardLog, Pc
  <2> QED BY <1>0, <1>26, <2>1, <2>2
    DEF ForwardLog, TypeOK, FrameInv, rowVars, reviewVars, outVars
<1>27. ASSUME NEW a \in Actors, ReleaseLog(a) PROVE TypeInv'
  <2>1. trail' \in Seq(Entry)
    <3>1. FinalStatus(a) \in Status BY DEF FinalStatus, Status
    <3> QED BY <1>0, <1>27, <3>1, EntryType DEF ReleaseLog
  <2>2. FrameInv' BY <1>0, <1>27, Going DEF ReleaseLog, Pc
  <2> QED BY <1>0, <1>27, <2>1, <2>2
    DEF ReleaseLog, TypeOK, FrameInv, rowVars, reviewVars, outVars
<1>28. ASSUME NEW a \in Actors, ExtendNotice(a) PROVE TypeInv'
  <2>1. FrameInv' BY <1>0, <1>28, Finishing DEF ExtendNotice
  <2> QED BY <1>0, <1>28, <2>1
    DEF ExtendNotice, Send, Kind, TypeOK, FrameInv, rowVars, reviewVars,
        outVars
<1>29. ASSUME NEW a \in Actors, DenyLetter(a) PROVE TypeInv'
  <2>1. FrameInv' BY <1>0, <1>29, Finishing DEF DenyLetter
  <2> QED BY <1>0, <1>29, <2>1
    DEF DenyLetter, Send, Kind, TypeOK, FrameInv, rowVars, reviewVars, outVars
<1>30. ASSUME NEW a \in Actors, ReferenceLetter(a) PROVE TypeInv'
  <2>1. FrameInv' BY <1>0, <1>30, Going DEF ReferenceLetter, Pc
  <2> QED BY <1>0, <1>30, <2>1
    DEF ReferenceLetter, Send, Kind, TypeOK, FrameInv, rowVars, reviewVars,
        outVars
<1>31. ASSUME NEW a \in Actors, ReferLetter(a) PROVE TypeInv'
  <2>1. FrameInv' BY <1>0, <1>31, Finishing DEF ReferLetter
  <2> QED BY <1>0, <1>31, <2>1
    DEF ReferLetter, Send, Kind, TypeOK, FrameInv, rowVars, reviewVars, outVars
<1>32. ASSUME NEW a \in Actors, ForwardLetter(a) PROVE TypeInv'
  <2>1. FrameInv' BY <1>0, <1>32, Finishing DEF ForwardLetter
  <2> QED BY <1>0, <1>32, <2>1
    DEF ForwardLetter, Send, Kind, TypeOK, FrameInv, rowVars, reviewVars,
        outVars
<1>33. ASSUME NEW a \in Actors, ClarifyMessage(a) PROVE TypeInv'
  <2>1. frame[a] \in Frame /\ TodoOK(frame[a]) BY <1>0 DEF FrameInv
  <2>2. frame[a].todo # <<>> BY <1>33, <2>1 DEF ClarifyMessage, At, TodoOK
  <2>3. FrameInv' BY <1>0, <1>33, <2>2, Going DEF ClarifyMessage, Pc
  <2> QED BY <1>0, <1>33, <2>3
    DEF ClarifyMessage, Send, Kind, TypeOK, FrameInv, rowVars, reviewVars,
        outVars
<1>34. ASSUME NEW a \in Actors, ReplyMessage(a) PROVE TypeInv'
  <2>1. FrameInv' BY <1>0, <1>34, Going, Finishing DEF ReplyMessage, Pc
  <2> QED BY <1>0, <1>34, <2>1
    DEF ReplyMessage, Send, Kind, TypeOK, FrameInv, rowVars, reviewVars,
        outVars
<1>35. ASSUME NEW a \in Actors, ReleaseLetter(a) PROVE TypeInv'
  <2>1. FrameInv' BY <1>0, <1>35, Going DEF ReleaseLetter, Pc
  <2> QED BY <1>0, <1>35, <2>1
    DEF ReleaseLetter, Send, Kind, TypeOK, FrameInv, rowVars, reviewVars,
        outVars
<1>36. ASSUME NEW a \in Actors, ForwardFile(a) PROVE TypeInv'
  <2> DEFINE f == [frame[a] EXCEPT !.pc = "write", !.made = filings + 1]
  <2>1. frame[a] \in Frame /\ TodoOK(frame[a]) BY <1>0 DEF FrameInv
  <2>2. filings + 1 \in Nat BY <1>0 DEF TypeOK
  <2>3. f \in Frame BY <2>1, <2>2, FrameMade DEF Pc
  <2>4. TodoOK(f) BY <2>1 DEF TodoOK, Frame
  <2>5. FrameInv' BY <1>0, <1>36, <2>3, <2>4, Resuming DEF ForwardFile
  <2> QED BY <1>0, <1>36, <2>2, <2>5
    DEF ForwardFile, TypeOK, FrameInv, rowVars, reviewVars, outVars
<1>37. ASSUME NEW a \in Actors, DispatchTask(a) PROVE TypeInv'
  <2>1. tasks' \in Nat BY <1>0, <1>37 DEF DispatchTask, TypeOK
  <2>2. FrameInv' BY <1>0, <1>37, Finishing DEF DispatchTask
  <2> QED BY <1>0, <1>37, <2>1, <2>2
    DEF DispatchTask, TypeOK, FrameInv, rowVars, reviewVars, outVars
<1>38. ASSUME NEW a \in Actors, ReleaseDocs(a) PROVE TypeInv'
  <2> DEFINE f == [frame[a] EXCEPT !.pc = "reviews", !.docs = attached]
  <2>1. frame[a] \in Frame /\ TodoOK(frame[a]) BY <1>0 DEF FrameInv
  <2>2. f \in Frame BY <1>0, <2>1, FrameDocs DEF TypeOK, Pc
  <2>3. TodoOK(f) BY <2>1 DEF TodoOK, Frame
  <2>4. FrameInv' BY <1>0, <1>38, <2>2, <2>3, Resuming, Finishing
    DEF ReleaseDocs
  <2> QED BY <1>0, <1>38, <2>4
    DEF ReleaseDocs, TypeOK, FrameInv, rowVars, reviewVars, outVars
<1>39. ASSUME NEW a \in Actors, ReleaseReviews(a) PROVE TypeInv'
  <2> DEFINE docs == frame[a].docs
             f == [frame[a] EXCEPT !.pc = "artifacts",
                     !.ship = Marked(docs, "release"),
                     !.burn = Marked(docs, "release_redacted"),
                     !.held = Marked(docs, "withhold")]
  <2>1. frame[a] \in Frame /\ TodoOK(frame[a]) BY <1>0 DEF FrameInv
  <2>2. \A d \in Decision : Marked(docs, d) \in SUBSET Docs
    BY <2>1, FrameFields DEF Marked
  <2>3. f \in Frame BY <2>1, <2>2, FrameSorted DEF Pc, Decision
  <2>4. TodoOK(f) BY <2>1 DEF TodoOK, Frame
  <2>5. Resume(a, f) \/ Finish(a) BY <1>39 DEF ReleaseReviews
  <2>6. FrameInv' BY <1>0, <2>3, <2>4, <2>5, Resuming, Finishing
  <2> QED BY <1>0, <1>39, <2>6
    DEF ReleaseReviews, TypeOK, FrameInv, rowVars, reviewVars, outVars
<1>40. ASSUME NEW a \in Actors, ReleaseArtifacts(a) PROVE TypeInv'
  <2>1. FrameInv' BY <1>0, <1>40, Going, Finishing DEF ReleaseArtifacts, Pc
  <2> QED BY <1>0, <1>40, <2>1
    DEF ReleaseArtifacts, TypeOK, FrameInv, rowVars, reviewVars, outVars
<1>41. ASSUME NEW a \in Actors, CreateRelease(a) PROVE TypeInv'
  <2> DEFINE f == [frame[a] EXCEPT !.pc = "status", !.made = Len(releases) + 1]
             r == [ship |-> frame[a].ship, burn |-> frame[a].burn,
                   held |-> frame[a].held]
  <2>1. frame[a] \in Frame /\ TodoOK(frame[a]) BY <1>0 DEF FrameInv
  <2>2. r \in Release BY <2>1, FrameFields DEF Release
  <2>3. releases' \in Seq(Release) /\ Len(releases) + 1 \in Nat
    BY <1>0, <1>41, <2>2 DEF CreateRelease, TypeOK
  <2>4. f \in Frame BY <2>1, <2>3, FrameMade DEF Pc
  <2>5. TodoOK(f) BY <2>1 DEF TodoOK, Frame
  <2>6. FrameInv' BY <1>0, <1>41, <2>4, <2>5, Resuming DEF CreateRelease
  <2> QED BY <1>0, <1>41, <2>3, <2>6
    DEF CreateRelease, TypeOK, FrameInv, rowVars, reviewVars, outVars
<1>42. ASSUME NEW a \in Actors, ReleaseToRecordsReview(a) PROVE TypeInv'
  <2> DEFINE f == [frame[a] EXCEPT !.request.status = "records_review"]
  <2>1. frame[a] \in Frame /\ TodoOK(frame[a]) BY <1>0 DEF FrameInv
  <2>2. f \in Frame BY <2>1, FrameStatus
  <2>3. TodoOK(f) BY <2>1 DEF TodoOK, Frame
  <2>4. request' \in Row
    BY <1>0, <1>42, RowStatus DEF ReleaseToRecordsReview, TypeOK, Status
  <2>5. FrameInv' BY <1>0, <1>42, <2>2, <2>3, Resuming
    DEF ReleaseToRecordsReview
  <2> QED BY <1>0, <1>42, <2>4, <2>5
    DEF ReleaseToRecordsReview, TypeOK, FrameInv, rowVars, reviewVars, outVars
<1>43. ASSUME NEW a \in Actors, ReleaseStatus(a) PROVE TypeInv'
  <2>1. FinalStatus(a) \in Status BY DEF FinalStatus, Status
  <2>2. request' \in Row
    <3>1. request \in Row /\ request.forwardedTo \in Nat
      BY <1>0, RowFields DEF TypeOK
    <3>2. CASE Close(FinalStatus(a), request.forwardedTo)
      BY <2>1, <3>1, <3>2, RowClosed DEF Close
    <3> QED BY <1>43, <3>1, <3>2 DEF ReleaseStatus
  <2>3. FrameInv' BY <1>0, <1>43, Going, Finishing DEF ReleaseStatus, Pc
  <2> QED BY <1>0, <1>43, <2>2, <2>3
    DEF ReleaseStatus, TypeOK, FrameInv, rowVars, reviewVars, outVars
<1>44. ASSUME NEW a \in Actors, ReleasePublish(a) PROVE TypeInv'
  <2>1. frame[a].made \in Nat BY <1>0, FrameFields DEF FrameInv
  <2>2. archive' \in SUBSET Nat BY <1>0, <1>44, <2>1 DEF ReleasePublish, TypeOK
  <2>3. FrameInv' BY <1>0, <1>44, Finishing DEF ReleasePublish
  <2> QED BY <1>0, <1>44, <2>2, <2>3
    DEF ReleasePublish, TypeOK, FrameInv, rowVars, reviewVars, outVars
<1>45. ASSUME NEW a \in Actors, Abort(a) PROVE TypeInv'
  <2>1. FrameInv' BY <1>0, <1>45, Finishing DEF Abort
  <2> QED BY <1>0, <1>45, <2>1
    DEF Abort, TypeOK, FrameInv, rowVars, reviewVars, outVars
<1>46. ASSUME NEW d \in Docs, Review(d) PROVE TypeInv'
  <2>1. attached' \in SUBSET Docs /\ artifacts' \in SUBSET Docs
    BY <1>0, <1>46
       DEF Review, AttachDocument, ReviewDocument, FinalizeRedaction, TypeOK
  <2>2. reviews' \in [Docs -> Decision]
    BY <1>0, <1>46
       DEF Review, AttachDocument, ReviewDocument, FinalizeRedaction, TypeOK,
           Decision
  <2> QED BY <1>0, <1>46, <2>1, <2>2
      DEF Review, AttachDocument, ReviewDocument, FinalizeRedaction, TypeOK,
          FrameInv, rowVars, reviewVars, outVars
<1>47. CASE UNCHANGED vars
  BY <1>0, <1>47 DEF vars, rowVars, reviewVars, outVars, TypeOK, FrameInv
<1>48. ASSUME NEW a \in Actors, AutoDispatch(a) PROVE TypeInv'
  <2> DEFINE t == Onward(request.status)
             f == [frame[a] EXCEPT !.pc = "tasks", !.request = request,
                                   !.todo = t]
  <2>1. frame[a] \in Frame /\ TodoOK(frame[a]) BY <1>0 DEF FrameInv
  <2>2. t \in Seq(Working) /\ t \in Seq(Status) BY OnwardType
  <2>3. \/ t # <<>> /\ Resume(a, f)
        \/ Finish(a)
    BY <1>48 DEF AutoDispatch
  <2> HIDE DEF t
  <2>4. f \in Frame BY <1>0, <2>1, <2>2, FramePlanned DEF TypeOK, Pc
  <2>5. t # <<>> => TodoOK(f) BY <2>1, <2>2 DEF TodoOK, Frame
  <2>6. FrameInv' BY <1>0, <2>3, <2>4, <2>5, Resuming, Finishing
  <2> QED BY <1>0, <1>48, <2>6
    DEF AutoDispatch, TypeOK, FrameInv, rowVars, reviewVars, outVars
<1>49. ASSUME NEW a \in Actors, AutoDispatchTasks(a) PROVE TypeInv'
  <2> DEFINE f == [frame[a] EXCEPT !.op = "dispatch", !.pc = "transition"]
  <2>1. frame[a] \in Frame /\ TodoOK(frame[a]) BY <1>0 DEF FrameInv
  <2>2. frame[a].todo # <<>> BY <1>49, <2>1 DEF AutoDispatchTasks, At, TodoOK
  <2>3. Resume(a, f) \/ Finish(a) BY <1>49 DEF AutoDispatchTasks
  <2>4. f \in Frame BY <2>1, FrameDispatch DEF Pc
  <2>5. TodoOK(f) BY <2>1, <2>2 DEF TodoOK, Frame
  <2>6. FrameInv' BY <1>0, <2>3, <2>4, <2>5, Resuming, Finishing
  <2> QED BY <1>0, <1>49, <2>6
    DEF AutoDispatchTasks, TypeOK, FrameInv, rowVars, reviewVars, outVars
<1>50. ASSUME NEW a \in Actors, ReleaseReviewsFirst(a) PROVE TypeInv'
  <2> DEFINE f == [frame[a] EXCEPT !.pc = "attached",
                     !.ship = Marked(Docs, "release"),
                     !.burn = Marked(Docs, "release_redacted"),
                     !.held = Marked(Docs, "withhold")]
  <2>1. frame[a] \in Frame /\ TodoOK(frame[a]) BY <1>0 DEF FrameInv
  <2>2. \A d \in Decision : Marked(Docs, d) \in SUBSET Docs BY DEF Marked
  <2>3. f \in Frame BY <2>1, <2>2, FrameSorted DEF Pc, Decision
  <2>4. TodoOK(f) BY <2>1 DEF TodoOK, Frame
  <2>5. Resume(a, f) BY <1>50 DEF ReleaseReviewsFirst
  <2>6. FrameInv' BY <1>0, <2>3, <2>4, <2>5, Resuming
  <2> QED BY <1>0, <1>50, <2>6
    DEF ReleaseReviewsFirst, TypeOK, FrameInv, rowVars, reviewVars, outVars
<1>51. ASSUME NEW a \in Actors, ReleaseDocsLast(a) PROVE TypeInv'
  <2> DEFINE S == frame[a].ship \cap attached
             B == frame[a].burn \cap attached
             H == frame[a].held \cap attached
             f == [frame[a] EXCEPT !.pc = "artifacts", !.docs = attached,
                                   !.ship = S, !.burn = B, !.held = H]
  <2>1. frame[a] \in Frame /\ TodoOK(frame[a]) BY <1>0 DEF FrameInv
  <2>2. /\ attached \in SUBSET Docs /\ S \in SUBSET Docs
        /\ B \in SUBSET Docs /\ H \in SUBSET Docs
    BY <1>0 DEF TypeOK
  <2>3. Resume(a, f) \/ Finish(a) BY <1>51 DEF ReleaseDocsLast
  <2> HIDE DEF S, B, H
  <2>4. f \in Frame BY <2>1, <2>2, FrameGathered DEF Pc
  <2>5. TodoOK(f) BY <2>1 DEF TodoOK, Frame
  <2>6. FrameInv' BY <1>0, <2>3, <2>4, <2>5, Resuming, Finishing
  <2> QED BY <1>0, <1>51, <2>6
    DEF ReleaseDocsLast, TypeOK, FrameInv, rowVars, reviewVars, outVars
<1> QED BY <1>1, <1>2, <1>3, <1>4, <1>5, <1>6, <1>7, <1>8, <1>9, <1>10, <1>11,
  <1>12, <1>13, <1>14, <1>15, <1>16, <1>17, <1>18, <1>19, <1>20, <1>21, <1>22,
  <1>23, <1>24, <1>25, <1>26, <1>27, <1>28, <1>29, <1>30, <1>31, <1>32, <1>33,
  <1>34, <1>35, <1>36, <1>37, <1>38, <1>39, <1>40, <1>41, <1>42, <1>43, <1>44,
  <1>45, <1>46, <1>47, <1>48, <1>49, <1>50, <1>51
    DEF Next, Transition, Triage, Extension, Denial, Reference, Referral,
        Correspondence, Releasing

\* The types hold when the request is filed.
LEMMA InitType == Init => TypeInv
<1> SUFFICES ASSUME Init PROVE TypeInv
  OBVIOUS
<1>1. FrameInv BY IdleType DEF Init, FrameInv
<1>2. request \in Row /\ reviews \in [Docs -> Decision]
  BY FiledRowType DEF Init, Decision
<1>3. trail \in Seq(Entry) /\ releases \in Seq(Release) BY DEF Init
<1>4. env \in Environment BY CaseAssumption DEF Init
<1> QED BY <1>1, <1>2, <1>3, <1>4 DEF Init, TypeInv, TypeOK, FrameInv

\* Every reachable state has the types TypeOK gives it.
THEOREM TypeCorrect == Spec => []TypeOK
<1>1. TypeInv => TypeOK BY DEF TypeInv
<1> QED BY <1>1, InitType, TypeStep, PTL DEF Spec

-----------------------------------------------------------------------------
(* Who writes what: every other action leaves the variable alone.          *)

\* The audit trail is written by the log steps.
LEMMA TrailWriters ==
  ASSUME [Next]_vars
  PROVE  \/ UNCHANGED trail
         \/ \E a \in Actors :
              \/ TransitionLog(a) \/ ExtendLog(a) \/ DenyLog(a)
              \/ ReferenceLog(a) \/ ReferLog(a) \/ ForwardLog(a)
              \/ ReleaseLog(a)
<1> USE DEF Begin, rowVars
<1>1. ASSUME NEW a \in Actors, Transition(a), UNCHANGED trail => FALSE
      PROVE  TransitionLog(a)
  BY <1>1 DEF Transition, TransitionRead, TransitionWrite
<1>2. ASSUME NEW a \in Actors, Triage(a) PROVE UNCHANGED trail
  BY <1>2 DEF Triage, ApproveTriage, ApproveTriageWrite, TriageJob,
     ApplyTriageDraft, AutoDispatch, AutoDispatchTasks
<1>3. ASSUME NEW a \in Actors, Extension(a), UNCHANGED trail => FALSE
      PROVE  ExtendLog(a)
  BY <1>3 DEF Extension, Extend, ExtendWrite, ExtendNotice
<1>4. ASSUME NEW a \in Actors, Denial(a), UNCHANGED trail => FALSE
      PROVE  DenyLog(a)
  BY <1>4 DEF Denial, Deny, DenyWrite, DenyLetter
<1>5. ASSUME NEW a \in Actors, Reference(a), UNCHANGED trail => FALSE
      PROVE  ReferenceLog(a)
  BY <1>5 DEF Reference, FulfillByReference, ReferenceLetter, ReferenceWrite
<1>6. ASSUME NEW a \in Actors, Referral(a), UNCHANGED trail => FALSE
      PROVE  ReferLog(a) \/ ForwardLog(a)
  BY <1>6 DEF Referral, Refer, ReferWrite, ReferLetter, Forward, ForwardFile,
              ForwardWrite, ForwardLetter
<1>7. ASSUME NEW a \in Actors, Correspondence(a) PROVE UNCHANGED trail
  BY <1>7 DEF Correspondence, Clarify, ClarifyMessage, Reply, ReplyMessage,
              Dispatch, DispatchTask
<1>8. ASSUME NEW a \in Actors, Releasing(a), UNCHANGED trail => FALSE
      PROVE  ReleaseLog(a)
  BY <1>8 DEF Releasing, ReleaseRequest, ReleaseDocs, ReleaseReviews,
              ReleaseReviewsFirst, ReleaseDocsLast,
              ReleaseArtifacts, CreateRelease, ReleaseToRecordsReview,
              ReleaseStatus, ReleaseLetter, ReleasePublish
<1>9. ASSUME NEW a \in Actors, Abort(a) PROVE UNCHANGED trail
  BY <1>9 DEF Abort
<1>10. ASSUME NEW d \in Docs, Review(d) PROVE UNCHANGED trail
  BY <1>10 DEF Review, AttachDocument, ReviewDocument, FinalizeRedaction
<1>11. CASE UNCHANGED vars BY <1>11 DEF vars
<1> QED
  BY <1>1, <1>2, <1>3, <1>4, <1>5, <1>6, <1>7, <1>8, <1>9, <1>10, <1>11
     DEF Next

\* The row is written by the write steps.
LEMMA RequestWriters ==
  ASSUME [Next]_vars
  PROVE  \/ UNCHANGED request
         \/ \E a \in Actors :
              \/ TransitionWrite(a) \/ ApproveTriageWrite(a)
              \/ ApplyTriageDraft(a) \/ ExtendWrite(a) \/ DenyWrite(a)
              \/ ReferenceWrite(a) \/ ReferWrite(a) \/ ForwardWrite(a)
              \/ ReleaseToRecordsReview(a) \/ ReleaseStatus(a)
<1> USE DEF Begin, rowVars
<1>1. ASSUME NEW a \in Actors, Transition(a), UNCHANGED request => FALSE
      PROVE  TransitionWrite(a)
  BY <1>1 DEF Transition, TransitionRead, TransitionLog
<1>2. ASSUME NEW a \in Actors, Triage(a), UNCHANGED request => FALSE
      PROVE  ApproveTriageWrite(a) \/ ApplyTriageDraft(a)
  BY <1>2 DEF Triage, ApproveTriage, TriageJob, AutoDispatch,
              AutoDispatchTasks
<1>3. ASSUME NEW a \in Actors, Extension(a), UNCHANGED request => FALSE
      PROVE  ExtendWrite(a)
  BY <1>3 DEF Extension, Extend, ExtendLog, ExtendNotice
<1>4. ASSUME NEW a \in Actors, Denial(a), UNCHANGED request => FALSE
      PROVE  DenyWrite(a)
  BY <1>4 DEF Denial, Deny, DenyLog, DenyLetter
<1>5. ASSUME NEW a \in Actors, Reference(a), UNCHANGED request => FALSE
      PROVE  ReferenceWrite(a)
  BY <1>5 DEF Reference, FulfillByReference, ReferenceLetter, ReferenceLog
<1>6. ASSUME NEW a \in Actors, Referral(a), UNCHANGED request => FALSE
      PROVE  ReferWrite(a) \/ ForwardWrite(a)
  BY <1>6 DEF Referral, Refer, ReferLog, ReferLetter, Forward, ForwardFile,
              ForwardLog, ForwardLetter
<1>7. ASSUME NEW a \in Actors, Correspondence(a) PROVE UNCHANGED request
  BY <1>7 DEF Correspondence, Clarify, ClarifyMessage, Reply, ReplyMessage,
              Dispatch, DispatchTask
<1>8. ASSUME NEW a \in Actors, Releasing(a), UNCHANGED request => FALSE
      PROVE  ReleaseToRecordsReview(a) \/ ReleaseStatus(a)
  BY <1>8 DEF Releasing, ReleaseRequest, ReleaseDocs, ReleaseReviews,
              ReleaseReviewsFirst, ReleaseDocsLast,
              ReleaseArtifacts, CreateRelease, ReleaseLog, ReleaseLetter,
              ReleasePublish
<1>9. ASSUME NEW a \in Actors, Abort(a) PROVE UNCHANGED request
  BY <1>9 DEF Abort
<1>10. ASSUME NEW d \in Docs, Review(d) PROVE UNCHANGED request
  BY <1>10 DEF Review, AttachDocument, ReviewDocument, FinalizeRedaction
<1>11. CASE UNCHANGED vars BY <1>11 DEF vars
<1> QED
  BY <1>1, <1>2, <1>3, <1>4, <1>5, <1>6, <1>7, <1>8, <1>9, <1>10, <1>11
     DEF Next

-----------------------------------------------------------------------------
(* A determination stops the clock.                                        *)

\* A step either writes a working status or writes closedAt too.
LEMMA ClosedStep ==
  ASSUME TypeInv, DeterminedIsClosed, [Next]_vars
  PROVE  DeterminedIsClosed'
<1>0. request \in Row BY DEF TypeInv, TypeOK
<1>1. CASE UNCHANGED request BY <1>1 DEF DeterminedIsClosed
<1>2. ASSUME NEW a \in Actors, TransitionWrite(a) PROVE DeterminedIsClosed'
  <2>1. Head(frame[a].todo) \in Working
    BY <1>2, NextTodo DEF TransitionWrite, TypeInv, FrameInv, TodoOK
  <2> QED BY <1>0, <1>2, <2>1
          DEF TransitionWrite, DeterminedIsClosed, Determined, Working, Row
<1>3. ASSUME NEW a \in Actors,
             ApproveTriageWrite(a) \/ ApplyTriageDraft(a) \/ ExtendWrite(a)
      PROVE  DeterminedIsClosed'
  BY <1>0, <1>3 DEF ApproveTriageWrite, ApplyTriageDraft, ExtendWrite,
                    DeterminedIsClosed, Row
<1>4. ASSUME NEW a \in Actors, NEW to, NEW id, Close(to, id)
      PROVE  DeterminedIsClosed'
  BY <1>0, <1>4 DEF Close, DeterminedIsClosed, Row
<1>5. ASSUME NEW a \in Actors,
             \/ DenyWrite(a) \/ ReferenceWrite(a) \/ ReferWrite(a)
             \/ ForwardWrite(a)
      PROVE  DeterminedIsClosed'
  BY <1>4, <1>5 DEF DenyWrite, ReferenceWrite, ReferWrite, ForwardWrite
<1>6. ASSUME NEW a \in Actors, ReleaseToRecordsReview(a)
      PROVE  DeterminedIsClosed'
  BY <1>0, <1>6
  DEF ReleaseToRecordsReview, DeterminedIsClosed, Determined, Row
<1>7. ASSUME NEW a \in Actors, ReleaseStatus(a) PROVE DeterminedIsClosed'
  BY <1>1, <1>4, <1>7 DEF ReleaseStatus
<1> QED BY <1>1, <1>2, <1>3, <1>5, <1>6, <1>7, RequestWriters

\* However calls interleave and wherever they fail, a determined request has
\* its statutory clock stopped.
THEOREM ClosedWhenDetermined == Spec => []DeterminedIsClosed
<1>1. Init => TypeInv /\ DeterminedIsClosed
  BY InitType DEF Init, FiledRow, DeterminedIsClosed, Determined
<1>2. TypeInv /\ DeterminedIsClosed /\ [Next]_vars
        => (TypeInv /\ DeterminedIsClosed)'
  BY TypeStep, ClosedStep
<1> QED BY <1>1, <1>2, PTL DEF Spec

-----------------------------------------------------------------------------
(* The audit trail.  What a call asserted stays true of the status it read *)
(* until it has logged the change.                                         *)

\* Calls that make no transition through transitionRequest.
Final == {"extend", "deny", "fulfillByReference", "refer", "forward",
          "release"}

AssertedOK(f) ==
  /\ f.op \in Final => f.todo = <<>>
  /\ f.pc \in {"move", "log"} /\ f.todo # <<>>
       => CanTransition(f.request.status, Head(f.todo))
  /\ f.op = "deny" => CanTransition(f.request.status, "denied")
  /\ f.op = "fulfillByReference"
       => CanTransition(f.request.status, "fulfilled")
  /\ f.op \in {"refer", "forward"}
       => CanTransition(f.request.status, "referred")

AssertInv == \A a \in Actors : AssertedOK(frame[a])

\* A frame that keeps what it asserted keeps everyone's assertions.
LEMMA AssertResuming ==
  ASSUME TypeInv, AssertInv, NEW a \in Actors, NEW f, Resume(a, f),
  AssertedOK(f)
  PROVE  AssertInv'
BY DEF TypeInv, FrameInv, AssertInv, Resume

\* A call that ends asserts nothing.
LEMMA AssertFinishing ==
  ASSUME TypeInv, AssertInv, NEW a \in Actors, Finish(a)
  PROVE  AssertInv'
<1>1. AssertedOK(Idle) BY DEF AssertedOK, Idle, Final
<1> QED BY <1>1, AssertResuming DEF Finish

\* A call that moves on keeps what it asserted, if it may log next.
LEMMA AssertGoing ==
  ASSUME TypeInv, AssertInv, NEW a \in Actors, NEW pc \in Pc \ {"move"},
         Goto(a, pc),
         pc = "log" /\ frame[a].todo # <<>>
           => CanTransition(frame[a].request.status, Head(frame[a].todo))
  PROVE  AssertInv'
<1> DEFINE f == [frame[a] EXCEPT !.pc = pc]
<1>1. frame[a] \in Frame /\ AssertedOK(frame[a])
  BY DEF TypeInv, FrameInv, AssertInv
<1>2. /\ f.pc = pc /\ f.op = frame[a].op /\ f.request = frame[a].request
      /\ f.todo = frame[a].todo
  BY <1>1, PcUpdate
<1>3. Resume(a, f) BY DEF Goto
<1> HIDE DEF f
<1>4. AssertedOK(f) BY <1>1, <1>2 DEF AssertedOK
<1> QED BY <1>3, <1>4, AssertResuming

\* A call begins by asserting against the row it reads.
LEMMA AssertBeginning ==
  ASSUME TypeInv, AssertInv, NEW a \in Actors, NEW op \in AllHandlers,
         NEW pc \in Pc \ {"move", "log"}, NEW todo \in Seq(Working),
         Begin(a, op, pc, todo),
         op \in Final => todo = <<>>,
         op = "deny" => CanTransition(request.status, "denied"),
         op = "fulfillByReference" => CanTransition(request.status,
         "fulfilled"),
         op \in {"refer", "forward"} => CanTransition(request.status,
         "referred")
  PROVE  AssertInv'
<1> DEFINE f == [Idle EXCEPT !.op = op, !.pc = pc, !.request = request,
                            !.todo = todo]
<1>1. /\ f.op = op /\ f.pc = pc /\ f.request = request /\ f.todo = todo
  BY IdleType DEF Frame, Idle
<1>2. Resume(a, f) BY DEF Begin
<1> HIDE DEF f
<1>3. AssertedOK(f) BY <1>1 DEF AssertedOK
<1> QED BY <1>2, <1>3, AssertResuming

\* Whatever others write, a call's own assertion stands.
LEMMA AssertStep ==
  ASSUME TypeInv, AssertInv, [Next]_vars
  PROVE  AssertInv'
<1>1. ASSUME NEW a \in Actors, ApproveTriage(a) PROVE AssertInv'
  <2> DEFINE todo == IF request.status = "submitted"
                     THEN <<"in_review">> ELSE <<>>
  <2>1. Begin(a, "approveTriage", "write", todo) BY <1>1 DEF ApproveTriage
  <2>2. todo \in Seq(Working) BY Todos
  <2> HIDE DEF todo
  <2> QED BY <2>1, <2>2, AssertBeginning DEF AllHandlers, Pc, Final
<1>2. ASSUME NEW a \in Actors, TriageJob(a) PROVE AssertInv'
  <2> DEFINE todo == <<>>
  <2>1. Begin(a, "triageJob", "write", todo) BY <1>2 DEF TriageJob
  <2>2. todo \in Seq(Working) BY Todos
  <2> HIDE DEF todo
  <2> QED BY <2>1, <2>2, AssertBeginning DEF AllHandlers, Pc, Final
<1>3. ASSUME NEW a \in Actors, Extend(a) PROVE AssertInv'
  <2> DEFINE todo == <<>>
  <2>1. Begin(a, "extend", "write", todo) BY <1>3 DEF Extend
  <2>2. todo \in Seq(Working) /\ todo = <<>> BY Todos
  <2> HIDE DEF todo
  <2> QED BY <1>3, <2>1, <2>2, AssertBeginning DEF Extend, AllHandlers, Pc
<1>4. ASSUME NEW a \in Actors, Deny(a) PROVE AssertInv'
  <2> DEFINE todo == <<>>
  <2>1. Begin(a, "deny", "write", todo) BY <1>4 DEF Deny
  <2>2. todo \in Seq(Working) /\ todo = <<>> BY Todos
  <2> HIDE DEF todo
  <2> QED BY <1>4, <2>1, <2>2, AssertBeginning DEF Deny, AllHandlers, Pc
<1>5. ASSUME NEW a \in Actors, FulfillByReference(a) PROVE AssertInv'
  <2> DEFINE todo == <<>>
  <2>1. Begin(a, "fulfillByReference", "letter", todo) BY <1>5
    DEF FulfillByReference
  <2>2. todo \in Seq(Working) /\ todo = <<>> BY Todos
  <2> HIDE DEF todo
  <2> QED BY <1>5, <2>1, <2>2, AssertBeginning
    DEF FulfillByReference, AllHandlers, Pc
<1>6. ASSUME NEW a \in Actors, Refer(a) PROVE AssertInv'
  <2> DEFINE todo == <<>>
  <2>1. Begin(a, "refer", "write", todo) BY <1>6 DEF Refer
  <2>2. todo \in Seq(Working) /\ todo = <<>> BY Todos
  <2> HIDE DEF todo
  <2> QED BY <1>6, <2>1, <2>2, AssertBeginning DEF Refer, AllHandlers, Pc
<1>7. ASSUME NEW a \in Actors, Forward(a) PROVE AssertInv'
  <2> DEFINE todo == <<>>
  <2>1. Begin(a, "forward", "file", todo) BY <1>7 DEF Forward
  <2>2. todo \in Seq(Working) /\ todo = <<>> BY Todos
  <2> HIDE DEF todo
  <2> QED BY <1>7, <2>1, <2>2, AssertBeginning DEF Forward, AllHandlers, Pc
<1>8. ASSUME NEW a \in Actors, Clarify(a) PROVE AssertInv'
  <2> DEFINE todo == <<"clarification_needed">>
  <2>1. Begin(a, "clarify", "message", todo) BY <1>8 DEF Clarify
  <2>2. todo \in Seq(Working) BY Todos
  <2> HIDE DEF todo
  <2> QED BY <2>1, <2>2, AssertBeginning DEF AllHandlers, Pc, Final
<1>9. ASSUME NEW a \in Actors, Reply(a) PROVE AssertInv'
  <2> DEFINE todo == IF request.status = "clarification_needed"
                     THEN <<"in_review">> ELSE <<>>
  <2>1. Begin(a, "reply", "message", todo) BY <1>9 DEF Reply
  <2>2. todo \in Seq(Working) BY Todos
  <2> HIDE DEF todo
  <2> QED BY <2>1, <2>2, AssertBeginning DEF AllHandlers, Pc, Final
<1>10. ASSUME NEW a \in Actors, ReleaseRequest(a) PROVE AssertInv'
  <2> DEFINE todo == <<>>
  <2>1. Begin(a, "release", "docs", todo) BY <1>10 DEF ReleaseRequest
  <2>2. todo \in Seq(Working) /\ todo = <<>> BY Todos
  <2> HIDE DEF todo
  <2> QED BY <1>10, <2>1, <2>2, AssertBeginning
    DEF ReleaseRequest, AllHandlers, Pc
<1>11. ASSUME NEW a \in Actors, Dispatch(a) PROVE AssertInv'
  <2> DEFINE todo == Onward(request.status)
             pc == IF todo = <<>> THEN "task" ELSE "transition"
  <2>1. Begin(a, "dispatch", pc, todo) BY <1>11 DEF Dispatch
  <2>2. todo \in Seq(Working) BY OnwardType
  <2>3. pc \in Pc \ {"move", "log"} BY DEF Pc
  <2> HIDE DEF todo, pc
  <2> QED BY <2>1, <2>2, <2>3, AssertBeginning DEF AllHandlers, Final
<1>12. ASSUME NEW a \in Actors, TransitionRead(a) PROVE AssertInv'
  <2> DEFINE f == [frame[a] EXCEPT !.pc = "move", !.request = request]
  <2>1. frame[a] \in Frame /\ TodoOK(frame[a]) /\ AssertedOK(frame[a])
    BY DEF TypeInv, FrameInv, AssertInv
  <2>2. /\ f.pc = "move" /\ f.request = request /\ f.op = frame[a].op
        /\ f.todo = frame[a].todo
    BY <2>1 DEF Frame
  <2>3. frame[a].op \notin Final BY <1>12, <2>1
    DEF TransitionRead, TodoOK, AssertedOK
  <2>4. \/ Resume(a, f) /\ CanTransition(request.status, Head(frame[a].todo))
        \/ Finish(a)
    BY <1>12 DEF TransitionRead
  <2> HIDE DEF f
  <2>5. CanTransition(request.status, Head(frame[a].todo)) => AssertedOK(f)
    BY <2>2, <2>3 DEF AssertedOK, Final
  <2> QED BY <2>4, <2>5, AssertResuming, AssertFinishing
<1>13. ASSUME NEW a \in Actors, TransitionWrite(a) PROVE AssertInv'
  <2>1. frame[a] \in Frame /\ TodoOK(frame[a]) /\ AssertedOK(frame[a])
    BY DEF TypeInv, FrameInv, AssertInv
  <2>2. frame[a].op \notin Final BY <1>13, <2>1
    DEF TransitionWrite, TodoOK, AssertedOK
  <2>3. CanTransition(frame[a].request.status, Head(frame[a].todo))
    BY <1>13, <2>1 DEF TransitionWrite, TodoOK, AssertedOK
  <2> QED BY <1>13, <2>2, <2>3, AssertGoing DEF TransitionWrite, Pc, Final
<1>14. ASSUME NEW a \in Actors, TransitionLog(a) PROVE AssertInv'
  <2> DEFINE f(pc) == [frame[a] EXCEPT !.pc = pc, !.todo = Tail(frame[a].todo)]
  <2>1. frame[a] \in Frame /\ TodoOK(frame[a]) /\ AssertedOK(frame[a])
    BY DEF TypeInv, FrameInv, AssertInv
  <2>2. frame[a].op \notin Final BY <1>14, <2>1 DEF TransitionLog, AssertedOK
  <2>3. ASSUME NEW pc \in {"transition", "task"}
        PROVE  f(pc).pc = pc /\ f(pc).op = frame[a].op
    BY <2>1 DEF Frame
  <2>4. AssertedOK(f("transition")) /\ AssertedOK(f("task"))
    <3> HIDE DEF f
    <3> QED BY <2>2, <2>3 DEF AssertedOK, Final
  <2>5. Resume(a, f("transition")) \/ Resume(a, f("task")) \/ Finish(a)
    BY <1>14 DEF TransitionLog
  <2> HIDE DEF f
  <2> QED BY <2>4, <2>5, AssertResuming, AssertFinishing
<1>15. ASSUME NEW a \in Actors, ApproveTriageWrite(a) PROVE AssertInv'
  BY <1>15, AssertGoing, AssertFinishing DEF ApproveTriageWrite, Pc
<1>16. ASSUME NEW a \in Actors, ReferenceLetter(a) PROVE AssertInv'
  BY <1>16, AssertGoing DEF ReferenceLetter, Pc
<1>17. ASSUME NEW a \in Actors, ClarifyMessage(a) PROVE AssertInv'
  BY <1>17, AssertGoing DEF ClarifyMessage, Pc
<1>18. ASSUME NEW a \in Actors, ReplyMessage(a) PROVE AssertInv'
  BY <1>18, AssertGoing, AssertFinishing DEF ReplyMessage, Pc
<1>19. ASSUME NEW a \in Actors, ExtendLog(a) PROVE AssertInv'
  BY <1>19, AssertGoing DEF ExtendLog, Pc
<1>20. ASSUME NEW a \in Actors, DenyLog(a) PROVE AssertInv'
  BY <1>20, AssertGoing DEF DenyLog, Pc
<1>21. ASSUME NEW a \in Actors, ReferLog(a) PROVE AssertInv'
  BY <1>21, AssertGoing DEF ReferLog, Pc
<1>22. ASSUME NEW a \in Actors, ForwardLog(a) PROVE AssertInv'
  BY <1>22, AssertGoing DEF ForwardLog, Pc
<1>23. ASSUME NEW a \in Actors, ReleaseArtifacts(a) PROVE AssertInv'
  BY <1>23, AssertGoing, AssertFinishing DEF ReleaseArtifacts, Pc
<1>24. ASSUME NEW a \in Actors, ReleaseLog(a) PROVE AssertInv'
  BY <1>24, AssertGoing DEF ReleaseLog, Pc
<1>25. ASSUME NEW a \in Actors, ReleaseLetter(a) PROVE AssertInv'
  BY <1>25, AssertGoing DEF ReleaseLetter, Pc
<1>26. ASSUME NEW a \in Actors, ExtendWrite(a) PROVE AssertInv'
  <2>1. AssertedOK(frame[a]) BY DEF AssertInv
  <2>2. frame[a].todo = <<>>
    BY <1>26, <2>1 DEF ExtendWrite, At, AssertedOK, Final
  <2> QED BY <1>26, <2>2, AssertGoing DEF ExtendWrite, Pc
<1>27. ASSUME NEW a \in Actors, DenyWrite(a) PROVE AssertInv'
  <2>1. AssertedOK(frame[a]) BY DEF AssertInv
  <2>2. frame[a].todo = <<>>
    BY <1>27, <2>1 DEF DenyWrite, At, AssertedOK, Final
  <2> QED BY <1>27, <2>2, AssertGoing DEF DenyWrite, Pc
<1>28. ASSUME NEW a \in Actors, ReferenceWrite(a) PROVE AssertInv'
  <2>1. AssertedOK(frame[a]) BY DEF AssertInv
  <2>2. frame[a].todo = <<>>
    BY <1>28, <2>1 DEF ReferenceWrite, At, AssertedOK, Final
  <2> QED BY <1>28, <2>2, AssertGoing DEF ReferenceWrite, Pc
<1>29. ASSUME NEW a \in Actors, ReferWrite(a) PROVE AssertInv'
  <2>1. AssertedOK(frame[a]) BY DEF AssertInv
  <2>2. frame[a].todo = <<>>
    BY <1>29, <2>1 DEF ReferWrite, At, AssertedOK, Final
  <2> QED BY <1>29, <2>2, AssertGoing DEF ReferWrite, Pc
<1>30. ASSUME NEW a \in Actors, ForwardWrite(a) PROVE AssertInv'
  <2>1. AssertedOK(frame[a]) BY DEF AssertInv
  <2>2. frame[a].todo = <<>>
    BY <1>30, <2>1 DEF ForwardWrite, At, AssertedOK, Final
  <2> QED BY <1>30, <2>2, AssertGoing DEF ForwardWrite, Pc
<1>31. ASSUME NEW a \in Actors, ReleaseStatus(a) PROVE AssertInv'
  <2>1. AssertedOK(frame[a]) BY DEF AssertInv
  <2>2. frame[a].todo = <<>> BY <1>31, <2>1
    DEF ReleaseStatus, At, AssertedOK, Final
  <2> QED BY <1>31, <2>2, AssertGoing, AssertFinishing
          DEF ReleaseStatus, Pc
<1>32. ASSUME NEW a \in Actors, ApplyTriageDraft(a) PROVE AssertInv'
  BY <1>32, AssertGoing, AssertFinishing DEF ApplyTriageDraft, Pc
<1>33. ASSUME NEW a \in Actors, ExtendNotice(a) PROVE AssertInv'
  BY <1>33, AssertFinishing DEF ExtendNotice
<1>34. ASSUME NEW a \in Actors, DenyLetter(a) PROVE AssertInv'
  BY <1>34, AssertFinishing DEF DenyLetter
<1>35. ASSUME NEW a \in Actors, ReferenceLog(a) PROVE AssertInv'
  BY <1>35, AssertFinishing DEF ReferenceLog
<1>36. ASSUME NEW a \in Actors, ReferLetter(a) PROVE AssertInv'
  BY <1>36, AssertFinishing DEF ReferLetter
<1>37. ASSUME NEW a \in Actors, ForwardLetter(a) PROVE AssertInv'
  BY <1>37, AssertFinishing DEF ForwardLetter
<1>38. ASSUME NEW a \in Actors, DispatchTask(a) PROVE AssertInv'
  BY <1>38, AssertFinishing DEF DispatchTask
<1>39. ASSUME NEW a \in Actors, ReleasePublish(a) PROVE AssertInv'
  BY <1>39, AssertFinishing DEF ReleasePublish
<1>40. ASSUME NEW a \in Actors, Abort(a) PROVE AssertInv'
  BY <1>40, AssertFinishing DEF Abort
<1>41. ASSUME NEW a \in Actors, ForwardFile(a) PROVE AssertInv'
  <2> DEFINE f == [frame[a] EXCEPT !.pc = "write", !.made = filings + 1]
  <2>1. frame[a] \in Frame /\ AssertedOK(frame[a])
    BY DEF TypeInv, FrameInv, AssertInv
  <2>2. /\ f.pc = "write" /\ f.op = frame[a].op /\ f.todo = frame[a].todo
        /\ f.request = frame[a].request
    BY <2>1 DEF Frame
  <2>3. Resume(a, f) BY <1>41 DEF ForwardFile
  <2> HIDE DEF f
  <2>4. AssertedOK(f) BY <2>1, <2>2 DEF AssertedOK
  <2> QED BY <2>3, <2>4, AssertResuming
<1>42. ASSUME NEW a \in Actors, ReleaseDocs(a) PROVE AssertInv'
  <2> DEFINE f == [frame[a] EXCEPT !.pc = "reviews", !.docs = attached]
  <2>1. frame[a] \in Frame /\ AssertedOK(frame[a])
    BY DEF TypeInv, FrameInv, AssertInv
  <2>2. /\ f.pc = "reviews" /\ f.op = frame[a].op /\ f.todo = frame[a].todo
        /\ f.request = frame[a].request
    BY <2>1 DEF Frame
  <2>3. Resume(a, f) \/ Finish(a) BY <1>42 DEF ReleaseDocs
  <2> HIDE DEF f
  <2>4. AssertedOK(f) BY <2>1, <2>2 DEF AssertedOK
  <2> QED BY <2>3, <2>4, AssertResuming, AssertFinishing
<1>43. ASSUME NEW a \in Actors, CreateRelease(a) PROVE AssertInv'
  <2> DEFINE f == [frame[a] EXCEPT !.pc = "status", !.made = Len(releases) + 1]
  <2>1. frame[a] \in Frame /\ AssertedOK(frame[a])
    BY DEF TypeInv, FrameInv, AssertInv
  <2>2. /\ f.pc = "status" /\ f.op = frame[a].op /\ f.todo = frame[a].todo
        /\ f.request = frame[a].request
    BY <2>1 DEF Frame
  <2>3. Resume(a, f) BY <1>43 DEF CreateRelease
  <2> HIDE DEF f
  <2>4. AssertedOK(f) BY <2>1, <2>2 DEF AssertedOK
  <2> QED BY <2>3, <2>4, AssertResuming
<1>44. ASSUME NEW a \in Actors, ReleaseReviews(a) PROVE AssertInv'
  <2> DEFINE f == [frame[a] EXCEPT !.pc = "artifacts",
                     !.ship = Marked(frame[a].docs, "release"),
                     !.burn = Marked(frame[a].docs, "release_redacted"),
                     !.held = Marked(frame[a].docs, "withhold")]
  <2>1. frame[a] \in Frame /\ AssertedOK(frame[a])
    BY DEF TypeInv, FrameInv, AssertInv
  <2>2. /\ f.pc = "artifacts" /\ f.op = frame[a].op /\ f.todo = frame[a].todo
        /\ f.request = frame[a].request
    BY <2>1 DEF Frame
  <2>3. Resume(a, f) \/ Finish(a) BY <1>44 DEF ReleaseReviews
  <2> HIDE DEF f
  <2>4. AssertedOK(f) BY <2>1, <2>2 DEF AssertedOK
  <2> QED BY <2>3, <2>4, AssertResuming, AssertFinishing
<1>45. ASSUME NEW a \in Actors, ReleaseToRecordsReview(a) PROVE AssertInv'
  <2> DEFINE f == [frame[a] EXCEPT !.request.status = "records_review"]
  <2>1. frame[a] \in Frame /\ AssertedOK(frame[a])
    BY DEF TypeInv, FrameInv, AssertInv
  <2>2. f.pc = "status" /\ f.op = "release" /\ f.todo = frame[a].todo
    BY <1>45, <2>1 DEF ReleaseToRecordsReview, At, Frame
  <2>3. frame[a].op = "release" BY <1>45 DEF ReleaseToRecordsReview, At
  <2>4. Resume(a, f) BY <1>45 DEF ReleaseToRecordsReview
  <2> HIDE DEF f
  <2>5. AssertedOK(f) BY <2>1, <2>2, <2>3 DEF AssertedOK
  <2> QED BY <2>4, <2>5, AssertResuming
<1>46. ASSUME NEW d \in Docs, Review(d) PROVE AssertInv'
  BY <1>46 DEF Review, AttachDocument, ReviewDocument, FinalizeRedaction,
     AssertInv
<1>47. CASE UNCHANGED vars BY <1>47 DEF vars, AssertInv
<1>48. ASSUME NEW a \in Actors, AutoDispatch(a) PROVE AssertInv'
  <2> DEFINE f == [frame[a] EXCEPT !.pc = "tasks", !.request = request,
                                   !.todo = Onward(request.status)]
  <2>1. frame[a] \in Frame BY DEF TypeInv, FrameInv
  <2>2. f.pc = "tasks" /\ f.op = "triageJob"
    BY <1>48, <2>1 DEF AutoDispatch, At, Frame
  <2>3. Resume(a, f) \/ Finish(a) BY <1>48 DEF AutoDispatch
  <2> HIDE DEF f
  <2>4. AssertedOK(f) BY <2>2 DEF AssertedOK, Final
  <2> QED BY <2>3, <2>4, AssertResuming, AssertFinishing
<1>49. ASSUME NEW a \in Actors, AutoDispatchTasks(a) PROVE AssertInv'
  <2> DEFINE f == [frame[a] EXCEPT !.op = "dispatch", !.pc = "transition"]
  <2>1. frame[a] \in Frame BY DEF TypeInv, FrameInv
  <2>2. f.pc = "transition" /\ f.op = "dispatch" BY <2>1 DEF Frame
  <2>3. Resume(a, f) \/ Finish(a) BY <1>49 DEF AutoDispatchTasks
  <2> HIDE DEF f
  <2>4. AssertedOK(f) BY <2>2 DEF AssertedOK, Final
  <2> QED BY <2>3, <2>4, AssertResuming, AssertFinishing
<1>50. ASSUME NEW a \in Actors, ReleaseReviewsFirst(a) PROVE AssertInv'
  <2> DEFINE f == [frame[a] EXCEPT !.pc = "attached",
                     !.ship = Marked(Docs, "release"),
                     !.burn = Marked(Docs, "release_redacted"),
                     !.held = Marked(Docs, "withhold")]
  <2>1. frame[a] \in Frame /\ AssertedOK(frame[a])
    BY DEF TypeInv, FrameInv, AssertInv
  <2>2. /\ f.pc = "attached" /\ f.op = frame[a].op /\ f.todo = frame[a].todo
        /\ f.request = frame[a].request
    BY <2>1 DEF Frame
  <2>3. Resume(a, f) BY <1>50 DEF ReleaseReviewsFirst
  <2> HIDE DEF f
  <2>4. AssertedOK(f) BY <2>1, <2>2 DEF AssertedOK
  <2> QED BY <2>3, <2>4, AssertResuming
<1>51. ASSUME NEW a \in Actors, ReleaseDocsLast(a) PROVE AssertInv'
  <2> DEFINE f == [frame[a] EXCEPT !.pc = "artifacts", !.docs = attached,
                     !.ship = frame[a].ship \cap attached,
                     !.burn = frame[a].burn \cap attached,
                     !.held = frame[a].held \cap attached]
  <2>1. frame[a] \in Frame /\ AssertedOK(frame[a])
    BY DEF TypeInv, FrameInv, AssertInv
  <2>2. /\ f.pc = "artifacts" /\ f.op = frame[a].op /\ f.todo = frame[a].todo
        /\ f.request = frame[a].request
    BY <2>1 DEF Frame
  <2>3. Resume(a, f) \/ Finish(a) BY <1>51 DEF ReleaseDocsLast
  <2> HIDE DEF f
  <2>4. AssertedOK(f) BY <2>1, <2>2 DEF AssertedOK
  <2> QED BY <2>3, <2>4, AssertResuming, AssertFinishing
<1> QED
  BY <1>1, <1>2, <1>3, <1>4, <1>5, <1>6, <1>7, <1>8, <1>9, <1>10, <1>11,
     <1>12, <1>13, <1>14, <1>15, <1>16, <1>17, <1>18, <1>19, <1>20, <1>21,
     <1>22, <1>23, <1>24, <1>25, <1>26, <1>27, <1>28, <1>29, <1>30, <1>31,
     <1>32, <1>33, <1>34, <1>35, <1>36, <1>37, <1>38, <1>39, <1>40, <1>41,
     <1>42, <1>43, <1>44, <1>45, <1>46, <1>47, <1>48, <1>49, <1>50, <1>51
  DEF Next, Transition, Triage, Extension, Denial, Reference, Referral,
      Correspondence, Releasing

\* An event with a legal edge keeps the trail legal.
LEMMA LogLegal ==
  ASSUME TypeInv, LoggedEdgesLegal, NEW a \in Actors, NEW kind, NEW to,
         LogEvent(a, kind, to),
         kind = "status_change" => CanTransition(frame[a].request.status, to)
  PROVE  LoggedEdgesLegal'
<1> DEFINE e == [kind |-> kind, to |-> to,
                 from |-> IF kind = "status_change"
                          THEN frame[a].request.status ELSE "unsaid"]
<1>1. trail \in Seq(Entry) /\ trail' = Append(trail, e)
  BY DEF TypeInv, TypeOK, LogEvent
<1>2. e.kind = "status_change" => CanTransition(e.from, e.to) OBVIOUS
<1> HIDE DEF e
<1>3. \A i \in DOMAIN trail' :
        trail'[i] = e \/ (i \in DOMAIN trail /\ trail'[i] = trail[i])
  BY <1>1
<1> QED BY <1>2, <1>3 DEF LoggedEdgesLegal

\* Every event is of an edge its call asserted.
LEMMA LoggedStep ==
  ASSUME TypeInv, AssertInv, LoggedEdgesLegal, [Next]_vars
  PROVE  LoggedEdgesLegal'
<1>0. \A a \in Actors : AssertedOK(frame[a]) BY DEF AssertInv
<1>1. CASE UNCHANGED trail BY <1>1 DEF LoggedEdgesLegal
<1>2. ASSUME NEW a \in Actors, TransitionLog(a) PROVE LoggedEdgesLegal'
  BY <1>0, <1>2, LogLegal DEF TransitionLog, AssertedOK
<1>3. ASSUME NEW a \in Actors, ExtendLog(a) PROVE LoggedEdgesLegal'
  BY <1>3, LogLegal DEF ExtendLog
<1>4. ASSUME NEW a \in Actors, DenyLog(a) PROVE LoggedEdgesLegal'
  BY <1>0, <1>4, LogLegal DEF DenyLog, At, AssertedOK
<1>5. ASSUME NEW a \in Actors, ReferenceLog(a) PROVE LoggedEdgesLegal'
  BY <1>0, <1>5, LogLegal DEF ReferenceLog, At, AssertedOK
<1>6. ASSUME NEW a \in Actors, ReferLog(a) \/ ForwardLog(a)
      PROVE  LoggedEdgesLegal'
  BY <1>0, <1>6, LogLegal DEF ReferLog, ForwardLog, At, AssertedOK
<1>7. ASSUME NEW a \in Actors, ReleaseLog(a) PROVE LoggedEdgesLegal'
  BY <1>7, LogLegal DEF ReleaseLog
<1> QED BY <1>1, <1>2, <1>3, <1>4, <1>5, <1>6, <1>7, TrailWriters

\* However calls interleave and wherever they fail, the changes of status in
\* the audit trail are edges of the lifecycle graph.
THEOREM TrailLegal == Spec => []LoggedEdgesLegal
<1> DEFINE Inv == TypeInv /\ AssertInv /\ LoggedEdgesLegal
<1>1. Init => Inv
  <2> SUFFICES ASSUME Init PROVE Inv
    OBVIOUS
  <2>1. AssertedOK(Idle) BY DEF AssertedOK, Idle, Final
  <2>2. AssertInv BY <2>1 DEF Init, AssertInv
  <2>3. LoggedEdgesLegal BY DEF Init, LoggedEdgesLegal
  <2> QED BY InitType, <2>2, <2>3
<1>2. Inv /\ [Next]_vars => Inv' BY TypeStep, AssertStep, LoggedStep
<1>3. Inv => LoggedEdgesLegal OBVIOUS
<1> QED BY <1>1, <1>2, <1>3, PTL DEF Spec

\* The thread is written by the letters and messages.
LEMMA ThreadWriters ==
  ASSUME [Next]_vars
  PROVE  \/ UNCHANGED thread
         \/ \E a \in Actors :
              \/ ExtendNotice(a) \/ DenyLetter(a) \/ ReferenceLetter(a)
              \/ ReferLetter(a) \/ ForwardLetter(a) \/ ClarifyMessage(a)
              \/ ReplyMessage(a) \/ ReleaseLetter(a)
<1> USE DEF Begin, rowVars
<1>1. ASSUME NEW a \in Actors, Transition(a) PROVE UNCHANGED thread
  BY <1>1 DEF Transition, TransitionRead, TransitionWrite, TransitionLog
<1>2. ASSUME NEW a \in Actors, Triage(a) PROVE UNCHANGED thread
  BY <1>2 DEF Triage, ApproveTriage, ApproveTriageWrite, TriageJob,
     ApplyTriageDraft, AutoDispatch, AutoDispatchTasks
<1>3. ASSUME NEW a \in Actors, Extension(a), UNCHANGED thread => FALSE
      PROVE  ExtendNotice(a)
  BY <1>3 DEF Extension, Extend, ExtendWrite, ExtendLog
<1>4. ASSUME NEW a \in Actors, Denial(a), UNCHANGED thread => FALSE
      PROVE  DenyLetter(a)
  BY <1>4 DEF Denial, Deny, DenyWrite, DenyLog
<1>5. ASSUME NEW a \in Actors, Reference(a), UNCHANGED thread => FALSE
      PROVE  ReferenceLetter(a)
  BY <1>5 DEF Reference, FulfillByReference, ReferenceWrite, ReferenceLog
<1>6. ASSUME NEW a \in Actors, Referral(a), UNCHANGED thread => FALSE
      PROVE  ReferLetter(a) \/ ForwardLetter(a)
  BY <1>6 DEF Referral, Refer, ReferWrite, ReferLog, Forward, ForwardFile,
     ForwardWrite, ForwardLog
<1>7. ASSUME NEW a \in Actors, Correspondence(a), UNCHANGED thread => FALSE
      PROVE  ClarifyMessage(a) \/ ReplyMessage(a)
  BY <1>7 DEF Correspondence, Clarify, Reply, Dispatch, DispatchTask
<1>8. ASSUME NEW a \in Actors, Releasing(a), UNCHANGED thread => FALSE
      PROVE  ReleaseLetter(a)
  BY <1>8 DEF Releasing, ReleaseRequest, ReleaseDocs, ReleaseReviews,
              ReleaseReviewsFirst, ReleaseDocsLast,
     ReleaseArtifacts, CreateRelease, ReleaseToRecordsReview, ReleaseStatus,
     ReleaseLog, ReleasePublish
<1>9. ASSUME NEW a \in Actors, Abort(a) PROVE UNCHANGED thread
  BY <1>9 DEF Abort
<1>10. ASSUME NEW d \in Docs, Review(d) PROVE UNCHANGED thread
  BY <1>10 DEF Review, AttachDocument, ReviewDocument, FinalizeRedaction
<1>11. CASE UNCHANGED vars BY <1>11 DEF vars
<1> QED
  BY <1>1, <1>2, <1>3, <1>4, <1>5, <1>6, <1>7, <1>8, <1>9, <1>10, <1>11
     DEF Next

\* A releases row is only written by createRelease.
LEMMA ReleaseWriters ==
  ASSUME [Next]_vars
  PROVE  \/ UNCHANGED releases
         \/ \E a \in Actors : CreateRelease(a)
<1> USE DEF Begin, outVars
<1>1. ASSUME NEW a \in Actors, Transition(a) PROVE UNCHANGED releases
  BY <1>1 DEF Transition, TransitionRead, TransitionWrite, TransitionLog
<1>2. ASSUME NEW a \in Actors, Triage(a) PROVE UNCHANGED releases
  BY <1>2 DEF Triage, ApproveTriage, ApproveTriageWrite, TriageJob,
     ApplyTriageDraft, AutoDispatch, AutoDispatchTasks
<1>3. ASSUME NEW a \in Actors, Extension(a) PROVE UNCHANGED releases
  BY <1>3 DEF Extension, Extend, ExtendWrite, ExtendLog, ExtendNotice
<1>4. ASSUME NEW a \in Actors, Denial(a) PROVE UNCHANGED releases
  BY <1>4 DEF Denial, Deny, DenyWrite, DenyLog, DenyLetter
<1>5. ASSUME NEW a \in Actors, Reference(a) PROVE UNCHANGED releases
  BY <1>5 DEF Reference, FulfillByReference, ReferenceLetter, ReferenceWrite,
     ReferenceLog
<1>6. ASSUME NEW a \in Actors, Referral(a) PROVE UNCHANGED releases
  BY <1>6 DEF Referral, Refer, ReferWrite, ReferLog, ReferLetter, Forward,
     ForwardFile, ForwardWrite, ForwardLog, ForwardLetter
<1>7. ASSUME NEW a \in Actors, Correspondence(a) PROVE UNCHANGED releases
  BY <1>7 DEF Correspondence, Clarify, ClarifyMessage, Reply, ReplyMessage,
     Dispatch, DispatchTask
<1>8. ASSUME NEW a \in Actors, Releasing(a), UNCHANGED releases => FALSE
      PROVE  CreateRelease(a)
  BY <1>8 DEF Releasing, ReleaseRequest, ReleaseDocs, ReleaseReviews,
              ReleaseReviewsFirst, ReleaseDocsLast,
     ReleaseArtifacts, ReleaseToRecordsReview, ReleaseStatus, ReleaseLog,
     ReleaseLetter, ReleasePublish
<1>9. ASSUME NEW a \in Actors, Abort(a) PROVE UNCHANGED releases
  BY <1>9 DEF Abort
<1>10. ASSUME NEW d \in Docs, Review(d) PROVE UNCHANGED releases
  BY <1>10 DEF Review, AttachDocument, ReviewDocument, FinalizeRedaction
<1>11. CASE UNCHANGED vars BY <1>11 DEF vars
<1> QED
  BY <1>1, <1>2, <1>3, <1>4, <1>5, <1>6, <1>7, <1>8, <1>9, <1>10, <1>11
     DEF Next

\* The archive is only written by the last step of releaseRequest.
LEMMA ArchiveWriters ==
  ASSUME [Next]_vars
  PROVE  \/ UNCHANGED archive
         \/ \E a \in Actors : ReleasePublish(a)
<1> USE DEF Begin, outVars
<1>1. ASSUME NEW a \in Actors, Transition(a) PROVE UNCHANGED archive
  BY <1>1 DEF Transition, TransitionRead, TransitionWrite, TransitionLog
<1>2. ASSUME NEW a \in Actors, Triage(a) PROVE UNCHANGED archive
  BY <1>2 DEF Triage, ApproveTriage, ApproveTriageWrite, TriageJob,
     ApplyTriageDraft, AutoDispatch, AutoDispatchTasks
<1>3. ASSUME NEW a \in Actors, Extension(a) PROVE UNCHANGED archive
  BY <1>3 DEF Extension, Extend, ExtendWrite, ExtendLog, ExtendNotice
<1>4. ASSUME NEW a \in Actors, Denial(a) PROVE UNCHANGED archive
  BY <1>4 DEF Denial, Deny, DenyWrite, DenyLog, DenyLetter
<1>5. ASSUME NEW a \in Actors, Reference(a) PROVE UNCHANGED archive
  BY <1>5 DEF Reference, FulfillByReference, ReferenceLetter, ReferenceWrite,
     ReferenceLog
<1>6. ASSUME NEW a \in Actors, Referral(a) PROVE UNCHANGED archive
  BY <1>6 DEF Referral, Refer, ReferWrite, ReferLog, ReferLetter, Forward,
     ForwardFile, ForwardWrite, ForwardLog, ForwardLetter
<1>7. ASSUME NEW a \in Actors, Correspondence(a) PROVE UNCHANGED archive
  BY <1>7 DEF Correspondence, Clarify, ClarifyMessage, Reply, ReplyMessage,
     Dispatch, DispatchTask
<1>8. ASSUME NEW a \in Actors, Releasing(a), UNCHANGED archive => FALSE
      PROVE  ReleasePublish(a)
  BY <1>8 DEF Releasing, ReleaseRequest, ReleaseDocs, ReleaseReviews,
              ReleaseReviewsFirst, ReleaseDocsLast,
     ReleaseArtifacts, CreateRelease, ReleaseToRecordsReview, ReleaseStatus,
     ReleaseLog, ReleaseLetter
<1>9. ASSUME NEW a \in Actors, Abort(a) PROVE UNCHANGED archive
  BY <1>9 DEF Abort
<1>10. ASSUME NEW d \in Docs, Review(d) PROVE UNCHANGED archive
  BY <1>10 DEF Review, AttachDocument, ReviewDocument, FinalizeRedaction
<1>11. CASE UNCHANGED vars BY <1>11 DEF vars
<1> QED
  BY <1>1, <1>2, <1>3, <1>4, <1>5, <1>6, <1>7, <1>8, <1>9, <1>10, <1>11
     DEF Next

\* A burned copy is only made by finalizeRedaction.
LEMMA ArtifactWriters ==
  ASSUME [Next]_vars
  PROVE  \/ UNCHANGED artifacts
         \/ \E d \in Docs : FinalizeRedaction(d)
<1> USE DEF Begin, reviewVars
<1>1. ASSUME NEW a \in Actors, Transition(a) PROVE UNCHANGED artifacts
  BY <1>1 DEF Transition, TransitionRead, TransitionWrite, TransitionLog
<1>2. ASSUME NEW a \in Actors, Triage(a) PROVE UNCHANGED artifacts
  BY <1>2 DEF Triage, ApproveTriage, ApproveTriageWrite, TriageJob,
     ApplyTriageDraft, AutoDispatch, AutoDispatchTasks
<1>3. ASSUME NEW a \in Actors, Extension(a) PROVE UNCHANGED artifacts
  BY <1>3 DEF Extension, Extend, ExtendWrite, ExtendLog, ExtendNotice
<1>4. ASSUME NEW a \in Actors, Denial(a) PROVE UNCHANGED artifacts
  BY <1>4 DEF Denial, Deny, DenyWrite, DenyLog, DenyLetter
<1>5. ASSUME NEW a \in Actors, Reference(a) PROVE UNCHANGED artifacts
  BY <1>5 DEF Reference, FulfillByReference, ReferenceLetter, ReferenceWrite,
     ReferenceLog
<1>6. ASSUME NEW a \in Actors, Referral(a) PROVE UNCHANGED artifacts
  BY <1>6 DEF Referral, Refer, ReferWrite, ReferLog, ReferLetter, Forward,
     ForwardFile, ForwardWrite, ForwardLog, ForwardLetter
<1>7. ASSUME NEW a \in Actors, Correspondence(a) PROVE UNCHANGED artifacts
  BY <1>7 DEF Correspondence, Clarify, ClarifyMessage, Reply, ReplyMessage,
     Dispatch, DispatchTask
<1>8. ASSUME NEW a \in Actors, Releasing(a) PROVE UNCHANGED artifacts
  BY <1>8 DEF Releasing, ReleaseRequest, ReleaseDocs, ReleaseReviews,
              ReleaseReviewsFirst, ReleaseDocsLast,
     ReleaseArtifacts, CreateRelease, ReleaseToRecordsReview, ReleaseStatus,
     ReleaseLog, ReleaseLetter, ReleasePublish
<1>9. ASSUME NEW a \in Actors, Abort(a) PROVE UNCHANGED artifacts
  BY <1>9 DEF Abort
<1>10. ASSUME NEW d \in Docs, Review(d), UNCHANGED artifacts => FALSE
      PROVE  FinalizeRedaction(d)
  BY <1>10 DEF Review, AttachDocument, ReviewDocument
<1>11. CASE UNCHANGED vars BY <1>11 DEF vars
<1> QED
  BY <1>1, <1>2, <1>3, <1>4, <1>5, <1>6, <1>7, <1>8, <1>9, <1>10, <1>11
     DEF Next

-----------------------------------------------------------------------------
(* What goes out.  A call that is about to write a letter has logged what  *)
(* the letter says, and a release that is under way ships burned copies.   *)

Holds(t, kind, outcomes) ==
  \E i \in DOMAIN t : t[i].kind = kind /\ t[i].to \in outcomes

TellOK(f, t) ==
  f.pc = "letter" =>
    /\ f.op = "deny" => Holds(t, "status_change", {"denied"})
    /\ f.op \in {"refer", "forward"} => Holds(t, "status_change", {"referred"})
    /\ f.op = "extend" => Holds(t, "extension", {"unsaid"})
    /\ f.op = "release" =>
         Holds(t, "approval", {"fulfilled", "partially_fulfilled"})

ShipOK(f, burned, made) ==
  f.op = "release" =>
    /\ f.pc \in {"attached", "artifacts", "create"}
         => f.ship \cap (f.burn \cup f.held) = {}
    /\ f.pc = "create" => f.burn \subseteq burned
    /\ f.pc \in {"status", "log", "letter", "publish"} => f.made \in made

OutInv ==
  \A a \in Actors : /\ TellOK(frame[a], trail)
                    /\ ShipOK(frame[a], artifacts, DOMAIN releases)

\* A sequence that is appended to keeps what it had.
LEMMA AppendGrows ==
  ASSUME NEW S, NEW s \in Seq(S), NEW e
  PROVE  /\ DOMAIN s \subseteq DOMAIN Append(s, e)
         /\ Len(s) + 1 \in DOMAIN Append(s, e)
         /\ DOMAIN Append(s, e) = DOMAIN s \cup {Len(s) + 1}
         /\ \A i \in DOMAIN s : Append(s, e)[i] = s[i]
         /\ Append(s, e)[Len(s) + 1] = e
OBVIOUS

\* The trail, the releases and the burned copies only grow.
LEMMA Growth ==
  ASSUME TypeInv, [Next]_vars
  PROVE  /\ DOMAIN trail \subseteq DOMAIN trail'
         /\ \A i \in DOMAIN trail : trail'[i] = trail[i]
         /\ artifacts \subseteq artifacts'
         /\ DOMAIN releases \subseteq DOMAIN releases'
<1>1. ASSUME NEW a \in Actors, NEW kind, NEW to, LogEvent(a, kind, to)
      PROVE  /\ DOMAIN trail \subseteq DOMAIN trail'
             /\ \A i \in DOMAIN trail : trail'[i] = trail[i]
  BY <1>1 DEF LogEvent, TypeInv, TypeOK
<1>2. /\ DOMAIN trail \subseteq DOMAIN trail'
      /\ \A i \in DOMAIN trail : trail'[i] = trail[i]
  BY <1>1, TrailWriters
  DEF TransitionLog, ExtendLog, DenyLog, ReferenceLog, ReferLog, ForwardLog,
      ReleaseLog
<1>3. artifacts \subseteq artifacts' BY ArtifactWriters DEF FinalizeRedaction
<1>4. DOMAIN releases \subseteq DOMAIN releases'
  <2>1. releases \in Seq(Release) BY DEF TypeInv, TypeOK
  <2>2. ASSUME NEW a \in Actors, CreateRelease(a)
        PROVE  DOMAIN releases \subseteq DOMAIN releases'
    BY <2>1, <2>2, AppendGrows DEF CreateRelease
  <2> QED BY <2>2, ReleaseWriters
<1> QED BY <1>2, <1>3, <1>4

\* Growth never takes away what a frame relies on.
LEMMA OutKept ==
  ASSUME TypeInv, [Next]_vars, NEW f,
         TellOK(f, trail), ShipOK(f, artifacts, DOMAIN releases)
  PROVE  TellOK(f, trail') /\ ShipOK(f, artifacts', DOMAIN releases')
<1>1. TellOK(f, trail') BY Growth DEF TellOK, Holds
<1>2. ShipOK(f, artifacts', DOMAIN releases') BY Growth DEF ShipOK
<1> QED BY <1>1, <1>2

\* A frame with its own grounds keeps everyone's.
LEMMA OutResuming ==
  ASSUME TypeInv, OutInv, [Next]_vars, NEW a \in Actors, NEW f, Resume(a, f),
         TellOK(f, trail'), ShipOK(f, artifacts', DOMAIN releases')
  PROVE  OutInv'
<1>1. frame'[a] = f /\ \A b \in Actors : b # a => frame'[b] = frame[b]
  BY DEF TypeInv, FrameInv, Resume
<1>2. \A b \in Actors : /\ TellOK(frame[b], trail')
                        /\ ShipOK(frame[b], artifacts', DOMAIN releases')
  BY OutKept DEF OutInv
<1> QED BY <1>1, <1>2 DEF OutInv

\* A call of another use-case, or one that ends, has nothing to answer for
\* unless a letter is next.
LEMMA OutElsewhere ==
  ASSUME TypeInv, OutInv, [Next]_vars, NEW a \in Actors, NEW f, Resume(a, f),
         f.pc # "letter" \/ f.op = "fulfillByReference", f.op # "release"
  PROVE  OutInv'
<1>1. TellOK(f, trail') /\ ShipOK(f, artifacts', DOMAIN releases')
  BY DEF TellOK, ShipOK
<1> QED BY <1>1, OutResuming

\* A call that ends needs no grounds.
LEMMA OutFinishing ==
  ASSUME TypeInv, OutInv, [Next]_vars, NEW a \in Actors, Finish(a)
  PROVE  OutInv'
<1>1. Idle.pc # "letter" /\ Idle.op # "release" BY DEF Idle
<1> QED BY <1>1, OutElsewhere DEF Finish

\* Nor does one that moves on to a step that sends nothing.
LEMMA OutGoing ==
  ASSUME TypeInv, OutInv, [Next]_vars, NEW a \in Actors, NEW pc \in Pc,
         Goto(a, pc), pc # "letter", frame[a].op # "release"
  PROVE  OutInv'
<1> DEFINE f == [frame[a] EXCEPT !.pc = pc]
<1>1. frame[a] \in Frame BY DEF TypeInv, FrameInv
<1>2. f.pc = pc /\ f.op = frame[a].op BY <1>1, PcUpdate
<1>3. Resume(a, f) BY DEF Goto
<1> HIDE DEF f
<1> QED BY <1>2, <1>3, OutElsewhere

\* Nor does one that begins.
LEMMA OutBeginning ==
  ASSUME TypeInv, OutInv, [Next]_vars, NEW a \in Actors,
  NEW op \in AllHandlers,
         NEW pc \in Pc, NEW todo, Begin(a, op, pc, todo),
         pc # "letter" \/ op = "fulfillByReference",
         op = "release" => pc = "docs"
  PROVE  OutInv'
<1> DEFINE f == [Idle EXCEPT !.op = op, !.pc = pc, !.request = request,
                            !.todo = todo]
<1>1. f.op = op /\ f.pc = pc BY IdleType DEF Frame, Idle
<1>2. Resume(a, f) BY DEF Begin
<1> HIDE DEF f
<1>3. TellOK(f, trail') /\ ShipOK(f, artifacts', DOMAIN releases')
  BY <1>1 DEF TellOK, ShipOK
<1> QED BY <1>2, <1>3, OutResuming

\* An event that was just logged is in the trail.
LEMMA LogHolds ==
  ASSUME NEW a \in Actors, NEW kind, NEW to, NEW outcomes, to \in outcomes,
         trail \in Seq(Entry), LogEvent(a, kind, to)
  PROVE  Holds(trail', kind, outcomes)
<1> DEFINE e == [kind |-> kind, to |-> to,
                 from |-> IF kind = "status_change"
                          THEN frame[a].request.status ELSE "unsaid"]
<1>1. trail' = Append(trail, e) BY DEF LogEvent
<1>2. e.kind = kind /\ e.to = to OBVIOUS
<1> HIDE DEF e
<1> QED BY <1>1, <1>2, AppendGrows DEF Holds

\* Every step leaves every call with its grounds.
LEMMA OutStep ==
  ASSUME TypeInv, AssertInv, OutInv, [Next]_vars
  PROVE  OutInv'
<1>1. ASSUME NEW a \in Actors, ApproveTriage(a) PROVE OutInv'
  <2> DEFINE todo == IF request.status = "submitted"
                     THEN <<"in_review">> ELSE <<>>
  <2>1. Begin(a, "approveTriage", "write", todo) BY <1>1 DEF ApproveTriage
  <2> HIDE DEF todo
  <2> QED BY <2>1, OutBeginning DEF AllHandlers, Pc
<1>2. ASSUME NEW a \in Actors, TriageJob(a) PROVE OutInv'
  <2> DEFINE todo == <<>>
  <2>1. Begin(a, "triageJob", "write", todo) BY <1>2 DEF TriageJob
  <2> HIDE DEF todo
  <2> QED BY <2>1, OutBeginning DEF AllHandlers, Pc
<1>3. ASSUME NEW a \in Actors, Extend(a) PROVE OutInv'
  <2> DEFINE todo == <<>>
  <2>1. Begin(a, "extend", "write", todo) BY <1>3 DEF Extend
  <2> HIDE DEF todo
  <2> QED BY <2>1, OutBeginning DEF AllHandlers, Pc
<1>4. ASSUME NEW a \in Actors, Deny(a) PROVE OutInv'
  <2> DEFINE todo == <<>>
  <2>1. Begin(a, "deny", "write", todo) BY <1>4 DEF Deny
  <2> HIDE DEF todo
  <2> QED BY <2>1, OutBeginning DEF AllHandlers, Pc
<1>5. ASSUME NEW a \in Actors, FulfillByReference(a) PROVE OutInv'
  <2> DEFINE todo == <<>>
  <2>1. Begin(a, "fulfillByReference", "letter", todo) BY <1>5
    DEF FulfillByReference
  <2> HIDE DEF todo
  <2> QED BY <2>1, OutBeginning DEF AllHandlers, Pc
<1>6. ASSUME NEW a \in Actors, Refer(a) PROVE OutInv'
  <2> DEFINE todo == <<>>
  <2>1. Begin(a, "refer", "write", todo) BY <1>6 DEF Refer
  <2> HIDE DEF todo
  <2> QED BY <2>1, OutBeginning DEF AllHandlers, Pc
<1>7. ASSUME NEW a \in Actors, Forward(a) PROVE OutInv'
  <2> DEFINE todo == <<>>
  <2>1. Begin(a, "forward", "file", todo) BY <1>7 DEF Forward
  <2> HIDE DEF todo
  <2> QED BY <2>1, OutBeginning DEF AllHandlers, Pc
<1>8. ASSUME NEW a \in Actors, Clarify(a) PROVE OutInv'
  <2> DEFINE todo == <<"clarification_needed">>
  <2>1. Begin(a, "clarify", "message", todo) BY <1>8 DEF Clarify
  <2> HIDE DEF todo
  <2> QED BY <2>1, OutBeginning DEF AllHandlers, Pc
<1>9. ASSUME NEW a \in Actors, Reply(a) PROVE OutInv'
  <2> DEFINE todo == IF request.status = "clarification_needed"
                     THEN <<"in_review">> ELSE <<>>
  <2>1. Begin(a, "reply", "message", todo) BY <1>9 DEF Reply
  <2> HIDE DEF todo
  <2> QED BY <2>1, OutBeginning DEF AllHandlers, Pc
<1>10. ASSUME NEW a \in Actors, ReleaseRequest(a) PROVE OutInv'
  <2> DEFINE todo == <<>>
  <2>1. Begin(a, "release", "docs", todo) BY <1>10 DEF ReleaseRequest
  <2> HIDE DEF todo
  <2> QED BY <2>1, OutBeginning DEF AllHandlers, Pc
<1>11. ASSUME NEW a \in Actors, Dispatch(a) PROVE OutInv'
  <2> DEFINE todo == Onward(request.status)
             pc == IF todo = <<>> THEN "task" ELSE "transition"
  <2>1. Begin(a, "dispatch", pc, todo) BY <1>11 DEF Dispatch
  <2>2. pc \in Pc /\ pc # "letter" BY DEF Pc
  <2> HIDE DEF todo, pc
  <2> QED BY <2>1, <2>2, OutBeginning DEF AllHandlers
<1>12. ASSUME NEW a \in Actors, TransitionRead(a) PROVE OutInv'
  <2> DEFINE f == [frame[a] EXCEPT !.pc = "move", !.request = request]
  <2>1. frame[a] \in Frame /\ TodoOK(frame[a]) /\ AssertedOK(frame[a])
    BY DEF TypeInv, FrameInv, AssertInv
  <2>2. frame[a].op # "release"
    BY <1>12, <2>1 DEF TransitionRead, TodoOK, AssertedOK, Final
  <2>3. f.pc = "move" /\ f.op = frame[a].op BY <2>1 DEF Frame
  <2>4. Resume(a, f) \/ Finish(a) BY <1>12 DEF TransitionRead
  <2> HIDE DEF f
  <2> QED BY <2>2, <2>3, <2>4, OutElsewhere, OutFinishing
<1>13. ASSUME NEW a \in Actors, TransitionWrite(a) PROVE OutInv'
  <2>1. frame[a] \in Frame /\ TodoOK(frame[a]) /\ AssertedOK(frame[a])
    BY DEF TypeInv, FrameInv, AssertInv
  <2>2. frame[a].op # "release"
    BY <1>13, <2>1 DEF TransitionWrite, TodoOK, AssertedOK, Final
  <2> QED BY <1>13, <2>2, OutGoing DEF TransitionWrite, Pc
<1>14. ASSUME NEW a \in Actors, TransitionLog(a) PROVE OutInv'
  <2> DEFINE f(pc) == [frame[a] EXCEPT !.pc = pc, !.todo = Tail(frame[a].todo)]
  <2>1. frame[a] \in Frame /\ TodoOK(frame[a]) /\ AssertedOK(frame[a])
    BY DEF TypeInv, FrameInv, AssertInv
  <2>2. frame[a].op # "release" BY <1>14, <2>1
    DEF TransitionLog, AssertedOK, Final
  <2>3. ASSUME NEW pc \in {"transition", "task"}
        PROVE  f(pc).pc = pc /\ f(pc).op = frame[a].op
    BY <2>1 DEF Frame
  <2>4. Resume(a, f("transition")) \/ Resume(a, f("task")) \/ Finish(a)
    BY <1>14 DEF TransitionLog
  <2> HIDE DEF f
  <2> QED BY <2>2, <2>3, <2>4, OutElsewhere, OutFinishing
<1>15. ASSUME NEW a \in Actors, ApproveTriageWrite(a) PROVE OutInv'
  BY <1>15, OutGoing, OutFinishing DEF ApproveTriageWrite, At, Pc
<1>16. ASSUME NEW a \in Actors, ReferenceLetter(a) PROVE OutInv'
  BY <1>16, OutGoing DEF ReferenceLetter, At, Pc
<1>17. ASSUME NEW a \in Actors, ClarifyMessage(a) PROVE OutInv'
  BY <1>17, OutGoing DEF ClarifyMessage, At, Pc
<1>18. ASSUME NEW a \in Actors, ReplyMessage(a) PROVE OutInv'
  BY <1>18, OutGoing, OutFinishing DEF ReplyMessage, At, Pc
<1>19. ASSUME NEW a \in Actors, ExtendWrite(a) PROVE OutInv'
  BY <1>19, OutGoing DEF ExtendWrite, At, Pc
<1>20. ASSUME NEW a \in Actors, DenyWrite(a) PROVE OutInv'
  BY <1>20, OutGoing DEF DenyWrite, At, Pc
<1>21. ASSUME NEW a \in Actors, ReferenceWrite(a) PROVE OutInv'
  BY <1>21, OutGoing DEF ReferenceWrite, At, Pc
<1>22. ASSUME NEW a \in Actors, ReferWrite(a) PROVE OutInv'
  BY <1>22, OutGoing DEF ReferWrite, At, Pc
<1>23. ASSUME NEW a \in Actors, ForwardWrite(a) PROVE OutInv'
  BY <1>23, OutGoing DEF ForwardWrite, At, Pc
<1>24. ASSUME NEW a \in Actors, ForwardFile(a) PROVE OutInv'
  <2> DEFINE f == [frame[a] EXCEPT !.pc = "write", !.made = filings + 1]
  <2>1. frame[a] \in Frame BY DEF TypeInv, FrameInv
  <2>2. f.pc = "write" /\ f.op = "forward" BY <1>24, <2>1
    DEF ForwardFile, At, Frame
  <2>3. Resume(a, f) BY <1>24 DEF ForwardFile
  <2> HIDE DEF f
  <2> QED BY <2>2, <2>3, OutElsewhere
<1>25. ASSUME NEW a \in Actors, ExtendLog(a) PROVE OutInv'
  <2> DEFINE f == [frame[a] EXCEPT !.pc = "letter"]
  <2>1. frame[a] \in Frame /\ trail \in Seq(Entry)
    BY DEF TypeInv, FrameInv, TypeOK
  <2>2. Holds(trail', "extension", {"unsaid"})
    BY <1>25, <2>1, LogHolds DEF ExtendLog
  <2>3. f.op = "extend" BY <1>25, <2>1, PcUpdate DEF ExtendLog, At, Pc
  <2>4. Resume(a, f) BY <1>25 DEF ExtendLog, Goto
  <2> HIDE DEF f
  <2>5. TellOK(f, trail') /\ ShipOK(f, artifacts', DOMAIN releases')
    BY <2>2, <2>3 DEF TellOK, ShipOK
  <2> QED BY <2>4, <2>5, OutResuming
<1>26. ASSUME NEW a \in Actors, DenyLog(a) PROVE OutInv'
  <2> DEFINE f == [frame[a] EXCEPT !.pc = "letter"]
  <2>1. frame[a] \in Frame /\ trail \in Seq(Entry)
    BY DEF TypeInv, FrameInv, TypeOK
  <2>2. Holds(trail', "status_change", {"denied"})
    BY <1>26, <2>1, LogHolds DEF DenyLog
  <2>3. f.op = "deny" BY <1>26, <2>1, PcUpdate DEF DenyLog, At, Pc
  <2>4. Resume(a, f) BY <1>26 DEF DenyLog, Goto
  <2> HIDE DEF f
  <2>5. TellOK(f, trail') /\ ShipOK(f, artifacts', DOMAIN releases')
    BY <2>2, <2>3 DEF TellOK, ShipOK
  <2> QED BY <2>4, <2>5, OutResuming
<1>27. ASSUME NEW a \in Actors, ReferLog(a) PROVE OutInv'
  <2> DEFINE f == [frame[a] EXCEPT !.pc = "letter"]
  <2>1. frame[a] \in Frame /\ trail \in Seq(Entry)
    BY DEF TypeInv, FrameInv, TypeOK
  <2>2. Holds(trail', "status_change", {"referred"})
    BY <1>27, <2>1, LogHolds DEF ReferLog
  <2>3. f.op = "refer" BY <1>27, <2>1, PcUpdate DEF ReferLog, At, Pc
  <2>4. Resume(a, f) BY <1>27 DEF ReferLog, Goto
  <2> HIDE DEF f
  <2>5. TellOK(f, trail') /\ ShipOK(f, artifacts', DOMAIN releases')
    BY <2>2, <2>3 DEF TellOK, ShipOK
  <2> QED BY <2>4, <2>5, OutResuming
<1>28. ASSUME NEW a \in Actors, ForwardLog(a) PROVE OutInv'
  <2> DEFINE f == [frame[a] EXCEPT !.pc = "letter"]
  <2>1. frame[a] \in Frame /\ trail \in Seq(Entry)
    BY DEF TypeInv, FrameInv, TypeOK
  <2>2. Holds(trail', "status_change", {"referred"})
    BY <1>28, <2>1, LogHolds DEF ForwardLog
  <2>3. f.op = "forward" BY <1>28, <2>1, PcUpdate DEF ForwardLog, At, Pc
  <2>4. Resume(a, f) BY <1>28 DEF ForwardLog, Goto
  <2> HIDE DEF f
  <2>5. TellOK(f, trail') /\ ShipOK(f, artifacts', DOMAIN releases')
    BY <2>2, <2>3 DEF TellOK, ShipOK
  <2> QED BY <2>4, <2>5, OutResuming
<1>29. ASSUME NEW a \in Actors, ReleaseDocs(a) PROVE OutInv'
  <2> DEFINE f == [frame[a] EXCEPT !.pc = "reviews", !.docs = attached]
  <2>1. frame[a] \in Frame BY DEF TypeInv, FrameInv
  <2>2. f.pc = "reviews" BY <2>1 DEF Frame
  <2>3. Resume(a, f) \/ Finish(a) BY <1>29 DEF ReleaseDocs
  <2> HIDE DEF f
  <2>4. TellOK(f, trail') /\ ShipOK(f, artifacts', DOMAIN releases')
    BY <2>2 DEF TellOK, ShipOK
  <2> QED BY <2>3, <2>4, OutResuming, OutFinishing
<1>30. ASSUME NEW a \in Actors, ReleaseReviews(a) PROVE OutInv'
  <2> DEFINE docs == frame[a].docs
             f == [frame[a] EXCEPT !.pc = "artifacts",
                     !.ship = Marked(docs, "release"),
                     !.burn = Marked(docs, "release_redacted"),
                     !.held = Marked(docs, "withhold")]
  <2>1. frame[a] \in Frame BY DEF TypeInv, FrameInv
  <2>2. /\ f.pc = "artifacts" /\ f.ship = Marked(docs, "release")
        /\ f.burn = Marked(docs, "release_redacted")
        /\ f.held = Marked(docs, "withhold")
    BY <2>1 DEF Frame
  <2>3. Marked(docs, "release") \cap
          (Marked(docs, "release_redacted") \cup Marked(docs, "withhold")) = {}
    BY DEF Marked
  <2>4. Resume(a, f) \/ Finish(a) BY <1>30 DEF ReleaseReviews
  <2> HIDE DEF f
  <2>5. TellOK(f, trail') /\ ShipOK(f, artifacts', DOMAIN releases')
    BY <2>2, <2>3 DEF TellOK, ShipOK
  <2> QED BY <2>4, <2>5, OutResuming, OutFinishing
<1>31. ASSUME NEW a \in Actors, ReleaseArtifacts(a) PROVE OutInv'
  <2> DEFINE f == [frame[a] EXCEPT !.pc = "create"]
  <2>1. frame[a] \in Frame /\ ShipOK(frame[a], artifacts, DOMAIN releases)
    BY DEF TypeInv, FrameInv, OutInv
  <2>2. /\ f.pc = "create" /\ f.op = frame[a].op /\ f.ship = frame[a].ship
        /\ f.burn = frame[a].burn /\ f.held = frame[a].held
    BY <2>1, PcUpdate DEF Pc
  <2>3. \/ Resume(a, f) /\ frame[a].burn \subseteq artifacts
        \/ Finish(a)
    BY <1>31 DEF ReleaseArtifacts, Goto
  <2> HIDE DEF f
  <2>4. artifacts' = artifacts BY <1>31 DEF ReleaseArtifacts, reviewVars
  <2>5. CASE Resume(a, f) /\ frame[a].burn \subseteq artifacts
    <3>1. TellOK(f, trail') BY <2>2 DEF TellOK
    <3>2. ShipOK(f, artifacts', DOMAIN releases')
      BY <1>31, <2>1, <2>2, <2>4, <2>5 DEF ShipOK, ReleaseArtifacts, At
    <3> QED BY <2>5, <3>1, <3>2, OutResuming
  <2> QED BY <2>3, <2>5, OutFinishing
<1>32. ASSUME NEW a \in Actors, CreateRelease(a) PROVE OutInv'
  <2> DEFINE f == [frame[a] EXCEPT !.pc = "status", !.made = Len(releases) + 1]
  <2>1. frame[a] \in Frame /\ releases \in Seq(Release)
    BY DEF TypeInv, FrameInv, TypeOK
  <2>2. f.pc = "status" /\ f.made = Len(releases) + 1 BY <2>1 DEF Frame
  <2>3. Resume(a, f) BY <1>32 DEF CreateRelease
  <2> HIDE DEF f
  <2>4. f.made \in DOMAIN releases' BY <1>32, <2>1, <2>2, AppendGrows
    DEF CreateRelease
  <2>5. TellOK(f, trail') /\ ShipOK(f, artifacts', DOMAIN releases')
    BY <2>2, <2>4 DEF TellOK, ShipOK
  <2> QED BY <2>3, <2>5, OutResuming
<1>33. ASSUME NEW a \in Actors, ReleaseToRecordsReview(a) PROVE OutInv'
  <2> DEFINE f == [frame[a] EXCEPT !.request.status = "records_review"]
  <2>1. /\ frame[a] \in Frame
        /\ frame[a].op = "release" /\ frame[a].pc = "status"
        /\ ShipOK(frame[a], artifacts, DOMAIN releases)
    BY <1>33 DEF TypeInv, FrameInv, OutInv, ReleaseToRecordsReview, At
  <2>2. f.pc = "status" /\ f.made = frame[a].made BY <2>1 DEF Frame
  <2>3. Resume(a, f) BY <1>33 DEF ReleaseToRecordsReview
  <2> HIDE DEF f
  <2>4. TellOK(f, trail') /\ ShipOK(f, artifacts', DOMAIN releases')
    BY <2>1, <2>2, Growth DEF TellOK, ShipOK
  <2> QED BY <2>3, <2>4, OutResuming
<1>34. ASSUME NEW a \in Actors, ReleaseStatus(a) PROVE OutInv'
  <2> DEFINE f == [frame[a] EXCEPT !.pc = "log"]
  <2>1. /\ frame[a] \in Frame
        /\ frame[a].op = "release" /\ frame[a].pc = "status"
        /\ ShipOK(frame[a], artifacts, DOMAIN releases)
    BY <1>34 DEF TypeInv, FrameInv, OutInv, ReleaseStatus, At
  <2>2. f.pc = "log" /\ f.op = "release" /\ f.made = frame[a].made
    BY <2>1, PcUpdate DEF Pc
  <2>3. Resume(a, f) \/ Finish(a) BY <1>34 DEF ReleaseStatus, Goto
  <2> HIDE DEF f
  <2>4. TellOK(f, trail') /\ ShipOK(f, artifacts', DOMAIN releases')
    BY <2>1, <2>2, Growth DEF TellOK, ShipOK
  <2> QED BY <2>3, <2>4, OutResuming, OutFinishing
<1>35. ASSUME NEW a \in Actors, ReleaseLog(a) PROVE OutInv'
  <2> DEFINE f == [frame[a] EXCEPT !.pc = "letter"]
  <2>0. Holds(trail', "approval", {"fulfilled", "partially_fulfilled"})
    BY <1>35, LogHolds DEF ReleaseLog, FinalStatus, TypeInv, TypeOK
  <2>1. /\ frame[a] \in Frame
        /\ frame[a].op = "release" /\ frame[a].pc = "log"
        /\ ShipOK(frame[a], artifacts, DOMAIN releases)
    BY <1>35 DEF TypeInv, FrameInv, OutInv, ReleaseLog, At
  <2>2. f.pc = "letter" /\ f.op = "release" /\ f.made = frame[a].made
    BY <2>1, PcUpdate DEF Pc
  <2>3. Resume(a, f) BY <1>35 DEF ReleaseLog, Goto
  <2> HIDE DEF f
  <2>4. TellOK(f, trail') /\ ShipOK(f, artifacts', DOMAIN releases')
    BY <2>0, <2>1, <2>2, Growth DEF TellOK, ShipOK
  <2> QED BY <2>3, <2>4, OutResuming
<1>36. ASSUME NEW a \in Actors, ReleaseLetter(a) PROVE OutInv'
  <2> DEFINE f == [frame[a] EXCEPT !.pc = "publish"]
  <2>1. /\ frame[a] \in Frame
        /\ frame[a].op = "release" /\ frame[a].pc = "letter"
        /\ ShipOK(frame[a], artifacts, DOMAIN releases)
    BY <1>36 DEF TypeInv, FrameInv, OutInv, ReleaseLetter, At
  <2>2. f.pc = "publish" /\ f.op = "release" /\ f.made = frame[a].made
    BY <2>1, PcUpdate DEF Pc
  <2>3. Resume(a, f) BY <1>36 DEF ReleaseLetter, Goto
  <2> HIDE DEF f
  <2>4. TellOK(f, trail') /\ ShipOK(f, artifacts', DOMAIN releases')
    BY <2>1, <2>2, Growth DEF TellOK, ShipOK
  <2> QED BY <2>3, <2>4, OutResuming
<1>37. ASSUME NEW a \in Actors, ApplyTriageDraft(a) PROVE OutInv'
  BY <1>37, OutGoing, OutFinishing DEF ApplyTriageDraft, At, Pc
<1>38. ASSUME NEW a \in Actors, ExtendNotice(a) PROVE OutInv'
  BY <1>38, OutFinishing DEF ExtendNotice
<1>39. ASSUME NEW a \in Actors, DenyLetter(a) PROVE OutInv'
  BY <1>39, OutFinishing DEF DenyLetter
<1>40. ASSUME NEW a \in Actors, ReferenceLog(a) PROVE OutInv'
  BY <1>40, OutFinishing DEF ReferenceLog
<1>41. ASSUME NEW a \in Actors, ReferLetter(a) PROVE OutInv'
  BY <1>41, OutFinishing DEF ReferLetter
<1>42. ASSUME NEW a \in Actors, ForwardLetter(a) PROVE OutInv'
  BY <1>42, OutFinishing DEF ForwardLetter
<1>43. ASSUME NEW a \in Actors, DispatchTask(a) PROVE OutInv'
  BY <1>43, OutFinishing DEF DispatchTask
<1>44. ASSUME NEW a \in Actors, ReleasePublish(a) PROVE OutInv'
  BY <1>44, OutFinishing DEF ReleasePublish
<1>45. ASSUME NEW a \in Actors, Abort(a) PROVE OutInv'
  BY <1>45, OutFinishing DEF Abort
<1>46. ASSUME UNCHANGED frame PROVE OutInv'
  BY <1>46, OutKept DEF OutInv
<1>47. ASSUME NEW d \in Docs, Review(d) PROVE OutInv'
  BY <1>46, <1>47 DEF Review, AttachDocument, ReviewDocument, FinalizeRedaction
<1>48. CASE UNCHANGED vars BY <1>46, <1>48 DEF vars
<1>49. ASSUME NEW a \in Actors, AutoDispatch(a) PROVE OutInv'
  <2> DEFINE f == [frame[a] EXCEPT !.pc = "tasks", !.request = request,
                                   !.todo = Onward(request.status)]
  <2>1. frame[a] \in Frame BY DEF TypeInv, FrameInv
  <2>2. f.pc = "tasks" /\ f.op = "triageJob"
    BY <1>49, <2>1 DEF AutoDispatch, At, Frame
  <2>3. Resume(a, f) \/ Finish(a) BY <1>49 DEF AutoDispatch
  <2> HIDE DEF f
  <2> QED BY <2>2, <2>3, OutElsewhere, OutFinishing
<1>50. ASSUME NEW a \in Actors, AutoDispatchTasks(a) PROVE OutInv'
  <2> DEFINE f == [frame[a] EXCEPT !.op = "dispatch", !.pc = "transition"]
  <2>1. frame[a] \in Frame BY DEF TypeInv, FrameInv
  <2>2. f.pc = "transition" /\ f.op = "dispatch" BY <2>1 DEF Frame
  <2>3. Resume(a, f) \/ Finish(a) BY <1>50 DEF AutoDispatchTasks
  <2> HIDE DEF f
  <2> QED BY <2>2, <2>3, OutElsewhere, OutFinishing
<1>51. ASSUME NEW a \in Actors, ReleaseReviewsFirst(a) PROVE OutInv'
  <2> DEFINE f == [frame[a] EXCEPT !.pc = "attached",
                     !.ship = Marked(Docs, "release"),
                     !.burn = Marked(Docs, "release_redacted"),
                     !.held = Marked(Docs, "withhold")]
  <2>1. frame[a] \in Frame BY DEF TypeInv, FrameInv
  <2>2. /\ f.pc = "attached" /\ f.ship = Marked(Docs, "release")
        /\ f.burn = Marked(Docs, "release_redacted")
        /\ f.held = Marked(Docs, "withhold")
    BY <2>1 DEF Frame
  <2>3. Marked(Docs, "release") \cap
          (Marked(Docs, "release_redacted") \cup Marked(Docs, "withhold")) = {}
    BY DEF Marked
  <2>4. Resume(a, f) BY <1>51 DEF ReleaseReviewsFirst
  <2> HIDE DEF f
  <2>5. TellOK(f, trail') /\ ShipOK(f, artifacts', DOMAIN releases')
    BY <2>2, <2>3 DEF TellOK, ShipOK
  <2> QED BY <2>4, <2>5, OutResuming
<1>52. ASSUME NEW a \in Actors, ReleaseDocsLast(a) PROVE OutInv'
  <2> DEFINE g == frame[a]
             f == [frame[a] EXCEPT !.pc = "artifacts", !.docs = attached,
                     !.ship = frame[a].ship \cap attached,
                     !.burn = frame[a].burn \cap attached,
                     !.held = frame[a].held \cap attached]
  <2>1. /\ g \in Frame /\ g.ship \cap (g.burn \cup g.held) = {}
    BY <1>52 DEF TypeInv, FrameInv, OutInv, ShipOK, ReleaseDocsLast, At
  <2>2. /\ f.pc = "artifacts" /\ f.ship = g.ship \cap attached
        /\ f.burn = g.burn \cap attached /\ f.held = g.held \cap attached
    BY <2>1 DEF Frame
  <2>3. Resume(a, f) \/ Finish(a) BY <1>52 DEF ReleaseDocsLast
  <2> HIDE DEF f
  <2>4. TellOK(f, trail') BY <2>2 DEF TellOK
  <2>5. ShipOK(f, artifacts', DOMAIN releases') BY <2>1, <2>2 DEF ShipOK
  <2> QED BY <2>3, <2>4, <2>5, OutResuming, OutFinishing
<1> QED
  BY <1>1, <1>2, <1>3, <1>4, <1>5, <1>6, <1>7, <1>8, <1>9, <1>10, <1>11,
     <1>12, <1>13, <1>14, <1>15, <1>16, <1>17, <1>18, <1>19, <1>20, <1>21,
     <1>22, <1>23, <1>24, <1>25, <1>26, <1>27, <1>28, <1>29, <1>30, <1>31,
     <1>32, <1>33, <1>34, <1>35, <1>36, <1>37, <1>38, <1>39, <1>40, <1>41,
     <1>42, <1>43, <1>44, <1>45, <1>46, <1>47, <1>48, <1>49, <1>50, <1>51,
     <1>52
  DEF Next, Transition, Triage, Extension, Denial, Reference, Referral,
      Correspondence, Releasing

\* Letters whose events are in the trail keep the thread audited.
LEMMA AuditedGrows ==
  ASSUME TypeInv, LetterIsAudited, [Next]_vars, NEW kinds,
         thread' \subseteq thread \cup kinds,
         "denied" \in kinds => Holds(trail, "status_change", {"denied"}),
         "referred" \in kinds => Holds(trail, "status_change", {"referred"}),
         "extension" \in kinds => Holds(trail, "extension", {"unsaid"}),
         "released" \in kinds =>
           Holds(trail, "approval", {"fulfilled", "partially_fulfilled"})
  PROVE  LetterIsAudited'
<1>1. "denied" \in thread' => Logged("status_change", "denied")'
  BY Growth DEF LetterIsAudited, Logged, Holds
<1>2. "referred" \in thread' => Logged("status_change", "referred")'
  BY Growth DEF LetterIsAudited, Logged, Holds
<1>3. "extension" \in thread' =>
        \E i \in DOMAIN trail' : trail'[i].kind = "extension"
  BY Growth DEF LetterIsAudited, Holds
<1>4. "released" \in thread' => \/ Logged("approval", "fulfilled")'
                                \/ Logged("approval", "partially_fulfilled")'
  BY Growth DEF LetterIsAudited, Logged, Holds
<1> QED BY <1>1, <1>2, <1>3, <1>4 DEF LetterIsAudited

\* Every letter is sent on grounds the trail holds.
LEMMA AuditedStep ==
  ASSUME TypeInv, OutInv, LetterIsAudited, [Next]_vars
  PROVE  LetterIsAudited'
<1>0. \A a \in Actors : TellOK(frame[a], trail) BY DEF OutInv
<1>1. CASE UNCHANGED thread BY <1>1, AuditedGrows
<1>2. ASSUME NEW a \in Actors, ExtendNotice(a) PROVE LetterIsAudited'
  <2>1. thread' \subseteq thread \cup {"extension"} BY <1>2
    DEF ExtendNotice, Send
  <2>2. Holds(trail, "extension", {"unsaid"})
    BY <1>0, <1>2 DEF ExtendNotice, At, TellOK
  <2> QED BY <2>1, <2>2, AuditedGrows
<1>3. ASSUME NEW a \in Actors, DenyLetter(a) PROVE LetterIsAudited'
  <2>1. thread' \subseteq thread \cup {"denied"} BY <1>3 DEF DenyLetter, Send
  <2>2. Holds(trail, "status_change", {"denied"})
    BY <1>0, <1>3 DEF DenyLetter, At, TellOK
  <2> QED BY <2>1, <2>2, AuditedGrows
<1>4. ASSUME NEW a \in Actors, ReferLetter(a) \/ ForwardLetter(a)
      PROVE  LetterIsAudited'
  <2>1. thread' \subseteq thread \cup {"referred"}
    BY <1>4 DEF ReferLetter, ForwardLetter, Send
  <2>2. Holds(trail, "status_change", {"referred"})
    BY <1>0, <1>4 DEF ReferLetter, ForwardLetter, At, TellOK
  <2> QED BY <2>1, <2>2, AuditedGrows
<1>5. ASSUME NEW a \in Actors, ReleaseLetter(a) PROVE LetterIsAudited'
  <2>1. thread' \subseteq thread \cup {"released"} BY <1>5
    DEF ReleaseLetter, Send
  <2>2. Holds(trail, "approval", {"fulfilled", "partially_fulfilled"})
    BY <1>0, <1>5 DEF ReleaseLetter, At, TellOK
  <2> QED BY <2>1, <2>2, AuditedGrows
<1>6. ASSUME NEW a \in Actors, NEW kind \in {"fulfilled", "clarification",
  "reply"},
             Send(kind)
      PROVE  LetterIsAudited'
  <2>1. thread' \subseteq thread \cup {kind} BY <1>6 DEF Send
  <2> QED BY <2>1, AuditedGrows
<1>7. ASSUME NEW a \in Actors,
             ReferenceLetter(a) \/ ClarifyMessage(a) \/ ReplyMessage(a)
      PROVE  LetterIsAudited'
  BY <1>6, <1>7 DEF ReferenceLetter, ClarifyMessage, ReplyMessage
<1> QED BY <1>1, <1>2, <1>3, <1>4, <1>5, <1>7, ThreadWriters

\* Every release is made from burned copies that exist.
LEMMA BurnedStep ==
  ASSUME TypeInv, OutInv, RedactedShipsBurned, [Next]_vars
  PROVE  RedactedShipsBurned'
<1>0. \A a \in Actors : ShipOK(frame[a], artifacts, DOMAIN releases)
  BY DEF OutInv
<1>1. \A i \in DOMAIN releases' :
        /\ releases'[i].burn \subseteq artifacts'
        /\ releases'[i].ship
             \cap (releases'[i].burn \cup releases'[i].held) = {}
  <2>1. CASE UNCHANGED releases BY <2>1, Growth DEF RedactedShipsBurned
  <2>2. ASSUME NEW a \in Actors, CreateRelease(a)
        PROVE  \A i \in DOMAIN releases' :
                 /\ releases'[i].burn \subseteq artifacts'
                 /\ releases'[i].ship
                      \cap (releases'[i].burn \cup releases'[i].held) = {}
    <3> DEFINE r == [ship |-> frame[a].ship, burn |-> frame[a].burn,
                     held |-> frame[a].held]
    <3>1. r.burn \subseteq artifacts /\ r.ship \cap (r.burn \cup r.held) = {}
      BY <1>0, <2>2 DEF CreateRelease, At, ShipOK
    <3>2. releases \in Seq(Release) /\ releases' = Append(releases, r)
      BY <2>2 DEF CreateRelease, TypeInv, TypeOK
    <3> HIDE DEF r
    <3>3. \A i \in DOMAIN releases' :
            \/ releases'[i] = r
            \/ i \in DOMAIN releases /\ releases'[i] = releases[i]
      BY <3>2, AppendGrows
    <3> QED BY <3>1, <3>3, Growth DEF RedactedShipsBurned
  <2> QED BY <2>1, <2>2, ReleaseWriters
<1>2. archive' \subseteq DOMAIN releases'
  <2>1. CASE UNCHANGED archive BY <2>1, Growth DEF RedactedShipsBurned
  <2>2. ASSUME NEW a \in Actors, ReleasePublish(a)
        PROVE  archive' \subseteq DOMAIN releases'
    <3>1. frame[a].made \in DOMAIN releases
      BY <1>0, <2>2 DEF ReleasePublish, At, ShipOK
    <3> QED BY <2>2, <3>1, Growth DEF ReleasePublish, RedactedShipsBurned
  <2> QED BY <2>1, <2>2, ArchiveWriters
<1> QED BY <1>1, <1>2 DEF RedactedShipsBurned

\* The letters and the burned copies support each other.
LEMMA OutgoingSound == Spec => [](LetterIsAudited /\ RedactedShipsBurned)
<1> DEFINE Inv == TypeInv /\ AssertInv /\ OutInv
                  /\ LetterIsAudited /\ RedactedShipsBurned
<1>1. Init => Inv
  <2> SUFFICES ASSUME Init PROVE Inv
    OBVIOUS
  <2>1. AssertedOK(Idle) BY DEF AssertedOK, Idle, Final
  <2>2. AssertInv BY <2>1 DEF Init, AssertInv
  <2>3. OutInv BY DEF Init, OutInv, Idle, TellOK, ShipOK
  <2>4. LetterIsAudited BY DEF Init, LetterIsAudited
  <2>5. RedactedShipsBurned BY DEF Init, RedactedShipsBurned
  <2> QED BY InitType, <2>2, <2>3, <2>4, <2>5
<1>2. Inv /\ [Next]_vars => Inv'
  BY TypeStep, AssertStep, OutStep, AuditedStep, BurnedStep
<1>3. Inv => LetterIsAudited /\ RedactedShipsBurned OBVIOUS
<1> QED BY <1>1, <1>2, <1>3, PTL DEF Spec

\* However calls interleave and wherever they fail, a letter of denial or
\* referral, an extension notice or a release letter is in the thread only if
\* the audit trail holds the event it speaks of.
THEOREM LettersAudited == Spec => []LetterIsAudited
<1>1. LetterIsAudited /\ RedactedShipsBurned => LetterIsAudited OBVIOUS
<1> QED BY <1>1, OutgoingSound, PTL

\* A redacted document leaves the agency as its burned copy only.
THEOREM BurnedCopiesOnly == Spec => []RedactedShipsBurned
<1>1. LetterIsAudited /\ RedactedShipsBurned => RedactedShipsBurned OBVIOUS
<1> QED BY <1>1, OutgoingSound, PTL

-----------------------------------------------------------------------------
(* Nobody is told while the clock runs.  A determination is only logged    *)
(* after the row was closed, no later step opens a row, and the archive    *)
(* comes after the letter.                                                 *)

\* The use-cases that answer a request.
Answering == {"deny", "fulfillByReference", "refer", "forward", "release"}

StoppedOK(f, closed, sent) ==
  /\ f.pc = "log" /\ f.op \in Answering => closed
  /\ f.pc = "publish" => "released" \in sent

StoppedInv == \A a \in Actors : StoppedOK(frame[a], request.closed, thread)

AnswersLogged ==
  \A i \in DOMAIN trail :
    trail[i].kind # "extension" /\ trail[i].to \in Determined => request.closed

\* No step opens a closed request.
LEMMA ClosedStays ==
  ASSUME TypeInv, [Next]_vars, request.closed
  PROVE  request'.closed
<1>0. request \in Row BY DEF TypeInv, TypeOK
<1>1. CASE UNCHANGED request BY <1>1
<1>2. ASSUME NEW to, NEW id, Close(to, id) PROVE request'.closed
  BY <1>0, <1>2 DEF Close, Row
<1>3. ASSUME NEW a \in Actors,
             \/ DenyWrite(a) \/ ReferenceWrite(a) \/ ReferWrite(a)
             \/ ForwardWrite(a) \/ ReleaseStatus(a)
      PROVE  request'.closed
  BY <1>1, <1>2, <1>3
  DEF DenyWrite, ReferenceWrite, ReferWrite, ForwardWrite, ReleaseStatus
<1>4. ASSUME NEW a \in Actors,
             \/ TransitionWrite(a) \/ ApproveTriageWrite(a)
             \/ ApplyTriageDraft(a) \/ ExtendWrite(a)
             \/ ReleaseToRecordsReview(a)
      PROVE  request'.closed
  BY <1>0, <1>4 DEF TransitionWrite, ApproveTriageWrite, ApplyTriageDraft,
                    ExtendWrite, ReleaseToRecordsReview, Row
<1> QED BY <1>1, <1>3, <1>4, RequestWriters

\* No step takes a letter back.
LEMMA ThreadGrows ==
  ASSUME [Next]_vars
  PROVE  thread \subseteq thread'
BY ThreadWriters DEF ExtendNotice, DenyLetter, ReferenceLetter, ReferLetter,
   ForwardLetter, ClarifyMessage, ReplyMessage, ReleaseLetter, Send

\* Only a write of the row leads to the log, only a letter to the archive.
LEMMA Movers ==
  ASSUME TypeInv, [Next]_vars, NEW b \in Actors, frame'[b] # frame[b],
         frame'[b].pc \in {"log", "publish"}
  PROVE  \/ TransitionWrite(b) \/ ExtendWrite(b) \/ DenyWrite(b)
         \/ ReferenceWrite(b) \/ ReferWrite(b) \/ ForwardWrite(b)
         \/ ReleaseStatus(b) \/ ReleaseLetter(b)
<1>0. frame \in [Actors -> Frame] /\ Idle.pc = "idle"
  BY DEF TypeInv, FrameInv, Idle
<1> DEFINE late == {"log", "publish"}
<1>1. ASSUME NEW a \in Actors, NEW f, Resume(a, f), f.pc \notin late PROVE FALSE
  BY <1>0, <1>1 DEF Resume
<1>2. ASSUME NEW a \in Actors, Finish(a) PROVE FALSE
  BY <1>0, <1>1, <1>2 DEF Finish
<1>3. ASSUME NEW a \in Actors, NEW pc \in Pc \ late, Goto(a, pc) PROVE FALSE
  <2> DEFINE f == [frame[a] EXCEPT !.pc = pc]
  <2>1. f.pc = pc BY <1>0, PcUpdate
  <2>2. Resume(a, f) BY <1>3 DEF Goto
  <2> HIDE DEF f
  <2> QED BY <1>1, <2>1, <2>2
<1>4. ASSUME NEW a \in Actors, NEW op, NEW pc, NEW todo,
             Begin(a, op, pc, todo), pc \notin late
      PROVE  FALSE
  <2> DEFINE f == [Idle EXCEPT !.op = op, !.pc = pc, !.request = request,
                              !.todo = todo]
  <2>1. f.pc = pc BY DEF Idle
  <2>2. Resume(a, f) BY <1>4 DEF Begin
  <2> HIDE DEF f
  <2> QED BY <1>1, <1>4, <2>1, <2>2
<1>5. ASSUME NEW a \in Actors,
             \/ TransitionWrite(a) \/ ExtendWrite(a) \/ DenyWrite(a)
             \/ ReferenceWrite(a) \/ ReferWrite(a) \/ ForwardWrite(a)
             \/ ReleaseStatus(a) \/ ReleaseLetter(a)
      PROVE  a = b
  BY <1>0, <1>5 DEF TransitionWrite, ExtendWrite, DenyWrite, ReferenceWrite,
     ReferWrite, ForwardWrite, ReleaseStatus, ReleaseLetter, Goto, Finish,
     Resume
<1>6. ASSUME NEW a \in Actors, Transition(a) PROVE TransitionWrite(a)
  <2>1. ASSUME TransitionRead(a) PROVE FALSE
    <3> DEFINE f == [frame[a] EXCEPT !.pc = "move", !.request = request]
    <3>1. f.pc = "move" BY <1>0 DEF Frame
    <3>2. Resume(a, f) \/ Finish(a) BY <2>1 DEF TransitionRead
    <3> HIDE DEF f
    <3> QED BY <1>1, <1>2, <3>1, <3>2
  <2>2. ASSUME TransitionLog(a) PROVE FALSE
    <3> DEFINE f(pc) == [frame[a] EXCEPT !.pc = pc,
                                         !.todo = Tail(frame[a].todo)]
    <3>1. f("transition").pc = "transition" /\ f("task").pc = "task"
      BY <1>0 DEF Frame
    <3>2. Resume(a, f("transition")) \/ Resume(a, f("task")) \/ Finish(a)
      BY <2>2 DEF TransitionLog
    <3> HIDE DEF f
    <3> QED BY <1>1, <1>2, <3>1, <3>2
  <2> QED BY <1>6, <2>1, <2>2 DEF Transition
<1>7. ASSUME NEW a \in Actors, Triage(a) PROVE FALSE
  <2>1. ASSUME ApproveTriage(a) \/ TriageJob(a) PROVE FALSE
    BY <1>4, <2>1 DEF ApproveTriage, TriageJob
  <2>2. ASSUME ApproveTriageWrite(a) \/ ApplyTriageDraft(a) PROVE FALSE
    BY <1>2, <1>3, <2>2 DEF ApproveTriageWrite, ApplyTriageDraft, Pc
  <2>3. ASSUME AutoDispatch(a) PROVE FALSE
    <3> DEFINE f == [frame[a] EXCEPT !.pc = "tasks", !.request = request,
                                     !.todo = Onward(request.status)]
    <3>1. f.pc = "tasks" BY <1>0 DEF Frame
    <3>2. Resume(a, f) \/ Finish(a) BY <2>3 DEF AutoDispatch
    <3> HIDE DEF f
    <3> QED BY <1>1, <1>2, <3>1, <3>2
  <2>4. ASSUME AutoDispatchTasks(a) PROVE FALSE
    <3> DEFINE f == [frame[a] EXCEPT !.op = "dispatch", !.pc = "transition"]
    <3>1. f.pc = "transition" BY <1>0 DEF Frame
    <3>2. Resume(a, f) \/ Finish(a) BY <2>4 DEF AutoDispatchTasks
    <3> HIDE DEF f
    <3> QED BY <1>1, <1>2, <3>1, <3>2
  <2> QED BY <1>7, <2>1, <2>2, <2>3, <2>4 DEF Triage
<1>8. ASSUME NEW a \in Actors, Extension(a) PROVE ExtendWrite(a)
  <2>1. ASSUME Extend(a) PROVE FALSE BY <1>4, <2>1 DEF Extend
  <2>2. ASSUME ExtendLog(a) \/ ExtendNotice(a) PROVE FALSE
    BY <1>2, <1>3, <2>2 DEF ExtendLog, ExtendNotice, Pc
  <2> QED BY <1>8, <2>1, <2>2 DEF Extension
<1>9. ASSUME NEW a \in Actors, Denial(a) PROVE DenyWrite(a)
  <2>1. ASSUME Deny(a) PROVE FALSE BY <1>4, <2>1 DEF Deny
  <2>2. ASSUME DenyLog(a) \/ DenyLetter(a) PROVE FALSE
    BY <1>2, <1>3, <2>2 DEF DenyLog, DenyLetter, Pc
  <2> QED BY <1>9, <2>1, <2>2 DEF Denial
<1>10. ASSUME NEW a \in Actors, Reference(a) PROVE ReferenceWrite(a)
  <2>1. ASSUME FulfillByReference(a) PROVE FALSE
    BY <1>4, <2>1 DEF FulfillByReference
  <2>2. ASSUME ReferenceLetter(a) \/ ReferenceLog(a) PROVE FALSE
    BY <1>2, <1>3, <2>2 DEF ReferenceLetter, ReferenceLog, Pc
  <2> QED BY <1>10, <2>1, <2>2 DEF Reference
<1>11. ASSUME NEW a \in Actors, Referral(a) PROVE ReferWrite(a) \/ ForwardWrite(a)
  <2>1. ASSUME Refer(a) \/ Forward(a) PROVE FALSE
    BY <1>4, <2>1 DEF Refer, Forward
  <2>2. ASSUME ReferLog(a) \/ ReferLetter(a) \/ ForwardLog(a) \/ ForwardLetter(a)
        PROVE  FALSE
    BY <1>2, <1>3, <2>2 DEF ReferLog, ReferLetter, ForwardLog, ForwardLetter, Pc
  <2>3. ASSUME ForwardFile(a) PROVE FALSE
    <3> DEFINE f == [frame[a] EXCEPT !.pc = "write", !.made = filings + 1]
    <3>1. f.pc = "write" BY <1>0 DEF Frame
    <3>2. Resume(a, f) BY <2>3 DEF ForwardFile
    <3> HIDE DEF f
    <3> QED BY <1>1, <3>1, <3>2
  <2> QED BY <1>11, <2>1, <2>2, <2>3 DEF Referral
<1>12. ASSUME NEW a \in Actors, Correspondence(a) PROVE FALSE
  <2>1. ASSUME Clarify(a) \/ Reply(a) PROVE FALSE
    BY <1>4, <2>1 DEF Clarify, Reply
  <2>2. ASSUME Dispatch(a) PROVE FALSE
    <3> DEFINE todo == Onward(request.status)
               pc == IF todo = <<>> THEN "task" ELSE "transition"
    <3>1. Begin(a, "dispatch", pc, todo) BY <2>2 DEF Dispatch
    <3>2. pc \notin late OBVIOUS
    <3> HIDE DEF todo, pc
    <3> QED BY <1>4, <3>1, <3>2
  <2>3. ASSUME ClarifyMessage(a) \/ ReplyMessage(a) \/ DispatchTask(a)
        PROVE  FALSE
    BY <1>2, <1>3, <2>3 DEF ClarifyMessage, ReplyMessage, DispatchTask, Pc
  <2> QED BY <1>12, <2>1, <2>2, <2>3 DEF Correspondence
<1>13. ASSUME NEW a \in Actors, Releasing(a)
       PROVE  ReleaseStatus(a) \/ ReleaseLetter(a)
  <2>1. ASSUME ReleaseRequest(a) PROVE FALSE BY <1>4, <2>1 DEF ReleaseRequest
  <2>2. ASSUME ReleaseArtifacts(a) \/ ReleaseLog(a) \/ ReleasePublish(a)
        PROVE  FALSE
    BY <1>2, <1>3, <2>2 DEF ReleaseArtifacts, ReleaseLog, ReleasePublish, Pc
  <2>3. ASSUME ReleaseDocs(a) PROVE FALSE
    <3> DEFINE f == [frame[a] EXCEPT !.pc = "reviews", !.docs = attached]
    <3>1. f.pc = "reviews" BY <1>0 DEF Frame
    <3>2. Resume(a, f) \/ Finish(a) BY <2>3 DEF ReleaseDocs
    <3> HIDE DEF f
    <3> QED BY <1>1, <1>2, <3>1, <3>2
  <2>4. ASSUME ReleaseReviews(a) PROVE FALSE
    <3> DEFINE docs == frame[a].docs
               f == [frame[a] EXCEPT !.pc = "artifacts",
                       !.ship = Marked(docs, "release"),
                       !.burn = Marked(docs, "release_redacted"),
                       !.held = Marked(docs, "withhold")]
    <3>1. f.pc = "artifacts" BY <1>0 DEF Frame
    <3>2. Resume(a, f) \/ Finish(a) BY <2>4 DEF ReleaseReviews
    <3> HIDE DEF f
    <3> QED BY <1>1, <1>2, <3>1, <3>2
  <2>5. ASSUME CreateRelease(a) PROVE FALSE
    <3> DEFINE f == [frame[a] EXCEPT !.pc = "status",
                                     !.made = Len(releases) + 1]
    <3>1. f.pc = "status" BY <1>0 DEF Frame
    <3>2. Resume(a, f) BY <2>5 DEF CreateRelease
    <3> HIDE DEF f
    <3> QED BY <1>1, <3>1, <3>2
  <2>6. ASSUME ReleaseToRecordsReview(a) PROVE FALSE
    <3> DEFINE f == [frame[a] EXCEPT !.request.status = "records_review"]
    <3>1. f.pc = "status" BY <1>0, <2>6 DEF Frame, ReleaseToRecordsReview, At
    <3>2. Resume(a, f) BY <2>6 DEF ReleaseToRecordsReview
    <3> HIDE DEF f
    <3> QED BY <1>1, <3>1, <3>2
  <2>7. ASSUME ReleaseReviewsFirst(a) PROVE FALSE
    <3> DEFINE f == [frame[a] EXCEPT !.pc = "attached",
                       !.ship = Marked(Docs, "release"),
                       !.burn = Marked(Docs, "release_redacted"),
                       !.held = Marked(Docs, "withhold")]
    <3>1. f.pc = "attached" BY <1>0 DEF Frame
    <3>2. Resume(a, f) BY <2>7 DEF ReleaseReviewsFirst
    <3> HIDE DEF f
    <3> QED BY <1>1, <3>1, <3>2
  <2>8. ASSUME ReleaseDocsLast(a) PROVE FALSE
    <3> DEFINE f == [frame[a] EXCEPT !.pc = "artifacts", !.docs = attached,
                       !.ship = frame[a].ship \cap attached,
                       !.burn = frame[a].burn \cap attached,
                       !.held = frame[a].held \cap attached]
    <3>1. f.pc = "artifacts" BY <1>0 DEF Frame
    <3>2. Resume(a, f) \/ Finish(a) BY <2>8 DEF ReleaseDocsLast
    <3> HIDE DEF f
    <3> QED BY <1>1, <1>2, <3>1, <3>2
  <2> QED BY <1>13, <2>1, <2>2, <2>3, <2>4, <2>5, <2>6, <2>7, <2>8
          DEF Releasing
<1>14. ASSUME NEW a \in Actors, Abort(a) PROVE FALSE
  BY <1>2, <1>14 DEF Abort
<1>15. ASSUME NEW d \in Docs, Review(d) PROVE FALSE
  BY <1>15 DEF Review, AttachDocument, ReviewDocument, FinalizeRedaction
<1>16. CASE UNCHANGED vars BY <1>16 DEF vars
<1> QED
  BY <1>5, <1>6, <1>7, <1>8, <1>9, <1>10, <1>11, <1>12, <1>13, <1>14, <1>15,
     <1>16
  DEF Next

\* A call that is about to log an answer finds the row closed.
LEMMA StoppedStep ==
  ASSUME TypeInv, AssertInv, StoppedInv, [Next]_vars
  PROVE  StoppedInv'
<1> SUFFICES ASSUME NEW b \in Actors
             PROVE  StoppedOK(frame'[b], request'.closed, thread')
  BY DEF StoppedInv
<1>0. /\ frame \in [Actors -> Frame] /\ request \in Row
      /\ TodoOK(frame[b]) /\ AssertedOK(frame[b])
      /\ StoppedOK(frame[b], request.closed, thread)
  BY DEF TypeInv, FrameInv, TypeOK, AssertInv, StoppedInv
<1>1. CASE frame'[b] = frame[b]
  BY <1>0, <1>1, ClosedStays, ThreadGrows DEF StoppedOK
<1>2. CASE frame'[b].pc \notin {"log", "publish"} BY <1>2 DEF StoppedOK
<1>3. ASSUME NEW pc \in Pc, Goto(b, pc)
      PROVE  frame'[b].pc = pc /\ frame'[b].op = frame[b].op
  <2> DEFINE f == [frame[b] EXCEPT !.pc = pc]
  <2>1. f.pc = pc /\ f.op = frame[b].op BY <1>0, PcUpdate
  <2>2. frame'[b] = f BY <1>0, <1>3 DEF Goto, Resume
  <2> HIDE DEF f
  <2> QED BY <2>1, <2>2
<1>4. ASSUME NEW to, NEW id, Close(to, id) PROVE request'.closed
  BY <1>0, <1>4 DEF Close, Row
<1>5. CASE TransitionWrite(b)
  <2>1. frame[b].op \notin Final
    BY <1>0, <1>5 DEF TransitionWrite, TodoOK, AssertedOK
  <2> QED BY <1>3, <1>5, <2>1 DEF TransitionWrite, StoppedOK, Answering, Final, Pc
<1>6. CASE ExtendWrite(b)
  BY <1>3, <1>6 DEF ExtendWrite, At, StoppedOK, Answering, Pc
<1>7. CASE DenyWrite(b) \/ ReferenceWrite(b) \/ ReferWrite(b) \/ ForwardWrite(b)
  BY <1>3, <1>4, <1>7
  DEF DenyWrite, ReferenceWrite, ReferWrite, ForwardWrite, StoppedOK, Pc
<1>8. CASE ReleaseStatus(b)
  <2>1. CASE Finish(b)
    <3>1. frame'[b] = Idle BY <1>0, <2>1 DEF Finish, Resume
    <3> QED BY <1>2, <3>1 DEF Idle
  <2> QED BY <1>3, <1>4, <1>8, <2>1 DEF ReleaseStatus, StoppedOK, Pc
<1>9. CASE ReleaseLetter(b)
  BY <1>3, <1>9 DEF ReleaseLetter, Send, StoppedOK, Pc
<1> QED BY <1>1, <1>2, <1>5, <1>6, <1>7, <1>8, <1>9, Movers

\* An answer in the trail means the row is closed.
LEMMA AnswersStep ==
  ASSUME TypeInv, StoppedInv, AnswersLogged, [Next]_vars
  PROVE  AnswersLogged'
<1>0. trail \in Seq(Entry) BY DEF TypeInv, TypeOK
<1>1. CASE UNCHANGED trail BY <1>1, ClosedStays DEF AnswersLogged
<1>2. ASSUME NEW a \in Actors, NEW kind, NEW to, LogEvent(a, kind, to),
             kind = "extension" \/ to \notin Determined \/ request.closed
      PROVE  AnswersLogged'
  <2> DEFINE e == [kind |-> kind, to |-> to,
                   from |-> IF kind = "status_change"
                            THEN frame[a].request.status ELSE "unsaid"]
  <2>1. trail' = Append(trail, e) BY <1>2 DEF LogEvent
  <2>2. e.kind = kind /\ e.to = to OBVIOUS
  <2> HIDE DEF e
  <2>3. \A i \in DOMAIN trail' :
          \/ trail'[i] = e
          \/ i \in DOMAIN trail /\ trail'[i] = trail[i]
    BY <1>0, <2>1, AppendGrows
  <2> QED BY <1>2, <2>2, <2>3, ClosedStays DEF AnswersLogged
<1>3. ASSUME NEW a \in Actors, TransitionLog(a) PROVE AnswersLogged'
  <2>1. Head(frame[a].todo) \in Working
    BY <1>3, NextTodo DEF TransitionLog, TypeInv, FrameInv, TodoOK
  <2>2. Head(frame[a].todo) \notin Determined
    BY <2>1 DEF Working, Determined
  <2> QED BY <1>2, <1>3, <2>2 DEF TransitionLog
<1>4. ASSUME NEW a \in Actors, ExtendLog(a) PROVE AnswersLogged'
  BY <1>2, <1>4 DEF ExtendLog
<1>5. ASSUME NEW a \in Actors,
             \/ DenyLog(a) \/ ReferenceLog(a) \/ ReferLog(a) \/ ForwardLog(a)
             \/ ReleaseLog(a)
      PROVE  AnswersLogged'
  <2>1. request.closed
    BY <1>5 DEF DenyLog, ReferenceLog, ReferLog, ForwardLog, ReleaseLog, At,
                StoppedInv, StoppedOK, Answering
  <2> QED BY <1>2, <1>5, <2>1
          DEF DenyLog, ReferenceLog, ReferLog, ForwardLog, ReleaseLog
<1> QED BY <1>1, <1>3, <1>4, <1>5, TrailWriters

\* So the letter that follows the event, and the archive entry that follows
\* the letter, find the clock stopped.
LEMMA ToldStep ==
  ASSUME TypeInv, OutInv, StoppedInv, AnswersLogged, ToldIsClosed, [Next]_vars
  PROVE  ToldIsClosed'
<1> DEFINE told == {"denied", "referred", "released"}
<1>1. CASE request.closed BY <1>1, ClosedStays DEF ToldIsClosed
<1>2. ASSUME NEW a \in Actors,
             \/ DenyLetter(a) \/ ReferLetter(a) \/ ForwardLetter(a)
             \/ ReleaseLetter(a)
      PROVE  request.closed
  <2>1. TellOK(frame[a], trail) BY DEF OutInv
  <2>2. \/ Holds(trail, "status_change", {"denied"})
        \/ Holds(trail, "status_change", {"referred"})
        \/ Holds(trail, "approval", {"fulfilled", "partially_fulfilled"})
    BY <1>2, <2>1
    DEF DenyLetter, ReferLetter, ForwardLetter, ReleaseLetter, At, TellOK
  <2> QED BY <2>2 DEF Holds, AnswersLogged, Determined
<1>3. ASSUME NEW a \in Actors, ReleasePublish(a) PROVE request.closed
  <2>1. "released" \in thread
    BY <1>3 DEF ReleasePublish, At, StoppedInv, StoppedOK
  <2> QED BY <2>1 DEF ToldIsClosed
<1>4. ASSUME NEW a \in Actors,
             \/ ExtendNotice(a) \/ ReferenceLetter(a) \/ ClarifyMessage(a)
             \/ ReplyMessage(a)
      PROVE  thread' \cap told = thread \cap told
  BY <1>4 DEF ExtendNotice, ReferenceLetter, ClarifyMessage, ReplyMessage, Send
<1>5. CASE ~request.closed
  <2>1. thread' \cap told = thread \cap told
    BY <1>2, <1>4, <1>5, ThreadWriters
  <2>2. archive' = archive BY <1>3, <1>5, ArchiveWriters
  <2> QED BY <1>5, <2>1, <2>2 DEF ToldIsClosed
<1> QED BY <1>1, <1>5

\* However calls interleave and wherever they fail, a letter of denial,
\* referral or release, or a public archive entry, finds the request closed.
THEOREM NobodyToldEarly == Spec => []ToldIsClosed
<1> DEFINE Inv == /\ TypeInv /\ AssertInv /\ OutInv
                  /\ StoppedInv /\ AnswersLogged /\ ToldIsClosed
<1>1. Init => Inv
  <2> SUFFICES ASSUME Init PROVE Inv
    OBVIOUS
  <2>1. AssertedOK(Idle) BY DEF AssertedOK, Idle, Final
  <2>2. AssertInv BY <2>1 DEF Init, AssertInv
  <2>3. OutInv BY DEF Init, OutInv, Idle, TellOK, ShipOK
  <2>4. StoppedInv BY DEF Init, StoppedInv, StoppedOK, Idle
  <2>5. AnswersLogged BY DEF Init, AnswersLogged
  <2>6. ToldIsClosed BY DEF Init, ToldIsClosed
  <2> QED BY InitType, <2>2, <2>3, <2>4, <2>5, <2>6
<1>2. Inv /\ [Next]_vars => Inv'
  BY TypeStep, AssertStep, OutStep, StoppedStep, AnswersStep, ToldStep
<1>3. Inv => ToldIsClosed OBVIOUS
<1> QED BY <1>1, <1>2, <1>3, PTL DEF Spec

-----------------------------------------------------------------------------
(* Calls that do not overlap.  A call begins when the last has returned,   *)
(* so what one has read nobody changes but itself.                         *)

\* No two calls are under way.
Alone == \A a, b \in Actors : frame[a] # Idle /\ frame[b] # Idle => a = b

Acts(a) == \/ Transition(a) \/ Triage(a) \/ Extension(a) \/ Denial(a)
           \/ Reference(a) \/ Referral(a) \/ Correspondence(a)
           \/ Releasing(a) \/ Abort(a)

\* An action of a call touches its own frame; the first one waits for the
\* last call to return and every other one finds the call under way.
LEMMA OwnFrame ==
  ASSUME TypeInv, NEW a \in Actors, Acts(a)
  PROVE  /\ \A b \in Actors : b # a => frame'[b] = frame[b]
         /\ frame[a] = Idle => Undisturbed
<1>0. frame \in [Actors -> Frame] /\ Idle.pc = "idle" /\ Idle.op = "none"
  BY DEF TypeInv, FrameInv, Idle
<1> DEFINE Own == /\ \A b \in Actors : b # a => frame'[b] = frame[b]
                  /\ frame[a] = Idle => Undisturbed
<1>1. ASSUME NEW f, Resume(a, f), frame[a].pc # "idle" PROVE Own
  BY <1>0, <1>1 DEF Resume
<1>2. ASSUME Finish(a), frame[a].pc # "idle" PROVE Own
  BY <1>1, <1>2 DEF Finish
<1>3. ASSUME NEW pc, Goto(a, pc), frame[a].pc # "idle" PROVE Own
  BY <1>1, <1>3 DEF Goto
<1>4. ASSUME NEW op, NEW pc, NEW todo, Begin(a, op, pc, todo) PROVE Own
  BY <1>0, <1>4 DEF Begin, Resume
<1> HIDE DEF Own
<1>5. ASSUME Transition(a) PROVE Own
  BY <1>1, <1>2, <1>3, <1>5
  DEF Transition, TransitionRead, TransitionWrite, TransitionLog
<1>6. ASSUME Triage(a) PROVE Own
  BY <1>1, <1>2, <1>3, <1>4, <1>6
  DEF Triage, ApproveTriage, ApproveTriageWrite, TriageJob, ApplyTriageDraft,
      AutoDispatch, AutoDispatchTasks, At
<1>7. ASSUME Extension(a) PROVE Own
  BY <1>2, <1>3, <1>4, <1>7
  DEF Extension, Extend, ExtendWrite, ExtendLog, ExtendNotice, At
<1>8. ASSUME Denial(a) PROVE Own
  BY <1>2, <1>3, <1>4, <1>8
  DEF Denial, Deny, DenyWrite, DenyLog, DenyLetter, At
<1>9. ASSUME Reference(a) PROVE Own
  BY <1>2, <1>3, <1>4, <1>9
  DEF Reference, FulfillByReference, ReferenceLetter, ReferenceWrite,
      ReferenceLog, At
<1>10. ASSUME Referral(a) PROVE Own
  BY <1>1, <1>2, <1>3, <1>4, <1>10
  DEF Referral, Refer, ReferWrite, ReferLog, ReferLetter, Forward,
      ForwardFile, ForwardWrite, ForwardLog, ForwardLetter, At
<1>11. ASSUME Correspondence(a) PROVE Own
  BY <1>2, <1>3, <1>4, <1>11
  DEF Correspondence, Clarify, ClarifyMessage, Reply, ReplyMessage, Dispatch,
      DispatchTask, At
<1>12. ASSUME Releasing(a) PROVE Own
  BY <1>1, <1>2, <1>3, <1>4, <1>12
  DEF Releasing, ReleaseRequest, ReleaseDocs, ReleaseReviews,
              ReleaseReviewsFirst, ReleaseDocsLast,
      ReleaseArtifacts, CreateRelease, ReleaseToRecordsReview, ReleaseStatus,
      ReleaseLog, ReleaseLetter, ReleasePublish, At
<1>13. ASSUME Abort(a) PROVE Own
  BY <1>0, <1>13 DEF Abort, Finish, Resume, Own
<1> QED
  BY <1>5, <1>6, <1>7, <1>8, <1>9, <1>10, <1>11, <1>12, <1>13 DEF Acts, Own

\* The circumstances never change.
LEMMA SameCircumstances ==
  ASSUME TypeInv, [Next]_vars
  PROVE  (Serial' <=> Serial) /\ (Orderly' <=> Orderly)
<1>1. env' = env \/ env' = [env EXCEPT !.calls = @ - 1]
  <2>1. ASSUME NEW a \in Actors, NEW op, NEW pc, NEW todo,
               Begin(a, op, pc, todo)
        PROVE  env' = [env EXCEPT !.calls = @ - 1]
    BY <2>1 DEF Begin
  <2>2. ASSUME NEW a \in Actors, Acts(a)
        PROVE  env' = env \/ env' = [env EXCEPT !.calls = @ - 1]
    <3>1. CASE Transition(a) \/ Triage(a) \/ Extension(a) \/ Abort(a)
      BY <2>1, <3>1
      DEF Transition, TransitionRead, TransitionWrite, TransitionLog, Triage,
          ApproveTriage, ApproveTriageWrite, TriageJob, ApplyTriageDraft,
          AutoDispatch, AutoDispatchTasks, Extension, Extend, ExtendWrite,
          ExtendLog, ExtendNotice, Abort
    <3>2. CASE Denial(a) \/ Reference(a) \/ Referral(a)
      BY <2>1, <3>2
      DEF Denial, Deny, DenyWrite, DenyLog, DenyLetter, Reference,
          FulfillByReference, ReferenceLetter, ReferenceWrite, ReferenceLog,
          Referral, Refer, ReferWrite, ReferLog, ReferLetter, Forward,
          ForwardFile, ForwardWrite, ForwardLog, ForwardLetter
    <3>3. CASE Correspondence(a) \/ Releasing(a)
      BY <2>1, <3>3
      DEF Correspondence, Clarify, ClarifyMessage, Reply, ReplyMessage,
          Dispatch, DispatchTask, Releasing, ReleaseRequest, ReleaseDocs,
          ReleaseReviews, ReleaseReviewsFirst, ReleaseDocsLast,
          ReleaseArtifacts, CreateRelease,
          ReleaseToRecordsReview, ReleaseStatus, ReleaseLog, ReleaseLetter,
          ReleasePublish
    <3> QED BY <2>2, <3>1, <3>2, <3>3 DEF Acts
  <2>3. ASSUME NEW d \in Docs, Review(d) PROVE env' = env
    BY <2>3 DEF Review, AttachDocument, ReviewDocument, FinalizeRedaction
  <2>4. CASE UNCHANGED vars BY <2>4 DEF vars
  <2> QED BY <2>2, <2>3, <2>4 DEF Next, Acts
<1>2. env'.overlap = env.overlap /\ env'.fail = env.fail
  BY <1>1 DEF TypeInv, TypeOK, Environment
<1> QED BY <1>2 DEF Serial, Orderly

\* Without overlap a step is one of the only call under way or of the first
\* to come, or one of the review set while no call is under way.
LEMMA SoleStep ==
  ASSUME TypeInv, Serial, Alone, [Next]_vars
  PROVE  /\ Alone'
         /\ \/ UNCHANGED vars
            \/ Quiet /\ \E d \in Docs : Review(d)
            \/ \E a \in Actors :
                 /\ Acts(a)
                 /\ frame[a] = Idle => Quiet
                 /\ \A b \in Actors :
                      b # a => frame[b] = Idle /\ frame'[b] = Idle
<1>1. CASE UNCHANGED vars BY <1>1 DEF vars, Alone
<1>2. ASSUME NEW d \in Docs, Review(d) PROVE Quiet /\ frame' = frame
  BY <1>2 DEF Review, AttachDocument, ReviewDocument, FinalizeRedaction,
              Undisturbed, Serial
<1>3. ASSUME NEW a \in Actors, Acts(a)
      PROVE  /\ frame[a] = Idle => Quiet
             /\ \A b \in Actors :
                  b # a => frame[b] = Idle /\ frame'[b] = Idle
  <2>1. frame[a] = Idle => Quiet BY <1>3, OwnFrame DEF Undisturbed, Serial
  <2>2. \A b \in Actors : b # a => frame[b] = Idle
    BY <2>1 DEF Quiet, Alone
  <2> QED BY <1>3, <2>1, <2>2, OwnFrame
<1>4. ASSUME NEW a \in Actors, Acts(a) PROVE Alone' BY <1>3, <1>4 DEF Alone
<1>5. \/ UNCHANGED vars
      \/ \E d \in Docs : Review(d)
      \/ \E a \in Actors : Acts(a)
  BY DEF Next, Acts
<1> QED BY <1>1, <1>2, <1>3, <1>4, <1>5 DEF Alone

\* Where a call still relies on the status it has read.
Relying == {"write", "file", "docs", "reviews", "attached", "artifacts",
            "create", "status", "move"}

Extended(t) == \E i \in DOMAIN t : t[i].kind = "extension"

\* What the call f has read is what there is, where it matters: the status
\* until it is written, the extensions until one more is logged, the review
\* set and the decisions until the release is created.
FreshOK(f, row, t, set, decided) ==
  /\ \/ f.pc \in Relying
     \/ f.op = "fulfillByReference" /\ f.pc = "letter"
     => f.request.status = row.status
  /\ f.op = "extend" =>
       /\ f.pc = "write" => row.extensions = 0 /\ f.request.extensions = 0
       /\ f.pc = "log" => row.extensions # 0 /\ ~Extended(t)
  /\ f.op = "release" =>
       /\ f.pc \in {"reviews", "artifacts", "create"} => f.docs = set
       /\ f.pc \in {"attached", "artifacts", "create"} =>
            /\ \A d \in f.ship : decided[d] = "release"
            /\ \A d \in f.burn : decided[d] = "release_redacted"
       /\ f.pc \in {"artifacts", "create"} =>
            f.docs \subseteq f.ship \cup f.burn \cup f.held

FreshInv ==
  Serial =>
    /\ Alone
    /\ \A a \in Actors : FreshOK(frame[a], request, trail, attached, reviews)

\* The clock only stops for a determination, and a logged extension is in the
\* row.
RowInv ==
  Serial => /\ request.closed => request.status \in Determined
            /\ Extended(trail) => request.extensions # 0

\* Where a call is after it has moved on; the rest of its frame is as it was.
LEMMA GoneTo ==
  ASSUME TypeInv, NEW a \in Actors, NEW pc \in Pc, Goto(a, pc)
  PROVE  LET f == frame[a]  g == frame'[a] IN
         /\ g.pc = pc /\ g.op = f.op /\ g.request = f.request
         /\ g.todo = f.todo /\ g.docs = f.docs /\ g.ship = f.ship
         /\ g.burn = f.burn /\ g.held = f.held /\ g.made = f.made
<1>1. frame[a] \in Frame BY DEF TypeInv, FrameInv
<1>2. frame'[a] = [frame[a] EXCEPT !.pc = pc]
  BY DEF Goto, Resume, TypeInv, FrameInv
<1> QED BY <1>1, <1>2, PcUpdate

\* What a call that ended has left, and what one that begins starts from.
LEMMA Ended ==
  ASSUME TypeInv, NEW a \in Actors, Finish(a)
  PROVE  frame'[a] = Idle
BY DEF Finish, Resume, TypeInv, FrameInv

\* A call that begins has read the row and changed nothing else.
LEMMA Begun ==
  ASSUME TypeInv, NEW a \in Actors, NEW op, NEW pc, NEW todo,
         Begin(a, op, pc, todo)
  PROVE  /\ frame'[a].op = op /\ frame'[a].pc = pc
         /\ frame'[a].request = request /\ frame'[a].todo = todo
         /\ UNCHANGED <<rowVars, reviewVars, outVars>>
<1> DEFINE f == [Idle EXCEPT !.op = op, !.pc = pc, !.request = request,
                            !.todo = todo]
<1>1. f.op = op /\ f.pc = pc /\ f.request = request /\ f.todo = todo
  BY IdleType DEF Frame, Idle
<1>2. Resume(a, f) /\ UNCHANGED <<rowVars, reviewVars, outVars>> BY DEF Begin
<1> HIDE DEF f
<1>3. frame'[a] = f BY <1>2 DEF Resume, TypeInv, FrameInv
<1> QED BY <1>1, <1>2, <1>3

\* A call that relies on nothing it read has nothing stale.
LEMMA FreshFree ==
  ASSUME NEW f, NEW row, NEW t, NEW set, NEW decided, f.pc \notin Relying,
         f.pc = "letter" => f.op # "fulfillByReference",
         f.pc = "log" => f.op # "extend"
  PROVE  FreshOK(f, row, t, set, decided)
BY DEF FreshOK, Relying

\* A caller with no call relies on nothing.
LEMMA FreshIdle ==
  ASSUME NEW row, NEW t, NEW set, NEW decided
  PROVE  FreshOK(Idle, row, t, set, decided)
BY FreshFree DEF Idle, Relying

\* A call that begins has just read the row.
LEMMA FreshBegun ==
  ASSUME TypeInv, NEW a \in Actors, NEW op, NEW pc, NEW todo,
         Begin(a, op, pc, todo),
         op = "extend" => pc = "write" /\ request.extensions = 0,
         op = "release" => pc = "docs"
  PROVE  FreshOK(frame'[a], request', trail', attached', reviews')
<1>1. request' = request BY Begun DEF rowVars
<1> QED BY Begun, <1>1 DEF FreshOK

\* The action of the only call under way keeps what it relies on fresh.
LEMMA FreshAct ==
  ASSUME TypeInv, AssertInv, Serial, RowInv, NEW a \in Actors, Acts(a),
         FreshOK(frame[a], request, trail, attached, reviews)
  PROVE  FreshOK(frame'[a], request', trail', attached', reviews')
<1> DEFINE Fresh == FreshOK(frame'[a], request', trail', attached', reviews')
           free == {"log", "letter", "transition", "message", "auto", "task",
                    "publish"}
<1>0. frame[a] \in Frame /\ frame \in [Actors -> Frame] /\ request \in Row
      /\ TodoOK(frame[a]) /\ AssertedOK(frame[a])
  BY DEF TypeInv, FrameInv, TypeOK, AssertInv
<1>1. ASSUME Finish(a) PROVE Fresh BY <1>1, Ended, FreshIdle
<1>2. ASSUME NEW pc \in free, Goto(a, pc),
             pc = "letter" => frame[a].op # "fulfillByReference",
             pc = "log" => frame[a].op # "extend"
      PROVE  Fresh
  BY <1>2, GoneTo, FreshFree DEF Pc, Relying
<1>3. ASSUME NEW f, Resume(a, f) PROVE frame'[a] = f
  BY <1>0, <1>3 DEF Resume
<1>4. ASSUME NEW op, NEW pc, NEW todo, Begin(a, op, pc, todo),
             op # "extend", op = "release" => pc = "docs"
      PROVE  Fresh
  BY <1>4, FreshBegun
<1>5. ASSUME TransitionRead(a) PROVE Fresh
  <2> DEFINE f == [frame[a] EXCEPT !.pc = "move", !.request = request]
  <2>1. f.pc = "move" /\ f.request = request BY <1>0 DEF Frame
  <2>2. Resume(a, f) \/ Finish(a) BY <1>5 DEF TransitionRead
  <2>3. request' = request BY <1>5 DEF TransitionRead, rowVars
  <2> HIDE DEF f
  <2> QED BY <1>1, <1>3, <2>1, <2>2, <2>3 DEF FreshOK
<1>6. ASSUME TransitionWrite(a) PROVE Fresh
  <2>1. frame[a].op # "extend"
    BY <1>0, <1>6 DEF TransitionWrite, TodoOK, AssertedOK, Final
  <2> QED BY <1>2, <1>6, <2>1 DEF TransitionWrite
<1>7. ASSUME TransitionLog(a) PROVE Fresh
  <2> DEFINE f(pc) == [frame[a] EXCEPT !.pc = pc,
                                       !.todo = Tail(frame[a].todo)]
  <2>1. f("transition").pc = "transition" /\ f("task").pc = "task"
    BY <1>0 DEF Frame
  <2>2. Resume(a, f("transition")) \/ Resume(a, f("task")) \/ Finish(a)
    BY <1>7 DEF TransitionLog
  <2> HIDE DEF f
  <2> QED BY <1>1, <1>3, <2>1, <2>2, FreshFree DEF Relying
<1>8. ASSUME Triage(a) PROVE Fresh
  <2>1. CASE AutoDispatch(a)
    <3> DEFINE f == [frame[a] EXCEPT !.pc = "tasks", !.request = request,
                                     !.todo = Onward(request.status)]
    <3>1. f.pc = "tasks" BY <1>0 DEF Frame
    <3>2. Resume(a, f) \/ Finish(a) BY <2>1 DEF AutoDispatch
    <3> HIDE DEF f
    <3> QED BY <1>1, <1>3, <3>1, <3>2, FreshFree DEF Relying
  <2>2. CASE AutoDispatchTasks(a)
    <3> DEFINE f == [frame[a] EXCEPT !.op = "dispatch", !.pc = "transition"]
    <3>1. f.pc = "transition" BY <1>0 DEF Frame
    <3>2. Resume(a, f) \/ Finish(a) BY <2>2 DEF AutoDispatchTasks
    <3> HIDE DEF f
    <3> QED BY <1>1, <1>3, <3>1, <3>2, FreshFree DEF Relying
  <2> QED BY <1>1, <1>2, <1>4, <1>8, <2>1, <2>2
    DEF Triage, ApproveTriage, ApproveTriageWrite, TriageJob, ApplyTriageDraft,
        At
<1>9. ASSUME Extend(a) PROVE Fresh BY <1>9, FreshBegun DEF Extend
<1>10. ASSUME ExtendWrite(a) PROVE Fresh
  <2>1. frame[a].request.extensions = 0 /\ request.extensions = 0
    BY <1>10 DEF ExtendWrite, At, FreshOK
  <2>2. request'.extensions # 0 /\ ~Extended(trail') /\ trail' = trail
    BY <1>0, <1>10, <2>1 DEF ExtendWrite, Row, RowInv, Extended
  <2>3. frame'[a].pc = "log" BY <1>10, GoneTo DEF ExtendWrite, Pc
  <2>4. frame'[a].op = "extend" BY <1>10, GoneTo DEF ExtendWrite, At, Pc
  <2> QED BY <2>2, <2>3, <2>4 DEF FreshOK, Relying
<1>11. ASSUME ExtendLog(a) \/ ExtendNotice(a) PROVE Fresh
  BY <1>1, <1>2, <1>11 DEF ExtendLog, ExtendNotice, At
<1>12. ASSUME Denial(a) PROVE Fresh
  BY <1>1, <1>2, <1>4, <1>12 DEF Denial, Deny, DenyWrite, DenyLog, DenyLetter,
     At
<1>13. ASSUME FulfillByReference(a) PROVE Fresh
  BY <1>4, <1>13 DEF FulfillByReference
<1>14. ASSUME ReferenceLetter(a) PROVE Fresh
  <2>1. frame[a].request.status = request.status /\ request' = request
    BY <1>14 DEF ReferenceLetter, At, FreshOK
  <2>2. /\ frame'[a].op = "fulfillByReference"
        /\ frame'[a].request = frame[a].request
    BY <1>14, GoneTo DEF ReferenceLetter, At, Pc
  <2> QED BY <2>1, <2>2 DEF FreshOK
<1>15. ASSUME ReferenceWrite(a) \/ ReferenceLog(a) PROVE Fresh
  BY <1>1, <1>2, <1>15 DEF ReferenceWrite, ReferenceLog, At
<1>16. ASSUME ForwardFile(a) PROVE Fresh
  <2> DEFINE f == [frame[a] EXCEPT !.pc = "write", !.made = filings + 1]
  <2>1. f.op = frame[a].op /\ f.request = frame[a].request BY <1>0 DEF Frame
  <2>2. Resume(a, f) /\ request' = request BY <1>16 DEF ForwardFile
  <2>3. frame[a].request.status = request.status /\ frame[a].op = "forward"
    BY <1>16 DEF ForwardFile, At, FreshOK, Relying
  <2> HIDE DEF f
  <2> QED BY <1>3, <2>1, <2>2, <2>3 DEF FreshOK
<1>17. ASSUME Referral(a), ~ForwardFile(a) PROVE Fresh
  BY <1>1, <1>2, <1>4, <1>17
  DEF Referral, Refer, ReferWrite, ReferLog, ReferLetter, Forward,
      ForwardWrite, ForwardLog, ForwardLetter, At
<1>18. ASSUME Clarify(a) \/ Reply(a) \/ Dispatch(a) PROVE Fresh
  BY <1>4, <1>18 DEF Clarify, Reply, Dispatch
<1>19. ASSUME ClarifyMessage(a) \/ ReplyMessage(a) \/ DispatchTask(a)
       PROVE  Fresh
  BY <1>1, <1>2, <1>19 DEF ClarifyMessage, ReplyMessage, DispatchTask, At
<1>20. ASSUME ReleaseRequest(a) PROVE Fresh BY <1>4, <1>20 DEF ReleaseRequest
<1>21. ASSUME ReleaseDocs(a) PROVE Fresh
  <2> DEFINE f == [frame[a] EXCEPT !.pc = "reviews", !.docs = attached]
  <2>1. /\ f.op = frame[a].op /\ f.pc = "reviews" /\ f.docs = attached
        /\ f.request = frame[a].request
    BY <1>0 DEF Frame
  <2>2. Resume(a, f) \/ Finish(a) BY <1>21 DEF ReleaseDocs
  <2>3. frame[a].request.status = request.status /\ frame[a].op = "release"
    BY <1>21 DEF ReleaseDocs, At, FreshOK, Relying
  <2>4. request' = request /\ attached' = attached
    BY <1>21 DEF ReleaseDocs, rowVars, reviewVars
  <2> HIDE DEF f
  <2> QED BY <1>1, <1>3, <2>1, <2>2, <2>3, <2>4 DEF FreshOK
<1>22. ASSUME ReleaseReviews(a) PROVE Fresh
  <2> DEFINE docs == frame[a].docs
             f == [frame[a] EXCEPT !.pc = "artifacts",
                     !.ship = Marked(docs, "release"),
                     !.burn = Marked(docs, "release_redacted"),
                     !.held = Marked(docs, "withhold")]
  <2>1. /\ f.op = frame[a].op /\ f.pc = "artifacts" /\ f.docs = frame[a].docs
        /\ f.request = frame[a].request /\ f.ship = Marked(docs, "release")
        /\ f.burn = Marked(docs, "release_redacted")
        /\ f.held = Marked(docs, "withhold")
    BY <1>0 DEF Frame
  <2>2. \/ Resume(a, f) /\ Marked(docs, "undecided") = {}
        \/ Finish(a)
    BY <1>22 DEF ReleaseReviews
  <2>3. /\ frame[a].request.status = request.status
        /\ frame[a].op = "release" /\ docs = attached
    BY <1>22 DEF ReleaseReviews, At, FreshOK, Relying
  <2>4. request' = request /\ attached' = attached /\ reviews' = reviews
    BY <1>22 DEF ReleaseReviews, rowVars, reviewVars
  <2>5. /\ \A d \in Marked(docs, "release") : reviews[d] = "release"
        /\ \A d \in Marked(docs, "release_redacted") :
             reviews[d] = "release_redacted"
    BY DEF Marked
  <2>6. ASSUME Marked(docs, "undecided") = {}
        PROVE  docs \subseteq Marked(docs, "release")
                 \cup Marked(docs, "release_redacted")
                 \cup Marked(docs, "withhold")
    <3>1. docs \subseteq Docs /\ reviews \in [Docs -> Decision]
      BY <1>0, FrameFields DEF TypeInv, TypeOK
    <3> QED BY <2>6, <3>1 DEF Marked, Decision
  <2> HIDE DEF f
  <2>7. ASSUME Resume(a, f), Marked(docs, "undecided") = {} PROVE Fresh
    <3>1. frame'[a] = f BY <1>3, <2>7
    <3>2. docs \subseteq f.ship \cup f.burn \cup f.held BY <2>1, <2>6, <2>7
    <3> HIDE DEF docs
    <3> QED BY <2>1, <2>3, <2>4, <2>5, <3>1, <3>2 DEF FreshOK, docs
  <2> QED BY <1>1, <2>2, <2>7
<1>23. ASSUME ReleaseArtifacts(a) PROVE Fresh
  <2>1. Goto(a, "create") \/ Finish(a) BY <1>23 DEF ReleaseArtifacts
  <2>2. /\ request' = request /\ attached' = attached /\ reviews' = reviews
        /\ trail' = trail
    BY <1>23 DEF ReleaseArtifacts, rowVars, reviewVars
  <2>3. frame[a].pc = "artifacts" /\ frame[a].op = "release"
    BY <1>23 DEF ReleaseArtifacts, At
  <2>4. ASSUME Goto(a, "create") PROVE Fresh
    <3>1. LET f == frame[a]  g == frame'[a] IN
          /\ g.pc = "create" /\ g.op = f.op /\ g.request = f.request
          /\ g.docs = f.docs /\ g.ship = f.ship
          /\ g.burn = f.burn /\ g.held = f.held
      BY <2>4, GoneTo DEF Pc
    <3> QED BY <2>2, <2>3, <3>1 DEF FreshOK, Relying
  <2> QED BY <1>1, <2>1, <2>4
<1>24. ASSUME CreateRelease(a) PROVE Fresh
  <2> DEFINE f == [frame[a] EXCEPT !.pc = "status", !.made = Len(releases) + 1]
  <2>1. /\ f.op = frame[a].op /\ f.pc = "status"
        /\ f.request = frame[a].request
    BY <1>0 DEF Frame
  <2>2. Resume(a, f) /\ request' = request BY <1>24 DEF CreateRelease, rowVars
  <2>3. frame[a].request.status = request.status /\ frame[a].op = "release"
    BY <1>24 DEF CreateRelease, At, FreshOK, Relying
  <2> HIDE DEF f
  <2> QED BY <1>3, <2>1, <2>2, <2>3 DEF FreshOK
<1>25. ASSUME ReleaseToRecordsReview(a) PROVE Fresh
  <2> DEFINE f == [frame[a] EXCEPT !.request.status = "records_review"]
  <2>1. /\ f.op = "release" /\ f.pc = "status"
        /\ f.request.status = "records_review"
    BY <1>0, <1>25 DEF ReleaseToRecordsReview, At, Frame, Row
  <2>2. Resume(a, f) /\ request'.status = "records_review"
    BY <1>0, <1>25 DEF ReleaseToRecordsReview, Row
  <2> HIDE DEF f
  <2> QED BY <1>3, <2>1, <2>2 DEF FreshOK
<1>26. ASSUME ReleaseStatus(a) \/ ReleaseLog(a) \/ ReleaseLetter(a)
              \/ ReleasePublish(a)
       PROVE  Fresh
  BY <1>1, <1>2, <1>26
  DEF ReleaseStatus, ReleaseLog, ReleaseLetter, ReleasePublish, At
<1>27. ASSUME Abort(a) PROVE Fresh BY <1>1, <1>27 DEF Abort
<1>28. ASSUME ReleaseReviewsFirst(a) PROVE Fresh
  <2> DEFINE f == [frame[a] EXCEPT !.pc = "attached",
                     !.ship = Marked(Docs, "release"),
                     !.burn = Marked(Docs, "release_redacted"),
                     !.held = Marked(Docs, "withhold")]
  <2>1. /\ f.op = frame[a].op /\ f.pc = "attached"
        /\ f.request = frame[a].request /\ f.ship = Marked(Docs, "release")
        /\ f.burn = Marked(Docs, "release_redacted")
    BY <1>0 DEF Frame
  <2>2. Resume(a, f) BY <1>28 DEF ReleaseReviewsFirst
  <2>3. frame[a].request.status = request.status /\ frame[a].op = "release"
    BY <1>28 DEF ReleaseReviewsFirst, At, FreshOK, Relying
  <2>4. request' = request /\ reviews' = reviews
    BY <1>28 DEF ReleaseReviewsFirst, rowVars, reviewVars
  <2>5. /\ \A d \in Marked(Docs, "release") : reviews[d] = "release"
        /\ \A d \in Marked(Docs, "release_redacted") :
             reviews[d] = "release_redacted"
    BY DEF Marked
  <2> HIDE DEF f
  <2> QED BY <1>3, <2>1, <2>2, <2>3, <2>4, <2>5 DEF FreshOK
<1>29. ASSUME ReleaseDocsLast(a) PROVE Fresh
  <2> DEFINE g == frame[a]
             f == [frame[a] EXCEPT !.pc = "artifacts", !.docs = attached,
                     !.ship = frame[a].ship \cap attached,
                     !.burn = frame[a].burn \cap attached,
                     !.held = frame[a].held \cap attached]
  <2>1. /\ f.op = g.op /\ f.pc = "artifacts" /\ f.docs = attached
        /\ f.request = g.request /\ f.ship = g.ship \cap attached
        /\ f.burn = g.burn \cap attached /\ f.held = g.held \cap attached
    BY <1>0 DEF Frame
  <2>2. \/ Resume(a, f) /\ attached \subseteq g.ship \cup g.burn \cup g.held
        \/ Finish(a)
    BY <1>29 DEF ReleaseDocsLast
  <2>3. /\ g.request.status = request.status /\ g.op = "release"
        /\ \A d \in g.ship : reviews[d] = "release"
        /\ \A d \in g.burn : reviews[d] = "release_redacted"
    BY <1>29 DEF ReleaseDocsLast, At, FreshOK, Relying
  <2>4. request' = request /\ attached' = attached /\ reviews' = reviews
    BY <1>29 DEF ReleaseDocsLast, rowVars, reviewVars
  <2> HIDE DEF f, g
  <2>5. ASSUME Resume(a, f), attached \subseteq g.ship \cup g.burn \cup g.held
        PROVE  Fresh
    <3>1. frame'[a] = f BY <1>3, <2>5
    <3>2. attached \subseteq f.ship \cup f.burn \cup f.held BY <2>1, <2>5
    <3>3. /\ \A d \in f.ship : reviews[d] = "release"
          /\ \A d \in f.burn : reviews[d] = "release_redacted"
      BY <2>1, <2>3
    <3> QED BY <2>1, <2>3, <2>4, <3>1, <3>2, <3>3 DEF FreshOK
  <2> QED BY <1>1, <2>2, <2>5
<1> QED
  BY <1>5, <1>6, <1>7, <1>8, <1>9, <1>10, <1>11, <1>12, <1>13, <1>14, <1>15,
     <1>16, <1>17, <1>18, <1>19, <1>20, <1>21, <1>22, <1>23, <1>24, <1>25,
     <1>26, <1>27, <1>28, <1>29
  DEF Acts, Transition, Extension, Reference, Correspondence, Releasing

\* Nothing that was read goes stale.
LEMMA FreshStep ==
  ASSUME TypeInv, AssertInv, RowInv, FreshInv, [Next]_vars
  PROVE  FreshInv'
<1> SUFFICES ASSUME Serial
             PROVE  /\ Alone'
                    /\ \A b \in Actors : FreshOK(frame'[b], request', trail',
                                                 attached', reviews')
  BY SameCircumstances DEF FreshInv
<1>1. Alone' BY SoleStep DEF FreshInv
<1>2. ASSUME NEW b \in Actors
      PROVE  FreshOK(frame'[b], request', trail', attached', reviews')
  <2>1. FreshOK(frame[b], request, trail, attached, reviews) BY DEF FreshInv
  <2>2. CASE UNCHANGED vars
    BY <2>1, <2>2 DEF vars, rowVars, reviewVars
  <2>3. CASE Quiet /\ \E d \in Docs : Review(d)
    <3>1. frame'[b] = Idle
      BY <2>3 DEF Quiet, Review, AttachDocument, ReviewDocument,
                  FinalizeRedaction
    <3> QED BY <3>1, FreshIdle
  <2>4. ASSUME NEW a \in Actors, Acts(a),
               \A c \in Actors : c # a => frame[c] = Idle /\ frame'[c] = Idle
        PROVE  FreshOK(frame'[b], request', trail', attached', reviews')
    <3>1. CASE a = b BY <2>1, <2>4, <3>1, FreshAct
    <3>2. CASE a # b BY <2>4, <3>2, FreshIdle
    <3> QED BY <3>1, <3>2
  <2> QED BY <2>2, <2>3, <2>4, SoleStep DEF FreshInv
<1> QED BY <1>1, <1>2

\* The only edges into a working status leave a working status, and nothing
\* leaves a full determination for another.
LEMMA Edges ==
  ASSUME NEW s \in Status, NEW to \in Status, CanTransition(s, to)
  PROVE  /\ to \in Working => s \notin Determined
         /\ to \in Determined => s \notin {"denied", "fulfilled", "referred"}
BY DEF CanTransition, Transitions, Status, Working, Determined, Exits

\* Only a logged extension makes the trail extended.
LEMMA ExtendedBy ==
  ASSUME TypeInv, NEW a \in Actors, NEW kind, NEW to, LogEvent(a, kind, to)
  PROVE  Extended(trail') <=> Extended(trail) \/ kind = "extension"
<1> DEFINE e == [kind |-> kind, to |-> to,
                 from |-> IF kind = "status_change"
                          THEN frame[a].request.status ELSE "unsaid"]
<1>1. trail \in Seq(Entry) /\ trail' = Append(trail, e) /\ e.kind = kind
  BY DEF TypeInv, TypeOK, LogEvent
<1> HIDE DEF e
<1> QED BY <1>1, AppendGrows DEF Extended

\* The row keeps: its status, as the call that writes it asserted; its count
\* of extensions, as the trail has them.
LEMMA RowStep ==
  ASSUME TypeInv, AssertInv, FreshInv, RowInv, [Next]_vars
  PROVE  RowInv'
<1> SUFFICES ASSUME Serial
             PROVE  /\ request'.closed => request'.status \in Determined
                    /\ Extended(trail') => request'.extensions # 0
  BY SameCircumstances DEF RowInv
<1>0. /\ request \in Row /\ frame \in [Actors -> Frame]
      /\ request.closed => request.status \in Determined
      /\ Extended(trail) => request.extensions # 0
      /\ \A a \in Actors : /\ TodoOK(frame[a]) /\ AssertedOK(frame[a])
                           /\ FreshOK(frame[a], request, trail, attached,
                                      reviews)
  BY DEF TypeInv, TypeOK, FrameInv, AssertInv, RowInv, FreshInv
<1>1. request'.closed => request'.status \in Determined
  <2>1. CASE UNCHANGED request BY <1>0, <2>1
  <2>2. ASSUME NEW a \in Actors, TransitionWrite(a)
        PROVE  request'.closed => request'.status \in Determined
    <3>1. Head(frame[a].todo) \in Working /\ Head(frame[a].todo) \in Status
      BY <1>0, <2>2, NextTodo DEF TransitionWrite, TodoOK
    <3>2. CanTransition(request.status, Head(frame[a].todo))
      BY <1>0, <2>2
      DEF TransitionWrite, TodoOK, AssertedOK, FreshOK, Relying
    <3>3. ~request.closed BY <1>0, <3>1, <3>2, Edges, RowFields
    <3> QED BY <1>0, <2>2, <3>3 DEF TransitionWrite, Row
  <2>3. ASSUME NEW a \in Actors,
               ApproveTriageWrite(a) \/ ApplyTriageDraft(a) \/ ExtendWrite(a)
        PROVE  request'.closed => request'.status \in Determined
    BY <1>0, <2>3 DEF ApproveTriageWrite, ApplyTriageDraft, ExtendWrite, Row
  <2>4. ASSUME NEW to \in Determined, NEW id, Close(to, id)
        PROVE  request'.closed => request'.status \in Determined
    BY <1>0, <2>4 DEF Close, Row
  <2>5. ASSUME NEW a \in Actors,
               \/ DenyWrite(a) \/ ReferenceWrite(a) \/ ReferWrite(a)
               \/ ForwardWrite(a)
        PROVE  request'.closed => request'.status \in Determined
    BY <2>4, <2>5
    DEF DenyWrite, ReferenceWrite, ReferWrite, ForwardWrite, Determined
  <2>6. ASSUME NEW a \in Actors, ReleaseToRecordsReview(a)
        PROVE  request'.closed => request'.status \in Determined
    <3>1. request.status = "in_progress"
      BY <1>0, <2>6 DEF ReleaseToRecordsReview, At, FreshOK, Relying
    <3> QED BY <1>0, <2>6, <3>1 DEF ReleaseToRecordsReview, Row, Determined
  <2>7. ASSUME NEW a \in Actors, ReleaseStatus(a)
        PROVE  request'.closed => request'.status \in Determined
    <3>1. FinalStatus(a) \in Determined BY DEF FinalStatus, Determined
    <3> QED BY <2>1, <2>4, <2>7, <3>1 DEF ReleaseStatus
  <2> QED BY <2>1, <2>2, <2>3, <2>5, <2>6, <2>7, RequestWriters
<1>2. request.extensions # 0 => request'.extensions # 0
  <2>1. ASSUME NEW a \in Actors, ExtendWrite(a) PROVE request'.extensions # 0
    BY <1>0, <2>1, FrameFields, RowFields DEF ExtendWrite, Row
  <2>2. ASSUME NEW a \in Actors,
               \/ TransitionWrite(a) \/ ApproveTriageWrite(a)
               \/ ApplyTriageDraft(a) \/ DenyWrite(a) \/ ReferenceWrite(a)
               \/ ReferWrite(a) \/ ForwardWrite(a)
               \/ ReleaseToRecordsReview(a) \/ ReleaseStatus(a)
        PROVE  request'.extensions = request.extensions
    BY <1>0, <2>2
    DEF TransitionWrite, ApproveTriageWrite, ApplyTriageDraft, DenyWrite,
        ReferenceWrite, ReferWrite, ForwardWrite, ReleaseToRecordsReview,
        ReleaseStatus, Close, Row
  <2> QED BY <2>1, <2>2, RequestWriters
<1>3. Extended(trail') => Extended(trail) \/ request.extensions # 0
  <2>1. ASSUME NEW a \in Actors, ExtendLog(a) PROVE request.extensions # 0
    BY <1>0, <2>1 DEF ExtendLog, At, FreshOK
  <2>2. ASSUME NEW a \in Actors,
               \/ TransitionLog(a) \/ DenyLog(a) \/ ReferenceLog(a)
               \/ ReferLog(a) \/ ForwardLog(a) \/ ReleaseLog(a)
        PROVE  Extended(trail') => Extended(trail)
    BY <2>2, ExtendedBy
    DEF TransitionLog, DenyLog, ReferenceLog, ReferLog, ForwardLog, ReleaseLog
  <2> QED BY <2>1, <2>2, TrailWriters
<1> QED BY <1>0, <1>1, <1>2, <1>3

\* A second extension is not logged: the first is in the row that is read.
LEMMA OneExtensionStep ==
  ASSUME TypeInv, FreshInv, OneExtension, [Next]_vars
  PROVE  OneExtension'
<1> SUFFICES ASSUME Serial,
                    NEW i \in DOMAIN trail', NEW j \in DOMAIN trail',
                    trail'[i].kind = "extension", trail'[j].kind = "extension"
             PROVE  i = j
  BY SameCircumstances DEF OneExtension
<1>0. trail \in Seq(Entry) BY DEF TypeInv, TypeOK
<1>1. CASE UNCHANGED trail BY <1>1 DEF OneExtension
<1>2. ASSUME NEW a \in Actors, NEW kind, NEW to, LogEvent(a, kind, to),
             kind = "extension" => ~Extended(trail)
      PROVE  i = j
  <2> DEFINE e == [kind |-> kind, to |-> to,
                   from |-> IF kind = "status_change"
                            THEN frame[a].request.status ELSE "unsaid"]
  <2>1. trail' = Append(trail, e) /\ e.kind = kind BY <1>2 DEF LogEvent
  <2> HIDE DEF e
  <2>2. /\ DOMAIN trail' = DOMAIN trail \cup {Len(trail) + 1}
        /\ \A n \in DOMAIN trail : trail'[n] = trail[n]
        /\ trail'[Len(trail) + 1].kind = kind
    BY <1>0, <2>1, AppendGrows
  <2> QED BY <1>2, <2>2 DEF OneExtension, Extended
<1>3. ASSUME NEW a \in Actors, ExtendLog(a) PROVE i = j
  <2>1. ~Extended(trail) BY <1>3 DEF ExtendLog, At, FreshInv, FreshOK
  <2> QED BY <1>2, <1>3, <2>1 DEF ExtendLog
<1>4. ASSUME NEW a \in Actors,
             \/ TransitionLog(a) \/ DenyLog(a) \/ ReferenceLog(a)
             \/ ReferLog(a) \/ ForwardLog(a) \/ ReleaseLog(a)
      PROVE  i = j
  BY <1>2, <1>4
  DEF TransitionLog, DenyLog, ReferenceLog, ReferLog, ForwardLog, ReleaseLog
<1> QED BY <1>1, <1>3, <1>4, TrailWriters

SerialInv == TypeInv /\ AssertInv /\ FreshInv /\ RowInv /\ OneExtension

\* Before any call nobody relies on anything.
LEMMA SerialInit == Init => SerialInv
<1> SUFFICES ASSUME Init PROVE SerialInv
  OBVIOUS
<1>1. AssertedOK(Idle) BY DEF AssertedOK, Idle, Final
<1>2. AssertInv BY <1>1 DEF Init, AssertInv
<1>3. \A a \in Actors : frame[a] = Idle BY DEF Init
<1>4. FreshInv BY <1>3, FreshIdle DEF FreshInv, Alone
<1>5. RowInv BY DEF Init, RowInv, FiledRow, Extended
<1>6. OneExtension BY DEF Init, OneExtension
<1> QED BY <1>2, <1>4, <1>5, <1>6, InitType DEF SerialInv

\* It is inductive.
LEMMA SerialStep == SerialInv /\ [Next]_vars => SerialInv'
BY TypeStep, AssertStep, FreshStep, RowStep, OneExtensionStep DEF SerialInv

\* When calls do not overlap, and wherever they fail, at most one statutory
\* extension is granted and logged.
THEOREM ExtendedOnce == Spec => []OneExtension
<1>1. SerialInv => OneExtension BY DEF SerialInv
<1> QED BY <1>1, SerialInit, SerialStep, PTL DEF Spec

\* When calls do not overlap, a release is made from the decisions in force.
THEOREM ReleasesHonour == Spec => ReleaseHonoursDecisions
<1> DEFINE Honours == Serial /\ releases' # releases
                        => HonoursDecisions(releases'[Len(releases')])
<1>1. SerialInv /\ [Next]_vars => [Honours]_releases
  <2> SUFFICES ASSUME SerialInv, [Next]_vars, Serial, releases' # releases
               PROVE  HonoursDecisions(releases'[Len(releases')])
    OBVIOUS
  <2>1. PICK a \in Actors : CreateRelease(a) BY ReleaseWriters
  <2> DEFINE r == [ship |-> frame[a].ship, burn |-> frame[a].burn,
                   held |-> frame[a].held]
  <2>2. releases \in Seq(Release) /\ releases' = Append(releases, r)
    BY <2>1 DEF CreateRelease, SerialInv, TypeInv, TypeOK
  <2>3. HonoursDecisions(r)
    BY <2>1 DEF CreateRelease, At, SerialInv, FreshInv, FreshOK,
                HonoursDecisions
  <2> HIDE DEF r
  <2>4. releases'[Len(releases')] = r BY <2>2
  <2> QED BY <2>3, <2>4
<1>2. SerialInv /\ [Next]_vars
        => [Serial /\ releases' # releases
              => HonoursDecisions(releases'[Len(releases')])]_releases
  BY <1>1
<1> QED BY <1>2, SerialInit, SerialStep, PTL DEF Spec, ReleaseHonoursDecisions

\* A step of the row, when calls do not overlap, is a step of the abstract
\* lifecycle or leaves status and clock alone.
LEMMA LifecycleStep ==
  ASSUME SerialInv, [Next]_vars, Serial
  PROVE  \/ /\ request'.status = request.status
            /\ request'.closed = request.closed
         \/ /\ request'.status \in Status \ Determined
            /\ ~request.closed
            /\ CanTransition(request.status, request'.status)
            /\ request'.closed = request.closed
         \/ /\ request'.status \in Determined
            /\ CanTransition(request.status, request'.status)
            /\ request'.closed = TRUE
<1> DEFINE Step ==
      \/ /\ request'.status = request.status
         /\ request'.closed = request.closed
      \/ /\ request'.status \in Status \ Determined
         /\ ~request.closed
         /\ CanTransition(request.status, request'.status)
         /\ request'.closed = request.closed
      \/ /\ request'.status \in Determined
         /\ CanTransition(request.status, request'.status)
         /\ request'.closed = TRUE
<1>0. /\ request \in Row /\ frame \in [Actors -> Frame]
      /\ request.closed => request.status \in Determined
      /\ \A a \in Actors : /\ TodoOK(frame[a]) /\ AssertedOK(frame[a])
                           /\ FreshOK(frame[a], request, trail, attached,
                                      reviews)
  BY DEF SerialInv, TypeInv, TypeOK, FrameInv, AssertInv, RowInv, FreshInv
<1>1. CASE UNCHANGED request BY <1>1
<1>2. ASSUME NEW a \in Actors, TransitionWrite(a) PROVE Step
  <2>1. Head(frame[a].todo) \in Working /\ Head(frame[a].todo) \in Status
    BY <1>0, <1>2, NextTodo DEF TransitionWrite, TodoOK
  <2>2. CanTransition(request.status, Head(frame[a].todo))
    BY <1>0, <1>2 DEF TransitionWrite, TodoOK, AssertedOK, FreshOK, Relying
  <2>3. ~request.closed BY <1>0, <2>1, <2>2, Edges, RowFields
  <2>4. /\ request'.status = Head(frame[a].todo)
        /\ request'.closed = request.closed
    BY <1>0, <1>2 DEF TransitionWrite, Row
  <2>5. Head(frame[a].todo) \notin Determined BY <2>1 DEF Working, Determined
  <2> QED BY <2>1, <2>2, <2>3, <2>4, <2>5
<1>3. ASSUME NEW a \in Actors,
             ApproveTriageWrite(a) \/ ApplyTriageDraft(a) \/ ExtendWrite(a)
      PROVE  Step
  BY <1>0, <1>3 DEF ApproveTriageWrite, ApplyTriageDraft, ExtendWrite, Row
<1>4. ASSUME NEW to \in Determined, NEW id, Close(to, id),
             CanTransition(request.status, to)
      PROVE  Step
  BY <1>0, <1>4 DEF Close, Row
<1>5. ASSUME NEW a \in Actors,
             \/ DenyWrite(a) \/ ReferenceWrite(a) \/ ReferWrite(a)
             \/ ForwardWrite(a)
      PROVE  Step
  <2>1. frame[a].request.status = request.status
    BY <1>0, <1>5
    DEF DenyWrite, ReferenceWrite, ReferWrite, ForwardWrite, At, FreshOK,
        Relying
  <2> QED
    BY <1>0, <1>4, <1>5, <2>1
    DEF DenyWrite, ReferenceWrite, ReferWrite, ForwardWrite, At, AssertedOK,
        Determined
<1>6. ASSUME NEW a \in Actors, ReleaseToRecordsReview(a) PROVE Step
  <2>1. request.status = "in_progress"
    BY <1>0, <1>6 DEF ReleaseToRecordsReview, At, FreshOK, Relying
  <2>2. /\ request'.status = "records_review"
        /\ request'.closed = request.closed
    BY <1>0, <1>6 DEF ReleaseToRecordsReview, Row
  <2>3. CanTransition("in_progress", "records_review")
    BY DEF CanTransition, Transitions, Status, Exits
  <2> QED BY <1>0, <2>1, <2>2, <2>3 DEF Status, Determined
<1>7. ASSUME NEW a \in Actors, ReleaseStatus(a) PROVE Step
  <2>1. frame[a].request.status = request.status
    BY <1>0, <1>7 DEF ReleaseStatus, At, FreshOK, Relying
  <2>2. FinalStatus(a) \in Determined BY DEF FinalStatus, Determined
  <2> QED BY <1>1, <1>4, <1>7, <2>1, <2>2 DEF ReleaseStatus
<1> QED BY <1>1, <1>2, <1>3, <1>5, <1>6, <1>7, RequestWriters

\* The abstract lifecycle is about the same graph.
LEMMA SameGraph ==
  /\ LC!Status = Status /\ LC!Determined = Determined
  /\ \A s, to : LC!CanTransition(s, to) <=> CanTransition(s, to)
<1>1. LC!Status = Status BY DEF LC!Status, Status
<1>2. LC!Exits = Exits BY DEF LC!Exits, Exits
<1>3. LC!Transitions = Transitions
  BY <1>1, <1>2 DEF LC!Transitions, Transitions
<1>4. LC!Determined = Determined BY DEF LC!Determined, Determined
<1> QED BY <1>1, <1>3, <1>4 DEF LC!CanTransition, CanTransition

\* When calls do not overlap, and wherever they fail, the row implements the
\* abstract lifecycle: its status moves along the edges only, and the clock
\* stops in the step of the determination and never runs again.
THEOREM LifecycleImplemented == Spec => LifecycleKept
<1>1. Init => LC!Init
  BY DEF Init, FiledRow, LC!Init
<1>2. SerialInv /\ [Next]_vars => [LC!Next]_(LC!vars)
  <2> SUFFICES ASSUME SerialInv, [Next]_vars PROVE [LC!Next]_(LC!vars)
    OBVIOUS
  <2>1. Serial' <=> Serial BY SameCircumstances DEF SerialInv
  <2>2. CASE ~Serial BY <2>1, <2>2 DEF LC!vars
  <2>3. CASE Serial
    <3>1. request \in Row /\ Determined \subseteq Status
      BY DEF SerialInv, TypeInv, TypeOK, Determined, Status
    <3> QED BY <2>1, <2>3, <3>1, LifecycleStep, SameGraph
            DEF LC!vars, LC!Next, LC!Work, LC!Determine
  <2> QED BY <2>2, <2>3
<1> QED BY <1>1, <1>2, SerialInit, SerialStep, PTL
        DEF Spec, LifecycleKept, LC!Spec

-----------------------------------------------------------------------------
(* Calls that neither overlap nor fail: each leaves the correspondence,    *)
(* the trail, the peer agency and the row agreeing with one another.       *)

\* The requester's final answers by letter, and the statuses they announce.
Finals == {"denied", "fulfilled", "referred"}

Announced(op) == IF op = "deny" THEN "denied" ELSE "referred"

\* Every filing with the peer is pointed to by a closed row, or its forward
\* is about to point there.
FilingOK(f, row, filed) ==
  /\ filed # 0 =>
       /\ filed = 1
       /\ \/ row.forwardedTo = 1 /\ row.closed
          \/ f.op = "forward" /\ f.pc = "write"
  /\ f.op = "forward" => /\ f.pc = "file" => filed = 0
                         /\ f.pc = "write" => f.made = 1

\* A final letter says what the row says, the one of fulfillByReference ahead
\* of it; the other answers are in the row before their letters go out.
LetterOK(f, row, sent) ==
  /\ \A k \in sent \cap Finals :
       \/ row.status = k
       \/ k = "fulfilled" /\ f.op = "fulfillByReference" /\ f.pc = "write"
  /\ f.op \in {"deny", "refer", "forward"} /\ f.pc \in {"log", "letter"}
       => sent \cap Finals = {} /\ row.status = Announced(f.op)

\* The status a release ends in.
Outcome(f) == IF f.held # {} THEN "partially_fulfilled" ELSE "fulfilled"

\* What the next event of a call will say.
Pending(f) ==
  IF f.todo # <<>> THEN Head(f.todo)
  ELSE IF f.op = "deny" THEN "denied"
  ELSE IF f.op = "fulfillByReference" THEN "fulfilled"
  ELSE IF f.op \in {"refer", "forward"} THEN "referred"
  ELSE Outcome(f)

\* The row may be ahead of the trail: the status is written, its event is not.
Behind(f) == \/ f.pc = "log" /\ f.op # "extend"
             \/ /\ f.op = "release" /\ f.pc = "status"
                /\ f.request.status = "records_review"

\* The last event that moved the status moved it to s.
Explains(t, s) ==
  \/ s = "submitted" /\ \A i \in DOMAIN t : t[i].kind = "extension"
  \/ \E last \in DOMAIN t :
       /\ t[last].kind # "extension" /\ t[last].to = s
       /\ \A i \in DOMAIN t : t[i].kind # "extension" => i <= last

TraceOK(f, row, t) ==
  /\ ~Behind(f) => Explains(t, row.status)
  /\ f.pc = "log" /\ f.op # "extend" => row.status = Pending(f)

TidyOK(f, row, t, sent, filed) ==
  FilingOK(f, row, filed) /\ LetterOK(f, row, sent) /\ TraceOK(f, row, t)

TidyInv ==
  Orderly =>
    /\ Quiet => TidyOK(Idle, request, trail, thread, filings)
    /\ \A a \in Actors :
         frame[a] # Idle => TidyOK(frame[a], request, trail, thread, filings)

\* Actions that leave alone what the parties have agreed on: the calls that
\* begin, the reads, the messages that answer nothing, the ends.
Plain(a) ==
  \/ TransitionRead(a) \/ Triage(a) \/ Extend(a) \/ ExtendNotice(a) \/ Deny(a)
  \/ FulfillByReference(a) \/ Refer(a) \/ Correspondence(a)
  \/ ReleaseRequest(a) \/ ReleaseDocs(a) \/ ReleaseReviews(a)
  \/ ReleaseReviewsFirst(a) \/ ReleaseDocsLast(a)
  \/ ReleaseArtifacts(a) \/ ReleaseLetter(a) \/ ReleasePublish(a)

\* These actions leave alone what the trail, the letters and the filings are about.
LEMMA PlainAct ==
  ASSUME TypeInv, NEW a \in Actors, Plain(a)
  PROVE  /\ request'.status = request.status
         /\ request'.closed = request.closed
         /\ request'.forwardedTo = request.forwardedTo
         /\ trail' = trail /\ filings' = filings
         /\ thread' \cap Finals = thread \cap Finals
         /\ frame[a].pc \notin {"log", "status"}
         /\ frame'[a].pc \notin {"log", "status"}
         /\ frame[a].pc = "write"
              => frame[a].op \notin {"fulfillByReference", "forward"}
         /\ frame'[a].pc \in {"file", "write"} => frame'[a].op # "forward"
         /\ frame'[a].pc = "letter" => frame'[a].op = "fulfillByReference"
<1> DEFINE Kept == /\ request'.status = request.status
                   /\ request'.closed = request.closed
                   /\ request'.forwardedTo = request.forwardedTo
                   /\ trail' = trail /\ filings' = filings
                   /\ thread' \cap Finals = thread \cap Finals
           From == /\ frame[a].pc \notin {"log", "status"}
                   /\ frame[a].pc = "write"
                        => frame[a].op \notin {"fulfillByReference", "forward"}
           To == /\ frame'[a].pc \notin {"log", "status"}
                 /\ frame'[a].pc \in {"file", "write"}
                      => frame'[a].op # "forward"
                 /\ frame'[a].pc = "letter"
                      => frame'[a].op = "fulfillByReference"
<1>0. /\ frame[a] \in Frame /\ frame \in [Actors -> Frame] /\ request \in Row
      /\ Idle.pc = "idle"
  BY DEF TypeInv, FrameInv, TypeOK, Idle
<1>1. Kept
  <2>1. ASSUME NEW op, NEW pc, NEW todo, Begin(a, op, pc, todo) PROVE Kept
    BY <2>1 DEF Begin, rowVars
  <2>2. CASE \/ TransitionRead(a) \/ Extend(a) \/ Deny(a)
             \/ FulfillByReference(a) \/ Refer(a) \/ ReleaseRequest(a)
             \/ ReleaseDocs(a) \/ ReleaseReviews(a) \/ ReleaseArtifacts(a)
             \/ ReleaseReviewsFirst(a) \/ ReleaseDocsLast(a)
             \/ ReleasePublish(a)
    BY <2>1, <2>2
    DEF TransitionRead, Extend, Deny, FulfillByReference, Refer,
        ReleaseRequest, ReleaseDocs, ReleaseReviews, ReleaseReviewsFirst,
        ReleaseDocsLast, ReleaseArtifacts, ReleasePublish, rowVars
  <2>3. CASE Triage(a)
    BY <1>0, <2>1, <2>3
    DEF Triage, ApproveTriage, ApproveTriageWrite, TriageJob,
        ApplyTriageDraft, AutoDispatch, AutoDispatchTasks, rowVars, Row
  <2>4. CASE Correspondence(a) \/ ExtendNotice(a) \/ ReleaseLetter(a)
    BY <2>1, <2>4
    DEF Correspondence, Clarify, ClarifyMessage, Reply, ReplyMessage,
        Dispatch, DispatchTask, ExtendNotice, ReleaseLetter, Send, Finals
  <2> QED BY <2>2, <2>3, <2>4 DEF Plain
<1>2. From
  <2>1. ASSUME NEW op, NEW pc, NEW todo, Begin(a, op, pc, todo) PROVE From
    BY <1>0, <2>1 DEF Begin
  <2>2. CASE \/ TransitionRead(a) \/ Extend(a) \/ Deny(a)
             \/ FulfillByReference(a) \/ Refer(a) \/ ReleaseRequest(a)
             \/ ReleaseDocs(a) \/ ReleaseReviews(a) \/ ReleaseArtifacts(a)
             \/ ReleaseReviewsFirst(a) \/ ReleaseDocsLast(a)
             \/ ReleasePublish(a) \/ ExtendNotice(a) \/ ReleaseLetter(a)
    BY <2>1, <2>2
    DEF TransitionRead, Extend, Deny, FulfillByReference, Refer,
        ReleaseRequest, ReleaseDocs, ReleaseReviews, ReleaseReviewsFirst,
        ReleaseDocsLast, ReleaseArtifacts, ReleasePublish, ExtendNotice,
        ReleaseLetter, At
  <2>3. CASE Triage(a) \/ Correspondence(a)
    BY <2>1, <2>3
    DEF Triage, ApproveTriage, ApproveTriageWrite, TriageJob,
        ApplyTriageDraft, AutoDispatch, AutoDispatchTasks, Correspondence,
        Clarify, ClarifyMessage, Reply,
        ReplyMessage, Dispatch, DispatchTask, At
  <2> QED BY <2>2, <2>3 DEF Plain
<1>3. To
  <2>1. ASSUME NEW op, NEW pc, NEW todo, Begin(a, op, pc, todo),
               pc \notin {"log", "status"},
               pc \in {"file", "write"} => op # "forward",
               pc = "letter" => op = "fulfillByReference"
        PROVE  To
    BY <2>1, Begun
  <2>2. ASSUME Finish(a) PROVE To BY <1>0, <2>2, Ended
  <2>3. ASSUME NEW pc \in {"transition", "auto", "create", "publish"},
               Goto(a, pc)
        PROVE  To
    BY <2>3, GoneTo DEF Pc
  <2>4. ASSUME NEW f, Resume(a, f),
               f.pc \in {"move", "tasks", "transition", "reviews", "attached",
                         "artifacts"}
        PROVE  To
    BY <1>0, <2>4 DEF Resume
  <2>5. CASE TransitionRead(a)
    <3> DEFINE f == [frame[a] EXCEPT !.pc = "move", !.request = request]
    <3>1. f.pc = "move" BY <1>0 DEF Frame
    <3>2. Resume(a, f) \/ Finish(a) BY <2>5 DEF TransitionRead
    <3> HIDE DEF f
    <3> QED BY <2>2, <2>4, <3>1, <3>2
  <2>6. CASE ReleaseDocs(a)
    <3> DEFINE f == [frame[a] EXCEPT !.pc = "reviews", !.docs = attached]
    <3>1. f.pc = "reviews" BY <1>0 DEF Frame
    <3>2. Resume(a, f) \/ Finish(a) BY <2>6 DEF ReleaseDocs
    <3> HIDE DEF f
    <3> QED BY <2>2, <2>4, <3>1, <3>2
  <2>7. CASE ReleaseReviews(a)
    <3> DEFINE docs == frame[a].docs
               f == [frame[a] EXCEPT !.pc = "artifacts",
                       !.ship = Marked(docs, "release"),
                       !.burn = Marked(docs, "release_redacted"),
                       !.held = Marked(docs, "withhold")]
    <3>1. f.pc = "artifacts" BY <1>0 DEF Frame
    <3>2. Resume(a, f) \/ Finish(a) BY <2>7 DEF ReleaseReviews
    <3> HIDE DEF f
    <3> QED BY <2>2, <2>4, <3>1, <3>2
  <2>8. CASE \/ Extend(a) \/ Deny(a) \/ FulfillByReference(a) \/ Refer(a)
             \/ ReleaseRequest(a) \/ ReleaseArtifacts(a) \/ ReleasePublish(a)
             \/ ExtendNotice(a) \/ ReleaseLetter(a)
    BY <2>1, <2>2, <2>3, <2>8
    DEF Extend, Deny, FulfillByReference, Refer, ReleaseRequest,
        ReleaseArtifacts, ReleasePublish, ExtendNotice, ReleaseLetter
  <2>9. CASE Triage(a)
    <3>1. CASE AutoDispatch(a)
      <4> DEFINE f == [frame[a] EXCEPT !.pc = "tasks", !.request = request,
                                       !.todo = Onward(request.status)]
      <4>1. f.pc = "tasks" BY <1>0 DEF Frame
      <4>2. Resume(a, f) \/ Finish(a) BY <3>1 DEF AutoDispatch
      <4> HIDE DEF f
      <4> QED BY <2>2, <2>4, <4>1, <4>2
    <3>2. CASE AutoDispatchTasks(a)
      <4> DEFINE f == [frame[a] EXCEPT !.op = "dispatch", !.pc = "transition"]
      <4>1. f.pc = "transition" BY <1>0 DEF Frame
      <4>2. Resume(a, f) \/ Finish(a) BY <3>2 DEF AutoDispatchTasks
      <4> HIDE DEF f
      <4> QED BY <2>2, <2>4, <4>1, <4>2
    <3> QED BY <2>1, <2>2, <2>3, <2>9, <3>1, <3>2
      DEF Triage, ApproveTriage, ApproveTriageWrite, TriageJob,
          ApplyTriageDraft
  <2>10. CASE Correspondence(a)
    <3>1. CASE Dispatch(a)
      <4> DEFINE todo == Onward(request.status)
                 pc == IF todo = <<>> THEN "task" ELSE "transition"
      <4>1. Begin(a, "dispatch", pc, todo) BY <3>1 DEF Dispatch
      <4>2. pc \in {"task", "transition"} OBVIOUS
      <4> HIDE DEF todo, pc
      <4> QED BY <2>1, <4>1, <4>2
    <3>2. CASE ~Dispatch(a)
      BY <2>1, <2>2, <2>3, <2>10, <3>2
      DEF Correspondence, Clarify, ClarifyMessage, Reply, ReplyMessage,
          DispatchTask
    <3> QED BY <3>1, <3>2
  <2>11. CASE ReleaseReviewsFirst(a)
    <3> DEFINE f == [frame[a] EXCEPT !.pc = "attached",
                       !.ship = Marked(Docs, "release"),
                       !.burn = Marked(Docs, "release_redacted"),
                       !.held = Marked(Docs, "withhold")]
    <3>1. f.pc = "attached" BY <1>0 DEF Frame
    <3>2. Resume(a, f) BY <2>11 DEF ReleaseReviewsFirst
    <3> HIDE DEF f
    <3> QED BY <2>4, <3>1, <3>2
  <2>12. CASE ReleaseDocsLast(a)
    <3> DEFINE f == [frame[a] EXCEPT !.pc = "artifacts", !.docs = attached,
                       !.ship = frame[a].ship \cap attached,
                       !.burn = frame[a].burn \cap attached,
                       !.held = frame[a].held \cap attached]
    <3>1. f.pc = "artifacts" BY <1>0 DEF Frame
    <3>2. Resume(a, f) \/ Finish(a) BY <2>12 DEF ReleaseDocsLast
    <3> HIDE DEF f
    <3> QED BY <2>2, <2>4, <3>1, <3>2
  <2> QED BY <2>5, <2>6, <2>7, <2>8, <2>9, <2>10, <2>11, <2>12 DEF Plain
<1> QED BY <1>1, <1>2, <1>3

\* What the actions that are not plain do to the frame.
LEMMA WriteMoves ==
  ASSUME TypeInv, NEW a \in Actors,
         \/ TransitionWrite(a) \/ ExtendWrite(a) \/ DenyWrite(a)
         \/ ReferenceWrite(a) \/ ReferWrite(a) \/ ForwardWrite(a)
         \/ ReleaseStatus(a)
  PROVE  \/ /\ frame'[a].pc = "log" /\ frame'[a].op = frame[a].op
            /\ frame'[a].todo = frame[a].todo /\ frame'[a].held = frame[a].held
         \/ frame'[a] = Idle /\ ReleaseStatus(a) /\ UNCHANGED request
<1>1. ASSUME Goto(a, "log")
      PROVE  /\ frame'[a].pc = "log" /\ frame'[a].op = frame[a].op
             /\ frame'[a].todo = frame[a].todo
             /\ frame'[a].held = frame[a].held
  BY <1>1, GoneTo DEF Pc
<1>2. Goto(a, "log") \/ (Finish(a) /\ ReleaseStatus(a) /\ UNCHANGED request)
  BY DEF TransitionWrite, ExtendWrite, DenyWrite, ReferenceWrite, ReferWrite,
         ForwardWrite, ReleaseStatus
<1> QED BY <1>1, <1>2, Ended

\* After it has logged, a call plans the next transition, creates its task,
\* writes its letter or has ended.
LEMMA LogMoves ==
  ASSUME TypeInv, NEW a \in Actors,
         \/ TransitionLog(a) \/ ExtendLog(a) \/ DenyLog(a) \/ ReferenceLog(a)
         \/ ReferLog(a) \/ ForwardLog(a) \/ ReleaseLog(a)
  PROVE  \/ frame'[a].pc \in {"transition", "task"} /\ TransitionLog(a)
         \/ frame'[a].pc = "letter" /\ frame'[a].op = frame[a].op
         \/ frame'[a] = Idle
<1>0. frame[a] \in Frame /\ frame \in [Actors -> Frame]
  BY DEF TypeInv, FrameInv, TypeOK
<1>1. CASE TransitionLog(a)
  <2> DEFINE f(pc) == [frame[a] EXCEPT !.pc = pc,
                                       !.todo = Tail(frame[a].todo)]
  <2>1. f("transition").pc = "transition" /\ f("task").pc = "task"
    BY <1>0 DEF Frame
  <2>2. Resume(a, f("transition")) \/ Resume(a, f("task")) \/ Finish(a)
    BY <1>1 DEF TransitionLog
  <2>3. ASSUME NEW g, Resume(a, g) PROVE frame'[a] = g
    BY <1>0, <2>3 DEF Resume
  <2> HIDE DEF f
  <2> QED BY <1>1, <2>1, <2>2, <2>3, Ended
<1>2. CASE ~TransitionLog(a)
  <2>1. Goto(a, "letter") \/ Finish(a)
    BY <1>2 DEF ExtendLog, DenyLog, ReferenceLog, ReferLog, ForwardLog,
                ReleaseLog
  <2> QED BY <2>1, GoneTo, Ended DEF Pc
<1> QED BY <1>1, <1>2

\* The letters that end a call, and the one that goes out ahead of the row.
LEMMA LetterMoves ==
  ASSUME TypeInv, NEW a \in Actors,
         \/ DenyLetter(a) \/ ReferLetter(a) \/ ForwardLetter(a)
         \/ ReferenceLetter(a)
  PROVE  \/ frame'[a] = Idle /\ ~ReferenceLetter(a)
         \/ /\ ReferenceLetter(a) /\ frame'[a].pc = "write"
            /\ frame'[a].op = "fulfillByReference"
<1>1. CASE ReferenceLetter(a)
  BY <1>1, GoneTo DEF ReferenceLetter, At, Pc
<1>2. CASE ~ReferenceLetter(a)
  BY <1>2, Ended DEF DenyLetter, ReferLetter, ForwardLetter
<1> QED BY <1>1, <1>2

\* The frame of a forward that has filed, and of a release that has a row.
LEMMA MadeMoves ==
  ASSUME TypeInv, NEW a \in Actors
  PROVE  /\ ForwardFile(a) =>
              /\ frame'[a].pc = "write" /\ frame'[a].op = "forward"
              /\ frame'[a].made = filings + 1
         /\ CreateRelease(a) =>
              /\ frame'[a].pc = "status" /\ frame'[a].op = "release"
              /\ frame'[a].request = frame[a].request
         /\ ReleaseToRecordsReview(a) =>
              /\ frame'[a].pc = "status" /\ frame'[a].op = "release"
              /\ frame'[a].request.status = "records_review"
<1>0. frame[a] \in Frame /\ frame \in [Actors -> Frame]
  BY DEF TypeInv, FrameInv, TypeOK
<1>1. ASSUME NEW g, Resume(a, g) PROVE frame'[a] = g
  BY <1>0, <1>1 DEF Resume
<1>2. ASSUME ForwardFile(a)
      PROVE  /\ frame'[a].pc = "write" /\ frame'[a].op = "forward"
             /\ frame'[a].made = filings + 1
  <2> DEFINE g == [frame[a] EXCEPT !.pc = "write", !.made = filings + 1]
  <2>1. g.pc = "write" /\ g.op = "forward" /\ g.made = filings + 1
    BY <1>0, <1>2 DEF ForwardFile, At, Frame
  <2>2. Resume(a, g) BY <1>2 DEF ForwardFile
  <2> HIDE DEF g
  <2> QED BY <1>1, <2>1, <2>2
<1>3. ASSUME CreateRelease(a)
      PROVE  /\ frame'[a].pc = "status" /\ frame'[a].op = "release"
             /\ frame'[a].request = frame[a].request
  <2> DEFINE g == [frame[a] EXCEPT !.pc = "status", !.made = Len(releases) + 1]
  <2>1. /\ g.pc = "status" /\ g.op = "release"
        /\ g.request = frame[a].request
    BY <1>0, <1>3 DEF CreateRelease, At, Frame
  <2>2. Resume(a, g) BY <1>3 DEF CreateRelease
  <2> HIDE DEF g
  <2> QED BY <1>1, <2>1, <2>2
<1>4. ASSUME ReleaseToRecordsReview(a)
      PROVE  /\ frame'[a].pc = "status" /\ frame'[a].op = "release"
             /\ frame'[a].request.status = "records_review"
  <2> DEFINE g == [frame[a] EXCEPT !.request.status = "records_review"]
  <2>1. /\ g.pc = "status" /\ g.op = "release"
        /\ g.request.status = "records_review"
    BY <1>0, <1>4 DEF ReleaseToRecordsReview, At, Frame, Row
  <2>2. Resume(a, g) BY <1>4 DEF ReleaseToRecordsReview
  <2> HIDE DEF g
  <2> QED BY <1>1, <2>1, <2>2
<1> QED BY <1>2, <1>3, <1>4

\* Every action of a call is plain or one of these.
LEMMA ActKinds ==
  ASSUME NEW a \in Actors, Acts(a)
  PROVE  \/ Plain(a) \/ Forward(a) \/ ForwardFile(a)
         \/ TransitionWrite(a) \/ ExtendWrite(a) \/ DenyWrite(a)
         \/ ReferenceWrite(a) \/ ReferWrite(a) \/ ForwardWrite(a)
         \/ ReleaseStatus(a)
         \/ TransitionLog(a) \/ ExtendLog(a) \/ DenyLog(a) \/ ReferenceLog(a)
         \/ ReferLog(a) \/ ForwardLog(a) \/ ReleaseLog(a)
         \/ DenyLetter(a) \/ ReferLetter(a) \/ ForwardLetter(a)
         \/ ReferenceLetter(a)
         \/ CreateRelease(a) \/ ReleaseToRecordsReview(a) \/ Abort(a)
BY DEF Acts, Plain, Transition, Extension, Denial, Reference, Referral,
       Releasing

\* A forward files once, and the row points to what it filed.
LEMMA FilingAct ==
  ASSUME TypeInv, [Next]_vars, ~env.fail, NEW a \in Actors, Acts(a),
         FilingOK(frame[a], request, filings)
  PROVE  FilingOK(frame'[a], request', filings')
<1> DEFINE Filing == FilingOK(frame'[a], request', filings')
<1>0. request \in Row /\ filings \in Nat BY DEF TypeInv, TypeOK
<1>1. ASSUME filings' = filings,
             request'.forwardedTo = request.forwardedTo,
             frame[a].op = "forward" => frame[a].pc # "write",
             frame'[a].op = "forward" => frame'[a].pc \notin {"file", "write"}
      PROVE  Filing
  BY <1>1, ClosedStays DEF FilingOK
<1>2. CASE Plain(a) BY <1>1, <1>2, PlainAct
<1>3. CASE Forward(a)
  <2>1. /\ frame'[a].op = "forward" /\ frame'[a].pc = "file"
        /\ request' = request /\ filings' = filings /\ ~request.closed
        /\ frame[a] = Idle
    BY <1>3, Begun DEF Forward, rowVars, Begin
  <2>2. filings = 0 BY <2>1 DEF FilingOK, Idle
  <2> QED BY <2>1, <2>2 DEF FilingOK
<1>4. CASE ForwardFile(a)
  <2>1. filings = 0 BY <1>4 DEF ForwardFile, At, FilingOK
  <2>2. filings' = 1 BY <1>4, <2>1 DEF ForwardFile
  <2> QED BY <1>4, <2>1, <2>2, MadeMoves DEF FilingOK
<1>5. CASE ForwardWrite(a)
  <2>1. frame[a].made = 1 /\ (filings # 0 => filings = 1)
    BY <1>5 DEF ForwardWrite, At, FilingOK
  <2>2. request'.forwardedTo = 1 /\ request'.closed /\ filings' = filings
    BY <1>0, <1>5, <2>1 DEF ForwardWrite, Close, Row
  <2>3. frame'[a].pc = "log" \/ frame'[a] = Idle BY <1>5, WriteMoves
  <2> QED BY <2>1, <2>2, <2>3 DEF FilingOK, Idle
<1>6. CASE \/ TransitionWrite(a) \/ ExtendWrite(a) \/ DenyWrite(a)
           \/ ReferenceWrite(a) \/ ReferWrite(a) \/ ReleaseStatus(a)
  <2>1. /\ filings' = filings
        /\ request'.forwardedTo = request.forwardedTo
    BY <1>0, <1>6
    DEF TransitionWrite, ExtendWrite, DenyWrite, ReferenceWrite, ReferWrite,
        ReleaseStatus, Close, Row
  <2>2. frame[a].op = "forward" => frame[a].pc # "write"
    BY <1>6 DEF TransitionWrite, ExtendWrite, DenyWrite, ReferenceWrite,
                ReferWrite, ReleaseStatus, At
  <2>3. frame'[a].pc = "log" \/ frame'[a] = Idle BY <1>6, WriteMoves
  <2> QED BY <1>1, <2>1, <2>2, <2>3 DEF Idle
<1>7. CASE \/ TransitionLog(a) \/ ExtendLog(a) \/ DenyLog(a)
           \/ ReferenceLog(a) \/ ReferLog(a) \/ ForwardLog(a) \/ ReleaseLog(a)
  <2>1. request' = request /\ filings' = filings /\ frame[a].pc = "log"
    BY <1>7 DEF TransitionLog, ExtendLog, DenyLog, ReferenceLog, ReferLog,
                ForwardLog, ReleaseLog, At
  <2>2. frame'[a].pc \notin {"file", "write"} BY <1>7, LogMoves DEF Idle
  <2> QED BY <1>1, <2>1, <2>2
<1>8. CASE \/ DenyLetter(a) \/ ReferLetter(a) \/ ForwardLetter(a)
           \/ ReferenceLetter(a)
  <2>1. request' = request /\ filings' = filings /\ frame[a].pc = "letter"
    BY <1>8 DEF DenyLetter, ReferLetter, ForwardLetter, ReferenceLetter, At
  <2>2. frame'[a].op # "forward" BY <1>8, LetterMoves DEF Idle
  <2> QED BY <1>1, <2>1, <2>2
<1>9. CASE CreateRelease(a) \/ ReleaseToRecordsReview(a)
  <2>1. /\ request'.forwardedTo = request.forwardedTo /\ filings' = filings
        /\ frame[a].op = "release"
    BY <1>0, <1>9 DEF CreateRelease, ReleaseToRecordsReview, At, rowVars, Row
  <2>2. frame'[a].op = "release" BY <1>9, MadeMoves
  <2> QED BY <1>1, <2>1, <2>2
<1>10. ~Abort(a) BY DEF Abort
<1> QED
  BY <1>2, <1>3, <1>4, <1>5, <1>6, <1>7, <1>8, <1>9, <1>10, ActKinds

\* A final letter says what the row says, and after it the row stays.
LEMMA LetterAct ==
  ASSUME TypeInv, AssertInv, Serial, [Next]_vars, ~env.fail,
         NEW a \in Actors, Acts(a),
         FreshOK(frame[a], request, trail, attached, reviews),
         LetterOK(frame[a], request, thread)
  PROVE  LetterOK(frame'[a], request', thread')
<1> DEFINE Letter == LetterOK(frame'[a], request', thread')
           answering == {"deny", "refer", "forward"}
           told == thread \cap Finals
           told1 == thread' \cap Finals
<1>0. request \in Row /\ TodoOK(frame[a]) /\ AssertedOK(frame[a])
  BY DEF TypeInv, TypeOK, FrameInv, AssertInv
<1>1. ASSUME request'.status = request.status, told1 = told,
             frame[a].op = "fulfillByReference" => frame[a].pc # "write",
             frame'[a].op \in answering => frame'[a].pc \notin {"log", "letter"}
      PROVE  Letter
  BY <1>1 DEF LetterOK
\* A status that may still move to an answer is none of the final ones.
<1>2. ASSUME NEW to \in Determined \cup Working,
             CanTransition(request.status, to)
      PROVE  request.status \notin Finals
  BY <1>0, <1>2, Edges, RowFields DEF Working, Determined, Status, Finals
<1>3. CASE Plain(a) BY <1>1, <1>3, PlainAct
<1>4. CASE Forward(a)
  <2>1. /\ request' = request /\ thread' = thread /\ frame[a] = Idle
        /\ frame'[a].pc = "file"
    BY <1>4, Begun DEF Forward, Begin, rowVars
  <2> QED BY <1>1, <2>1 DEF Idle
<1>5. CASE ForwardFile(a)
  <2>1. request' = request /\ thread' = thread /\ frame[a].op = "forward"
    BY <1>5 DEF ForwardFile, At
  <2> QED BY <1>1, <1>5, <2>1, MadeMoves
<1>6. CASE TransitionWrite(a)
  <2>1. Head(frame[a].todo) \in Working
    BY <1>0, <1>6, NextTodo DEF TransitionWrite, TodoOK
  <2>2. CanTransition(request.status, Head(frame[a].todo))
    BY <1>0, <1>6 DEF TransitionWrite, TodoOK, AssertedOK, FreshOK, Relying
  <2>3. told = {} /\ thread' = thread
    <3>1. frame[a].pc = "move" /\ thread' = thread BY <1>6 DEF TransitionWrite
    <3>2. request.status \notin Finals BY <1>2, <2>1, <2>2
    <3> QED BY <3>1, <3>2 DEF LetterOK
  <2>4. frame[a].op \notin answering
    BY <1>0, <1>6 DEF TransitionWrite, TodoOK, AssertedOK, Final
  <2> QED BY <1>6, <2>3, <2>4, WriteMoves DEF LetterOK, Idle
<1>7. CASE ExtendWrite(a)
  <2>1. /\ request'.status = request.status /\ thread' = thread
        /\ frame[a].op = "extend"
    BY <1>0, <1>7 DEF ExtendWrite, At, Row
  <2> QED BY <1>1, <1>7, <2>1, WriteMoves DEF Idle
<1>8. CASE DenyWrite(a) \/ ReferWrite(a) \/ ForwardWrite(a)
  <2>1. /\ frame[a].pc = "write" /\ frame[a].op \in answering
        /\ thread' = thread
    BY <1>8 DEF DenyWrite, ReferWrite, ForwardWrite, At
  <2>2. request.status \notin Finals
    BY <1>0, <1>2, <2>1 DEF AssertedOK, FreshOK, Relying, Determined
  <2>3. told = {} BY <2>1, <2>2 DEF LetterOK
  <2>4. request'.status = Announced(frame[a].op)
    BY <1>0, <1>8
    DEF DenyWrite, ReferWrite, ForwardWrite, At, Close, Row, Announced
  <2> QED BY <1>8, <2>1, <2>3, <2>4, WriteMoves DEF LetterOK, Idle
<1>9. CASE ReferenceWrite(a)
  <2>1. /\ frame[a].pc = "write" /\ frame[a].op = "fulfillByReference"
        /\ thread' = thread
    BY <1>9 DEF ReferenceWrite, At
  <2>2. request.status \notin Finals
    BY <1>0, <1>2, <2>1 DEF AssertedOK, FreshOK, Relying, Determined
  <2>3. told \subseteq {"fulfilled"} BY <2>2 DEF LetterOK
  <2>4. request'.status = "fulfilled"
    BY <1>0, <1>9 DEF ReferenceWrite, Close, Row
  <2> QED BY <1>9, <2>1, <2>3, <2>4, WriteMoves DEF LetterOK, Idle
<1>10. CASE ReleaseStatus(a)
  <2>1. /\ frame[a].pc = "status" /\ frame[a].op = "release"
        /\ thread' = thread
    BY <1>10 DEF ReleaseStatus, At
  <2>2. CASE UNCHANGED request
    BY <1>1, <1>10, <2>1, <2>2, WriteMoves DEF Idle
  <2>3. CASE CanTransition(frame[a].request.status, FinalStatus(a))
    <3>1. FinalStatus(a) \in Determined BY DEF FinalStatus, Determined
    <3>2. frame[a].request.status = request.status
      BY <2>1 DEF FreshOK, Relying
    <3>3. request.status \notin Finals BY <1>2, <2>3, <3>1, <3>2
    <3>4. told = {} BY <2>1, <3>3 DEF LetterOK
    <3> QED BY <1>10, <2>1, <3>4, WriteMoves DEF LetterOK, Idle
  <2> QED BY <1>10, <2>2, <2>3 DEF ReleaseStatus
<1>11. CASE \/ TransitionLog(a) \/ ExtendLog(a) \/ ReferenceLog(a)
            \/ ReleaseLog(a)
  <2>1. request' = request /\ thread' = thread /\ frame[a].pc = "log"
    BY <1>11 DEF TransitionLog, ExtendLog, ReferenceLog, ReleaseLog, At
  <2>2. frame'[a].op \in answering => frame'[a].pc \notin {"log", "letter"}
    <3>1. CASE TransitionLog(a)
      <4>1. frame[a].op \notin answering
        BY <1>0, <3>1 DEF TransitionLog, AssertedOK, Final
      <4> QED BY <3>1, <4>1, LogMoves DEF Idle
    <3>2. CASE ~TransitionLog(a)
      BY <1>11, <3>2, LogMoves
      DEF ExtendLog, ReferenceLog, ReleaseLog, At, Idle
    <3> QED BY <3>1, <3>2
  <2> QED BY <1>1, <2>1, <2>2
<1>12. CASE DenyLog(a) \/ ReferLog(a) \/ ForwardLog(a)
  <2>1. /\ request' = request /\ thread' = thread /\ frame[a].pc = "log"
        /\ frame[a].op \in answering
    BY <1>12 DEF DenyLog, ReferLog, ForwardLog, At
  <2>2. told = {} /\ request.status = Announced(frame[a].op)
    BY <2>1 DEF LetterOK
  <2>3. ~TransitionLog(a)
    BY <1>0, <2>1 DEF TransitionLog, AssertedOK, Final
  <2> QED BY <1>12, <2>1, <2>2, <2>3, LogMoves DEF LetterOK, Idle
<1>13. CASE DenyLetter(a) \/ ReferLetter(a) \/ ForwardLetter(a)
  <2>1. /\ request' = request /\ frame[a].pc = "letter"
        /\ frame[a].op \in answering
        /\ thread' = thread \cup {Announced(frame[a].op)}
    BY <1>13 DEF DenyLetter, ReferLetter, ForwardLetter, At, Send, Announced
  <2>2. told = {} /\ request.status = Announced(frame[a].op)
    BY <2>1 DEF LetterOK
  <2>3. ~ReferenceLetter(a) BY <2>1 DEF ReferenceLetter, At
  <2>4. frame'[a] = Idle BY <1>13, <2>3, LetterMoves
  <2> QED BY <2>1, <2>2, <2>4 DEF LetterOK, Idle
<1>14. CASE ReferenceLetter(a)
  <2>1. /\ request' = request /\ frame[a].pc = "letter"
        /\ frame[a].op = "fulfillByReference"
        /\ thread' = thread \cup {"fulfilled"}
    BY <1>14 DEF ReferenceLetter, At, Send
  <2>2. request.status \notin Finals
    BY <1>0, <1>2, <2>1 DEF AssertedOK, FreshOK, Determined
  <2>3. told = {} BY <2>1, <2>2 DEF LetterOK
  <2>4. frame'[a].pc = "write" /\ frame'[a].op = "fulfillByReference"
    BY <1>14, LetterMoves
  <2> QED BY <2>1, <2>3, <2>4 DEF LetterOK
<1>15. CASE CreateRelease(a)
  <2>1. request' = request /\ thread' = thread /\ frame[a].op = "release"
    BY <1>15 DEF CreateRelease, At, rowVars
  <2> QED BY <1>1, <1>15, <2>1, MadeMoves
<1>16. CASE ReleaseToRecordsReview(a)
  <2>1. /\ thread' = thread /\ frame[a].op = "release"
        /\ frame[a].pc = "status" /\ frame[a].request.status = "in_progress"
    BY <1>16 DEF ReleaseToRecordsReview, At
  <2>2. request.status = "in_progress" BY <2>1 DEF FreshOK, Relying
  <2>3. told = {} BY <2>1, <2>2 DEF LetterOK, Finals
  <2> QED BY <1>16, <2>1, <2>3, MadeMoves DEF LetterOK
<1>17. ~Abort(a) BY DEF Abort
<1> QED
  BY <1>3, <1>4, <1>5, <1>6, <1>7, <1>8, <1>9, <1>10, <1>11, <1>12, <1>13,
     <1>14, <1>15, <1>16, <1>17, ActKinds

\* What the trail explains after one more event.
LEMMA ExplainsBy ==
  ASSUME TypeInv, NEW a \in Actors, NEW kind, NEW to, LogEvent(a, kind, to)
  PROVE  /\ kind # "extension" => Explains(trail', to)
         /\ \A s : kind = "extension" /\ Explains(trail, s)
                     => Explains(trail', s)
<1> DEFINE e == [kind |-> kind, to |-> to,
                 from |-> IF kind = "status_change"
                          THEN frame[a].request.status ELSE "unsaid"]
<1>1. trail \in Seq(Entry) /\ trail' = Append(trail, e)
  BY DEF TypeInv, TypeOK, LogEvent
<1>2. e.kind = kind /\ e.to = to OBVIOUS
<1> HIDE DEF e
<1>3. /\ DOMAIN trail' = DOMAIN trail \cup {Len(trail) + 1}
      /\ \A i \in DOMAIN trail : trail'[i] = trail[i]
      /\ trail'[Len(trail) + 1] = e
  BY <1>1, AppendGrows
<1>4. /\ Len(trail) \in Nat
      /\ \A i \in DOMAIN trail' : i <= Len(trail) + 1
  BY <1>1, <1>3
<1>5. ASSUME kind # "extension" PROVE Explains(trail', to)
  BY <1>2, <1>3, <1>4, <1>5 DEF Explains
<1>6. ASSUME NEW s, kind = "extension", Explains(trail, s)
      PROVE  Explains(trail', s)
  BY <1>2, <1>3, <1>6 DEF Explains
<1> QED BY <1>5, <1>6

\* A release that stands in records review is never refused.
LEMMA ReviewedReleases ==
  ASSUME NEW to \in {"partially_fulfilled", "fulfilled"}
  PROVE  CanTransition("records_review", to)
BY DEF CanTransition, Transitions, Status, Exits

\* The trail explains the row, except between a write and its event.
LEMMA TraceAct ==
  ASSUME TypeInv, AssertInv, ~env.fail, NEW a \in Actors, Acts(a),
         TraceOK(frame[a], request, trail)
  PROVE  TraceOK(frame'[a], request', trail')
<1> DEFINE Trace == TraceOK(frame'[a], request', trail')
<1>0. /\ request \in Row /\ TodoOK(frame[a]) /\ AssertedOK(frame[a])
      /\ ~Behind(Idle) /\ Idle.pc # "log"
  BY DEF TypeInv, TypeOK, FrameInv, AssertInv, Behind, Idle
<1>1. ASSUME request'.status = request.status, trail' = trail,
             frame[a].pc \notin {"log", "status"}, frame'[a].pc # "log"
      PROVE  Trace
  BY <1>1 DEF TraceOK, Behind
<1>2. CASE Plain(a) BY <1>1, <1>2, PlainAct
<1>3. CASE Forward(a)
  <2>1. /\ request' = request /\ trail' = trail /\ frame[a] = Idle
        /\ frame'[a].pc = "file"
    BY <1>3, Begun DEF Forward, Begin, rowVars
  <2> QED BY <1>1, <2>1 DEF Idle
<1>4. CASE ForwardFile(a)
  <2>1. request' = request /\ trail' = trail /\ frame[a].pc = "file"
    BY <1>4 DEF ForwardFile, At
  <2> QED BY <1>1, <1>4, <2>1, MadeMoves
<1>5. CASE TransitionWrite(a)
  <2>1. frame[a].todo # <<>> /\ request'.status = Head(frame[a].todo)
    BY <1>0, <1>5 DEF TransitionWrite, TodoOK, Row
  <2>2. frame[a].op # "extend"
    BY <1>0, <2>1 DEF AssertedOK, Final
  <2>3. frame[a].pc = "move" BY <1>5 DEF TransitionWrite
  <2>4. ~ReleaseStatus(a) BY <2>3 DEF ReleaseStatus, At
  <2> QED BY <1>5, <2>1, <2>2, <2>4, WriteMoves DEF TraceOK, Behind, Pending
<1>6. CASE ExtendWrite(a)
  <2>1. /\ request'.status = request.status /\ trail' = trail
        /\ frame[a].op = "extend" /\ frame[a].pc = "write"
    BY <1>0, <1>6 DEF ExtendWrite, At, Row
  <2>2. ~ReleaseStatus(a) BY <2>1 DEF ReleaseStatus, At
  <2> QED BY <1>6, <2>1, <2>2, WriteMoves DEF TraceOK, Behind
<1>7. CASE \/ DenyWrite(a) \/ ReferenceWrite(a) \/ ReferWrite(a)
           \/ ForwardWrite(a)
  <2>1. /\ frame[a].pc = "write"
        /\ \/ frame[a].op = "deny" /\ request'.status = "denied"
           \/ /\ frame[a].op = "fulfillByReference"
              /\ request'.status = "fulfilled"
           \/ /\ frame[a].op \in {"refer", "forward"}
              /\ request'.status = "referred"
    BY <1>0, <1>7
    DEF DenyWrite, ReferenceWrite, ReferWrite, ForwardWrite, At, Close, Row
  <2>2. frame[a].todo = <<>> BY <1>0, <2>1 DEF AssertedOK, Final
  <2>3. ~ReleaseStatus(a) BY <2>1 DEF ReleaseStatus, At
  <2> QED BY <1>7, <2>1, <2>2, <2>3, WriteMoves DEF TraceOK, Behind, Pending
<1>8. CASE ReleaseStatus(a)
  <2>1. /\ frame[a].pc = "status" /\ frame[a].op = "release"
        /\ trail' = trail
    BY <1>8 DEF ReleaseStatus, At
  <2>2. frame[a].todo = <<>> BY <1>0, <2>1 DEF AssertedOK, Final
  <2>3. ASSUME Goto(a, "log"), Close(FinalStatus(a), request.forwardedTo)
        PROVE  Trace
    <3>1. request'.status = Outcome(frame[a])
      BY <1>0, <2>3 DEF Close, Row, FinalStatus, Outcome
    <3>2. /\ frame'[a].pc = "log" /\ frame'[a].op = "release"
          /\ frame'[a].todo = <<>> /\ frame'[a].held = frame[a].held
      BY <2>1, <2>2, <2>3, GoneTo DEF Pc
    <3> QED BY <3>1, <3>2 DEF TraceOK, Behind, Pending, Outcome
  <2>4. ASSUME ~CanTransition(frame[a].request.status, FinalStatus(a)),
               Finish(a), UNCHANGED request
        PROVE  Trace
    <3>1. frame[a].request.status # "records_review"
      BY <2>4, ReviewedReleases DEF FinalStatus
    <3>2. Explains(trail, request.status)
      BY <2>1, <3>1 DEF TraceOK, Behind
    <3>3. frame'[a] = Idle BY <2>4, Ended
    <3> QED BY <1>0, <2>1, <2>4, <3>2, <3>3 DEF TraceOK
  <2> QED BY <1>8, <2>3, <2>4 DEF ReleaseStatus
<1>9. CASE ExtendLog(a)
  <2>1. /\ frame[a].op = "extend" /\ frame[a].pc = "log"
        /\ request' = request
    BY <1>9 DEF ExtendLog, At
  <2>2. Explains(trail, request.status) BY <2>1 DEF TraceOK, Behind
  <2>3. Explains(trail', request.status)
    BY <1>9, <2>2, ExplainsBy DEF ExtendLog
  <2>4. ~TransitionLog(a)
    BY <1>0, <2>1 DEF TransitionLog, AssertedOK, Final
  <2>5. frame'[a].pc # "log" BY <1>9, <2>4, LogMoves DEF Idle
  <2> QED BY <2>1, <2>3, <2>5 DEF TraceOK
<1>10. CASE \/ TransitionLog(a) \/ DenyLog(a) \/ ReferenceLog(a)
            \/ ReferLog(a) \/ ForwardLog(a) \/ ReleaseLog(a)
  <2>1. frame[a].pc = "log" /\ frame[a].op # "extend" /\ request' = request
    BY <1>0, <1>10
    DEF TransitionLog, DenyLog, ReferenceLog, ReferLog, ForwardLog, ReleaseLog,
        At, AssertedOK, Final
  <2>2. request.status = Pending(frame[a]) BY <2>1 DEF TraceOK
  <2>3. \E kind : /\ kind # "extension"
                  /\ LogEvent(a, kind, Pending(frame[a]))
    <3>1. CASE TransitionLog(a)
      BY <3>1 DEF TransitionLog, Pending
    <3>2. CASE \/ DenyLog(a) \/ ReferenceLog(a) \/ ReferLog(a)
               \/ ForwardLog(a) \/ ReleaseLog(a)
      <4>1. frame[a].todo = <<>>
        BY <1>0, <3>2 DEF DenyLog, ReferenceLog, ReferLog, ForwardLog,
                          ReleaseLog, At, AssertedOK, Final
      <4> QED
        BY <3>2, <4>1 DEF DenyLog, ReferenceLog, ReferLog, ForwardLog,
                          ReleaseLog, At, Pending, FinalStatus, Outcome
    <3> QED BY <1>10, <3>1, <3>2
  <2>4. Explains(trail', request'.status)
    BY <2>1, <2>2, <2>3, ExplainsBy
  <2>5. frame'[a].pc # "log" BY <1>10, LogMoves DEF Idle
  <2> QED BY <2>4, <2>5 DEF TraceOK
<1>11. CASE \/ DenyLetter(a) \/ ReferLetter(a) \/ ForwardLetter(a)
            \/ ReferenceLetter(a)
  <2>1. request' = request /\ trail' = trail /\ frame[a].pc = "letter"
    BY <1>11 DEF DenyLetter, ReferLetter, ForwardLetter, ReferenceLetter, At
  <2> QED BY <1>1, <1>11, <2>1, LetterMoves DEF Idle
<1>12. CASE CreateRelease(a)
  <2>1. request' = request /\ trail' = trail /\ frame[a].pc = "create"
    BY <1>12 DEF CreateRelease, At, rowVars
  <2> QED BY <1>1, <1>12, <2>1, MadeMoves
<1>13. CASE ReleaseToRecordsReview(a)
  BY <1>13, MadeMoves DEF TraceOK, Behind
<1>14. ~Abort(a) BY DEF Abort
<1> QED
  BY <1>2, <1>3, <1>4, <1>5, <1>6, <1>7, <1>8, <1>9, <1>10, <1>11, <1>12,
     <1>13, <1>14, ActKinds

\* What the parties agree on, a step does not break.
LEMMA TidyStep ==
  ASSUME TypeInv, AssertInv, FreshInv, TidyInv, [Next]_vars
  PROVE  TidyInv'
<1> DEFINE Tidy(f) == TidyOK(f, request, trail, thread, filings)
           Tidy1(f) == TidyOK(f, request', trail', thread', filings')
<1> SUFFICES ASSUME Orderly
             PROVE  /\ Quiet' => Tidy1(Idle)
                    /\ \A b \in Actors : frame'[b] # Idle => Tidy1(frame'[b])
  BY SameCircumstances DEF TidyInv
<1>0. /\ Serial /\ ~env.fail /\ Alone
      /\ Quiet => Tidy(Idle)
      /\ \A a \in Actors : frame[a] # Idle => Tidy(frame[a])
      /\ \A a \in Actors :
           FreshOK(frame[a], request, trail, attached, reviews)
  BY DEF Orderly, Serial, FreshInv, TidyInv
<1>1. CASE UNCHANGED vars
  BY <1>0, <1>1 DEF vars, rowVars, Quiet
<1>2. CASE Quiet /\ \E d \in Docs : Review(d)
  <2>1. /\ frame' = frame /\ request' = request /\ trail' = trail
        /\ thread' = thread /\ filings' = filings
    BY <1>2 DEF Review, AttachDocument, ReviewDocument, FinalizeRedaction,
                rowVars
  <2> QED BY <1>0, <1>2, <2>1 DEF Quiet
<1>3. ASSUME NEW a \in Actors, Acts(a), frame[a] = Idle => Quiet,
             \A b \in Actors : b # a => frame[b] = Idle /\ frame'[b] = Idle
      PROVE  /\ Quiet' => Tidy1(Idle)
             /\ \A b \in Actors : frame'[b] # Idle => Tidy1(frame'[b])
  <2>1. Tidy(frame[a]) BY <1>0, <1>3
  <2> HIDE DEF Tidy, Tidy1
  <2>2. Tidy1(frame'[a])
    BY <1>0, <1>3, <2>1, FilingAct, LetterAct, TraceAct
    DEF Tidy, Tidy1, TidyOK
  <2> QED BY <1>3, <2>2 DEF Quiet
<1> QED BY <1>0, <1>1, <1>2, <1>3, SoleStep

\* A request just filed has nothing half done.
LEMMA TidyInit == Init => TidyInv
<1> SUFFICES ASSUME Init PROVE TidyInv
  OBVIOUS
<1>1. /\ request.status = "submitted" /\ trail = <<>> /\ thread = {}
      /\ filings = 0 /\ \A a \in Actors : frame[a] = Idle
  BY DEF Init, FiledRow
<1>2. FilingOK(Idle, request, filings) BY <1>1 DEF FilingOK, Idle
<1>3. LetterOK(Idle, request, thread) BY <1>1 DEF LetterOK, Idle
<1>4. TraceOK(Idle, request, trail) BY <1>1 DEF TraceOK, Idle, Explains
<1> QED BY <1>1, <1>2, <1>3, <1>4 DEF TidyInv, TidyOK

\* Both invariants hold in every reachable state.
LEMMA TidySound == Spec => [](SerialInv /\ TidyInv)
<1>1. Init => SerialInv /\ TidyInv BY SerialInit, TidyInit
<1>2. SerialInv /\ TidyInv /\ [Next]_vars => (SerialInv /\ TidyInv)'
  BY SerialStep, TidyStep DEF SerialInv
<1> QED BY <1>1, <1>2, PTL DEF Spec

\* When calls neither overlap nor fail, every request filed with the peer
\* agency is the one the source row points to, or is about to be.
THEOREM FilingsPointedTo == Spec => []NoOrphanFiling
<1>1. SerialInv /\ TidyInv => NoOrphanFiling
  <2> SUFFICES ASSUME SerialInv, TidyInv, Orderly, NEW f \in 1..filings
               PROVE  \/ request.forwardedTo = f
                      \/ \E a \in Actors : /\ At(a, "forward", "write")
                                           /\ frame[a].made = f
    BY DEF NoOrphanFiling
  <2>1. filings \in Nat /\ filings # 0
    BY DEF SerialInv, TypeInv, TypeOK
  <2>2. CASE Quiet
    <3>1. FilingOK(Idle, request, filings) BY <2>2 DEF TidyInv, TidyOK
    <3> QED BY <2>1, <3>1 DEF FilingOK, Idle
  <2>3. CASE ~Quiet
    <3>1. PICK a \in Actors : frame[a] # Idle BY <2>3 DEF Quiet
    <3>2. FilingOK(frame[a], request, filings) BY <3>1 DEF TidyInv, TidyOK
    <3> QED BY <2>1, <3>2 DEF FilingOK, At
  <2> QED BY <2>2, <2>3
<1> QED BY <1>1, TidySound, PTL

\* When calls neither overlap nor fail, the requester never gets two final
\* determinations that contradict.
THEOREM LettersAgree == Spec => []OneFinalLetter
<1>1. SerialInv /\ TidyInv => OneFinalLetter
  <2> SUFFICES ASSUME SerialInv, TidyInv, Orderly,
                      NEW k \in thread \cap Finals, NEW l \in thread \cap Finals
               PROVE  k = l
    BY DEF OneFinalLetter, Finals
  <2>1. CASE Quiet
    <3>1. LetterOK(Idle, request, thread) BY <2>1 DEF TidyInv, TidyOK
    <3> QED BY <3>1 DEF LetterOK, Idle
  <2>2. CASE ~Quiet
    <3>1. PICK a \in Actors : frame[a] # Idle BY <2>2 DEF Quiet
    <3>2. LetterOK(frame[a], request, thread) BY <3>1 DEF TidyInv, TidyOK
    <3>3. CASE At(a, "fulfillByReference", "write")
      <4>1. CanTransition(request.status, "fulfilled")
        BY <3>3 DEF At, SerialInv, AssertInv, AssertedOK, FreshInv, FreshOK,
                    Relying, Orderly
      <4>2. request.status \notin Finals
        BY <4>1, Edges, RowFields
        DEF SerialInv, TypeInv, TypeOK, Determined, Status, Finals
      <4> QED BY <3>2, <4>2 DEF LetterOK
    <3>4. CASE ~At(a, "fulfillByReference", "write")
      BY <3>2, <3>4 DEF LetterOK, At
    <3> QED BY <3>3, <3>4
  <2> QED BY <2>1, <2>2
<1> QED BY <1>1, TidySound, PTL

\* When calls neither overlap nor fail, between calls the audit trail tells
\* the present status of the request.
THEOREM TrailExplains == Spec => []TrailExplainsStatus
<1>1. TidyInv => TrailExplainsStatus
  <2> SUFFICES ASSUME TidyInv, Orderly, Quiet
               PROVE  IF Moves = {} THEN request.status = "submitted"
                      ELSE \E last \in Moves :
                             /\ \A i \in Moves : i <= last
                             /\ request.status = trail[last].to
    BY DEF TrailExplainsStatus
  <2>1. Explains(trail, request.status)
    BY DEF TidyInv, TidyOK, TraceOK, Behind, Idle
  <2> QED BY <2>1 DEF Explains, Moves
<1> QED BY <1>1, TidySound, PTL
-----------------------------------------------------------------------------
(* The deadline: business days.                                            *)

\* The next day is one more business day, or none.
LEMMA OneMoreDay ==
  ASSUME NEW from \in Int, NEW to \in Int, from <= to
  PROVE  /\ IsFiniteSet(BusinessDays(from, to))
         /\ Cardinality(BusinessDays(from, to)) \in Nat
         /\ BusinessDays(from, to + 1)
              = IF BusinessDay(to + 1) THEN BusinessDays(from, to) \cup {to + 1}
                                       ELSE BusinessDays(from, to)
         /\ Cardinality(BusinessDays(from, to + 1))
              = IF BusinessDay(to + 1) THEN Cardinality(BusinessDays(from, to)) + 1
                                       ELSE Cardinality(BusinessDays(from, to))
<1>1. /\ BusinessDays(from, to) \in SUBSET ((from + 1)..to)
      /\ IsFiniteSet((from + 1)..to)
  BY FS_Interval DEF BusinessDays
<1>2. IsFiniteSet(BusinessDays(from, to))
  BY <1>1, FS_Subset
<1>3. Cardinality(BusinessDays(from, to)) \in Nat
  BY <1>2, FS_CardinalityType
<1>4. BusinessDays(from, to + 1)
        = IF BusinessDay(to + 1) THEN BusinessDays(from, to) \cup {to + 1}
                                 ELSE BusinessDays(from, to)
  <2>1. \A d : d \in (from + 1)..(to + 1) <=> d \in (from + 1)..to \/ d = to + 1
    OBVIOUS
  <2>2. CASE BusinessDay(to + 1)
    BY <2>1, <2>2, Zenon DEF BusinessDays
  <2>3. CASE ~BusinessDay(to + 1)
    BY <2>1, <2>3, Zenon DEF BusinessDays
  <2> QED BY <2>2, <2>3
<1>5. to + 1 \notin BusinessDays(from, to)
  BY DEF BusinessDays
<1>6. Cardinality(BusinessDays(from, to) \cup {to + 1})
        = Cardinality(BusinessDays(from, to)) + 1
  BY <1>2, <1>5, FS_AddElement, Zenon
<1> QED BY <1>2, <1>3, <1>4, <1>6

\* A deadline of n days is n days away at least.
LEMMA DeadlineIsLater ==
  ASSUME NEW base \in Int, NEW n \in Nat, NEW business \in BOOLEAN, NEW d \in Int,
         Deadline(base, n, business, d)
  PROVE  d >= base + n
<1>1. CASE business
  <2>1. d >= base /\ Cardinality(BusinessDays(base, d)) = n
    BY <1>1 DEF Deadline, NthBusinessDay
  <2>2. /\ BusinessDays(base, d) \in SUBSET ((base + 1)..d)
        /\ IsFiniteSet((base + 1)..d)
        /\ Cardinality((base + 1)..d) = d - base
    <3>1. IsFiniteSet((base + 1)..d)
          /\ Cardinality((base + 1)..d)
               = IF base + 1 > d THEN 0 ELSE d - (base + 1) + 1
      BY FS_Interval
    <3> QED BY <2>1, <3>1 DEF BusinessDays
  <2>3. Cardinality(BusinessDays(base, d)) <= Cardinality((base + 1)..d)
    BY <2>2, FS_Subset
  <2> QED BY <2>1, <2>2, <2>3
<1>2. CASE ~business
  BY <1>2 DEF Deadline, FirstBusinessDay
<1> QED BY <1>1, <1>2

\* A question has one deadline: what it is leaves no choice of the day.
THEOREM DeadlineIsUnique ==
  ASSUME NEW base \in Int, NEW n \in Nat, NEW business \in BOOLEAN,
         NEW d \in Int, NEW e \in Int,
         Deadline(base, n, business, d), Deadline(base, n, business, e)
  PROVE  d = e
<1>1. ASSUME NEW x \in Int, NEW y \in Int, x < y,
             NthBusinessDay(base, n, x), NthBusinessDay(base, n, y)
      PROVE  FALSE
  <2>1. /\ x >= base
        /\ BusinessDay(y)
        /\ Cardinality(BusinessDays(base, x)) = n
        /\ Cardinality(BusinessDays(base, y)) = n
    BY <1>1 DEF NthBusinessDay
  <2>2. IsFiniteSet(BusinessDays(base, y))
    <3>1. base <= y
      BY <1>1, <2>1
    <3> QED BY <3>1, OneMoreDay
  <2>3. /\ BusinessDays(base, x) \in SUBSET BusinessDays(base, y)
        /\ y \in BusinessDays(base, y) /\ y \notin BusinessDays(base, x)
    BY <1>1, <2>1 DEF BusinessDays
  <2> QED BY <2>1, <2>2, <2>3, FS_Subset
<1>2. CASE business
  BY <1>1, <1>2 DEF Deadline, NthBusinessDay
<1>3. CASE ~business
  BY <1>3 DEF Deadline, FirstBusinessDay
<1> QED BY <1>2, <1>3

-----------------------------------------------------------------------------
(* The invariant of the loops.                                             *)

\* The day the clock starts.
ClockStarts ==
  IF ask.clock.startsNext THEN FirstBusinessDay(ask.receivedAt, clockStart)
                          ELSE clockStart = ask.receivedAt

\* How far a phase has come from base.
CountsFrom(base) ==
  /\ counted <= Days
  /\ cursor >= base
  /\ Business => /\ Cardinality(BusinessDays(base, cursor)) = counted
                 /\ counted = Days /\ cursor # base => BusinessDay(cursor)
  /\ ~Business => IF counted = Days
                  THEN /\ cursor >= base + Days
                       /\ ~ask.roll => cursor = base + Days
                       /\ \A e \in (base + Days)..(cursor - 1) : ~BusinessDay(e)
                  ELSE cursor = base

InitialIsLawful ==
  Deadline(clockStart, ask.clock.initialDays, ask.clock.business, statutoryDueAt)

ClockInv ==
  /\ ClockTypeOK
  /\ phase = "start" => /\ counted = 0
                        /\ cursor >= ask.receivedAt
                        /\ ~ask.clock.startsNext => cursor = ask.receivedAt
                        /\ \A e \in ask.receivedAt..(cursor - 1) : ~BusinessDay(e)
  /\ phase # "start" => ClockStarts
  /\ phase = "initial" => CountsFrom(clockStart)
  /\ phase = "extension" => /\ ask.extended /\ Extensible
                            /\ InitialIsLawful
                            /\ CountsFrom(statutoryDueAt)
  /\ DeadlineIsLawful

\* What the phases count is a natural number.
LEMMA DaysNat ==
  ASSUME ClockTypeOK, Counting, phase = "extension" => Extensible
  PROVE  Days \in Nat /\ Business \in BOOLEAN
BY DEF ClockTypeOK, Counting, Extensible, Days, Business, Question, Clock

\* A phase that has arrived is at its deadline.
LEMMA ArrivedIsLawful ==
  ASSUME ClockTypeOK, Days \in Nat, NEW base \in Int, CountsFrom(base), Arrived
  PROVE  Deadline(base, Days, Business, cursor)
<1>1. cursor \in Int
  BY DEF ClockTypeOK
<1>2. CASE Business
  BY <1>1, <1>2 DEF CountsFrom, Arrived, Deadline, NthBusinessDay
<1>3. CASE ~Business
  BY <1>1, <1>3 DEF CountsFrom, Arrived, Deadline, FirstBusinessDay
<1> QED BY <1>2, <1>3

\* A turn of a loop comes further.
LEMMA CountsOn ==
  ASSUME ClockTypeOK, Counting, Days \in Nat, NEW base \in Int, CountsFrom(base),
         AddBusinessDay \/ AddCalendarDays \/ RollForward
  PROVE  /\ counted' \in Nat /\ cursor' \in Int
         /\ counted' <= Days
         /\ cursor' >= base
         /\ Business => /\ Cardinality(BusinessDays(base, cursor')) = counted'
                        /\ counted' = Days /\ cursor' # base => BusinessDay(cursor')
         /\ ~Business => IF counted' = Days
                         THEN /\ cursor' >= base + Days
                              /\ ~ask.roll => cursor' = base + Days
                              /\ \A e \in (base + Days)..(cursor' - 1) : ~BusinessDay(e)
                         ELSE cursor' = base
<1>1. cursor \in Int /\ counted \in Nat
  BY DEF ClockTypeOK
<1>2. CASE AddBusinessDay
  <2>1. /\ Business /\ counted < Days /\ cursor' = cursor + 1
        /\ counted' = IF BusinessDay(cursor + 1) THEN counted + 1 ELSE counted
    BY <1>2 DEF AddBusinessDay
  <2>2. /\ cursor >= base
        /\ Cardinality(BusinessDays(base, cursor)) = counted
    BY <2>1 DEF CountsFrom
  <2>3. Cardinality(BusinessDays(base, cursor + 1)) = counted'
    BY <1>1, <2>1, <2>2, OneMoreDay
  <2> QED BY <1>1, <2>1, <2>2, <2>3
<1>3. CASE AddCalendarDays
  <2>1. /\ ~Business /\ counted < Days /\ cursor' = cursor + Days
        /\ counted' = Days
    BY <1>3 DEF AddCalendarDays
  <2>2. cursor = base
    BY <1>1, <2>1 DEF CountsFrom
  <2> QED BY <1>1, <2>1, <2>2
<1>4. CASE RollForward
  <2>1. /\ ~Business /\ counted = Days /\ cursor' = cursor + 1
        /\ counted' = counted /\ ask.roll /\ ~BusinessDay(cursor)
    BY <1>4 DEF RollForward
  <2>2. /\ cursor >= base + Days
        /\ \A e \in (base + Days)..(cursor - 1) : ~BusinessDay(e)
    BY <1>1, <2>1 DEF CountsFrom
  <2>3. \A e \in (base + Days)..(cursor' - 1) : e = cursor \/ e \in (base + Days)..(cursor - 1)
    BY <1>1, <2>1
  <2> QED BY <1>1, <2>1, <2>2, <2>3
<1> QED BY <1>2, <1>3, <1>4

-----------------------------------------------------------------------------
(* The invariant is inductive.                                             *)

\* Before the first turn of a loop nothing has been counted.
LEMMA InitInv == ASSUME StatuteAssumption, ClockInit PROVE ClockInv
<1>1. ask \in Question
  BY DEF ClockInit, StatuteAssumption
<1>2. ask.receivedAt \in Int
  BY <1>1 DEF Question
<1>3. \A e \in ask.receivedAt..(ask.receivedAt - 1) : FALSE
  BY <1>2
<1> QED BY <1>1, <1>2, <1>3 DEF ClockInit, ClockInv, ClockTypeOK, DeadlineIsLawful

\* Nothing about the calendar or what was found so far changes with the loops.
LEMMA LoopStep ==
  ASSUME ClockInv, AddBusinessDay \/ AddCalendarDays \/ RollForward
  PROVE  ClockInv'
<1>1. /\ ClockTypeOK /\ Counting
      /\ ask' = ask /\ phase' = phase /\ clockStart' = clockStart
      /\ statutoryDueAt' = statutoryDueAt /\ dueAt' = dueAt
  BY DEF ClockInv, AddBusinessDay, AddCalendarDays, RollForward, results
<1>2. phase = "extension" => ask.extended /\ Extensible
  BY DEF ClockInv
<1>3. Days \in Nat /\ Business \in BOOLEAN
  BY <1>1, <1>2, DaysNat
<1>4. clockStart \in Int /\ statutoryDueAt \in Int
  BY <1>1 DEF ClockTypeOK
<1>5. Days' = Days /\ Business' = Business
  BY <1>1 DEF Days, Business
<1>6. \A d : BusinessDay(d)' = BusinessDay(d)
  BY <1>1 DEF BusinessDay
<1>7. ASSUME NEW base \in Int, base' = base, CountsFrom(base)
      PROVE  CountsFrom(base)' /\ counted' \in Nat /\ cursor' \in Int
  <2>1. BusinessDays(base, cursor)' = BusinessDays(base, cursor')
    BY <1>1, <1>7 DEF BusinessDays, BusinessDay
  <2> QED
    BY <1>1, <1>3, <1>5, <1>7, <2>1, CountsOn DEF CountsFrom, BusinessDay
<1>8. CASE phase = "initial"
  <2>1. CountsFrom(clockStart) /\ ClockStarts
    BY <1>8 DEF ClockInv
  <2>2. CountsFrom(clockStart)' /\ counted' \in Nat /\ cursor' \in Int
    BY <1>1, <1>4, <1>7, <2>1
  <2>3. ClockStarts'
    BY <1>1, <2>1 DEF ClockStarts, FirstBusinessDay, BusinessDay
  <2>4. ClockTypeOK'
    BY <1>1, <2>2 DEF ClockTypeOK
  <2> QED BY <1>1, <1>8, <2>2, <2>3, <2>4 DEF ClockInv, DeadlineIsLawful
<1>9. CASE phase = "extension"
  <2>1. CountsFrom(statutoryDueAt) /\ ClockStarts /\ InitialIsLawful
    BY <1>9 DEF ClockInv
  <2>2. CountsFrom(statutoryDueAt)' /\ counted' \in Nat /\ cursor' \in Int
    BY <1>1, <1>4, <1>7, <2>1
  <2>3. ClockStarts'
    BY <1>1, <2>1 DEF ClockStarts, FirstBusinessDay, BusinessDay
  <2>4. ClockTypeOK'
    BY <1>1, <2>2 DEF ClockTypeOK
  <2>5. InitialIsLawful'
    BY <1>1, <2>1 DEF InitialIsLawful, Deadline, NthBusinessDay, FirstBusinessDay,
                      BusinessDays, BusinessDay
  <2>6. (ask.extended /\ Extensible)'
    BY <1>1, <1>2, <1>9 DEF Extensible
  <2> QED BY <1>1, <1>9, <2>2, <2>3, <2>4, <2>5, <2>6 DEF ClockInv, DeadlineIsLawful
<1> QED BY <1>1, <1>8, <1>9 DEF Counting

\* Finding the start of the clock keeps the invariant.
LEMMA StartStep ==
  ASSUME ClockInv, StartLater \/ StartClock
  PROVE  ClockInv'
<1>1. /\ ClockTypeOK /\ phase = "start" /\ counted = 0
      /\ cursor >= ask.receivedAt
      /\ ~ask.clock.startsNext => cursor = ask.receivedAt
      /\ \A e \in ask.receivedAt..(cursor - 1) : ~BusinessDay(e)
      /\ ask' = ask /\ counted' = counted
      /\ statutoryDueAt' = statutoryDueAt /\ dueAt' = dueAt
  BY DEF ClockInv, StartLater, StartClock, results
<1>2. cursor \in Int /\ ask.receivedAt \in Int /\ ask.clock.initialDays \in Nat
  BY <1>1 DEF ClockTypeOK, Question, Clock
<1>3. CASE StartLater
  <2>1. /\ phase' = phase /\ cursor' = cursor + 1 /\ clockStart' = clockStart
        /\ ask.clock.startsNext /\ ~BusinessDay(cursor)
    BY <1>3 DEF StartLater, results
  <2>2. \A e \in ask.receivedAt..(cursor' - 1) : ~BusinessDay(e)
    <3>1. \A e \in ask.receivedAt..(cursor' - 1) :
            e = cursor \/ e \in ask.receivedAt..(cursor - 1)
      BY <1>2, <2>1
    <3> QED BY <1>1, <2>1, <3>1
  <2>3. ClockTypeOK'
    BY <1>1, <1>2, <2>1 DEF ClockTypeOK
  <2> QED BY <1>1, <1>2, <2>1, <2>2, <2>3 DEF ClockInv, DeadlineIsLawful, BusinessDay
<1>4. CASE StartClock
  <2>1. /\ phase' = "initial" /\ cursor' = cursor /\ clockStart' = cursor
        /\ ask.clock.startsNext => BusinessDay(cursor)
    BY <1>4 DEF StartClock
  <2>2. ClockTypeOK'
    BY <1>1, <1>2, <2>1 DEF ClockTypeOK
  <2>3. ClockStarts'
    BY <1>1, <1>2, <2>1 DEF ClockStarts, FirstBusinessDay, BusinessDay
  <2>4. CountsFrom(clockStart)'
    <3>1. cursor' \in Int /\ counted' = 0 /\ Days' \in Nat /\ clockStart' = cursor'
      BY <1>1, <1>2, <2>1 DEF Days
    <3>2. {d \in (clockStart' + 1)..cursor' : BusinessDay(d)'} = {}
      BY <3>1
    <3>3. Cardinality(BusinessDays(clockStart, cursor))' = 0
      BY <3>2, FS_EmptySet DEF BusinessDays, BusinessDay
    <3>4. PICK c \in Int, n \in Nat : clockStart' = c /\ cursor' = c /\ Days' = n
      BY <3>1
    <3>5. (0 = n => c + n = c) /\ \A e \in (c + n)..(c - 1) : FALSE
      OBVIOUS
    <3> QED BY <3>1, <3>3, <3>4, <3>5 DEF CountsFrom
  <2> QED BY <2>1, <2>2, <2>3, <2>4 DEF ClockInv, DeadlineIsLawful
<1> QED BY <1>3, <1>4

\* So does reaching the initial deadline.
LEMMA InitialStep ==
  ASSUME ClockInv, InitialDeadline
  PROVE  ClockInv'
<1>1. /\ ClockTypeOK /\ phase = "initial" /\ Arrived /\ ClockStarts
      /\ CountsFrom(clockStart)
      /\ ask' = ask /\ cursor' = cursor /\ counted' = 0
      /\ clockStart' = clockStart /\ statutoryDueAt' = cursor
      /\ IF ask.extended
         THEN /\ phase' = IF Extensible THEN "extension" ELSE "refused"
              /\ dueAt' = dueAt
         ELSE phase' = "due" /\ dueAt' = cursor
  BY DEF ClockInv, InitialDeadline
<1>2. /\ Days = ask.clock.initialDays /\ Business = ask.clock.business
      /\ Days \in Nat /\ cursor \in Int /\ clockStart \in Int
  BY <1>1 DEF Days, Business, ClockTypeOK, Question, Clock
<1>3. Deadline(clockStart, ask.clock.initialDays, ask.clock.business, cursor)
  BY <1>1, <1>2, ArrivedIsLawful
<1>4. ClockTypeOK'
  BY <1>1, <1>2 DEF ClockTypeOK, Question
<1>5. ClockStarts'
  BY <1>1 DEF ClockStarts, FirstBusinessDay, BusinessDay
<1>6. InitialIsLawful'
  BY <1>1, <1>3 DEF InitialIsLawful, Deadline, NthBusinessDay, FirstBusinessDay,
                    BusinessDays, BusinessDay
<1>7. phase' = "extension" => (ask.extended /\ Extensible)' /\ CountsFrom(statutoryDueAt)'
  <2>1. SUFFICES ASSUME phase' = "extension"
                 PROVE  (ask.extended /\ Extensible)' /\ CountsFrom(statutoryDueAt)'
    OBVIOUS
  <2>2. ask.extended /\ Extensible
    BY <1>1, <2>1
  <2>3. (ask.extended /\ Extensible)'
    BY <1>1, <2>2 DEF Extensible
  <2>4. cursor' \in Int /\ counted' = 0 /\ Days' \in Nat /\ statutoryDueAt' = cursor'
    BY <1>1, <1>2, <2>1, <2>2 DEF Days, Extensible, ClockTypeOK, Question
  <2>5. {d \in (statutoryDueAt' + 1)..cursor' : BusinessDay(d)'} = {}
    BY <2>4
  <2>6. Cardinality(BusinessDays(statutoryDueAt, cursor))' = 0
    BY <2>5, FS_EmptySet DEF BusinessDays, BusinessDay
  <2>7. PICK c \in Int, n \in Nat : statutoryDueAt' = c /\ cursor' = c /\ Days' = n
    BY <2>4
  <2>8. (0 = n => c + n = c) /\ \A e \in (c + n)..(c - 1) : FALSE
    OBVIOUS
  <2> QED BY <2>4, <2>6, <2>7, <2>8, <2>3 DEF CountsFrom
<1>8. DeadlineIsLawful'
  BY <1>1, <1>5, <1>6 DEF DeadlineIsLawful, ClockStarts, InitialIsLawful
<1>9. phase' \in {"extension", "refused", "due"}
  BY <1>1
<1> QED BY <1>4, <1>5, <1>6, <1>7, <1>8, <1>9 DEF ClockInv

\* So does reaching the extended one.
LEMMA ExtendedStep ==
  ASSUME ClockInv, ExtendedDeadline
  PROVE  ClockInv'
<1>1. /\ ClockTypeOK /\ phase = "extension" /\ Arrived /\ ClockStarts
      /\ InitialIsLawful /\ ask.extended /\ Extensible
      /\ CountsFrom(statutoryDueAt)
      /\ ask' = ask /\ cursor' = cursor /\ counted' = counted
      /\ clockStart' = clockStart /\ statutoryDueAt' = statutoryDueAt
      /\ dueAt' = cursor /\ phase' = "due"
  BY DEF ClockInv, ExtendedDeadline
<1>2. /\ Days = ask.days /\ Business = ask.clock.extendsByBusiness
      /\ Days \in Nat /\ statutoryDueAt \in Int
  BY <1>1, DaysNat DEF Days, Business, ClockTypeOK, Counting
<1>3. Deadline(statutoryDueAt, ask.days, ask.clock.extendsByBusiness, cursor)
  BY <1>1, <1>2, ArrivedIsLawful
<1>4. ClockTypeOK'
  BY <1>1 DEF ClockTypeOK
<1>5. ClockStarts'
  BY <1>1 DEF ClockStarts, FirstBusinessDay, BusinessDay
<1>6. InitialIsLawful'
  BY <1>1 DEF InitialIsLawful, Deadline, NthBusinessDay, FirstBusinessDay,
              BusinessDays, BusinessDay
<1>7. Deadline(statutoryDueAt, ask.days, ask.clock.extendsByBusiness, dueAt)'
  BY <1>1, <1>3 DEF Deadline, NthBusinessDay, FirstBusinessDay,
                    BusinessDays, BusinessDay
<1>8. Extensible'
  BY <1>1 DEF Extensible
<1>9. DeadlineIsLawful'
  BY <1>1, <1>5, <1>6, <1>7, <1>8 DEF DeadlineIsLawful, ClockStarts, InitialIsLawful
<1> QED BY <1>1, <1>4, <1>5, <1>9 DEF ClockInv

\* So does a step that changes nothing.
LEMMA StutterStep == ASSUME ClockInv, UNCHANGED clockVars PROVE ClockInv'
BY DEF ClockInv, clockVars, results, ClockTypeOK, ClockStarts, InitialIsLawful, CountsFrom,
       DeadlineIsLawful, Deadline, NthBusinessDay, FirstBusinessDay, Extensible,
       BusinessDays, BusinessDay, Days, Business

\* The invariant holds throughout.
LEMMA InvInductive == StatuteAssumption => (ClockSpec => []ClockInv)
<1>1. StatuteAssumption /\ ClockInit => ClockInv
  BY InitInv
<1>2. ClockInv /\ [ClockNext]_clockVars => ClockInv'
  BY LoopStep, StartStep, InitialStep, ExtendedStep, StutterStep DEF ClockNext
<1> QED BY <1>1, <1>2, PTL DEF ClockSpec

-----------------------------------------------------------------------------
(* What follows from it.                                                   *)

\* It says that an extension only adds days.
LEMMA InvGivesDays == ASSUME ClockInv PROVE ExtensionOnlyAdds
<1>1. ClockTypeOK /\ DeadlineIsLawful
  BY DEF ClockInv
<1>2. SUFFICES ASSUME phase = "due"
               PROVE  /\ statutoryDueAt >= ask.receivedAt + ask.clock.initialDays
                      /\ ask.extended => dueAt >= statutoryDueAt + ask.days
  BY DEF ExtensionOnlyAdds
<1>3. /\ ask.receivedAt \in Int /\ ask.clock.initialDays \in Nat /\ ask.days \in Int
      /\ ask.clock.business \in BOOLEAN /\ ask.clock.extendsByBusiness \in BOOLEAN
      /\ clockStart \in Int /\ statutoryDueAt \in Int /\ dueAt \in Int
  BY <1>1 DEF ClockTypeOK, Question, Clock
<1>4. /\ clockStart >= ask.receivedAt
      /\ Deadline(clockStart, ask.clock.initialDays, ask.clock.business,
                  statutoryDueAt)
  BY <1>1, <1>2, <1>3 DEF DeadlineIsLawful, FirstBusinessDay
<1>5. statutoryDueAt >= clockStart + ask.clock.initialDays
  BY <1>3, <1>4, DeadlineIsLater
<1>6. ask.extended => dueAt >= statutoryDueAt + ask.days
  <2>1. SUFFICES ASSUME ask.extended PROVE dueAt >= statutoryDueAt + ask.days
    OBVIOUS
  <2>2. /\ Deadline(statutoryDueAt, ask.days, ask.clock.extendsByBusiness, dueAt)
        /\ ask.days \in Nat
    BY <1>1, <1>2, <1>3, <2>1 DEF DeadlineIsLawful, Extensible
  <2> QED BY <1>3, <2>2, DeadlineIsLater
<1> QED BY <1>3, <1>4, <1>5, <1>6

\* The walk over the calendar ends on the day the statute means, for every
\* calendar, clock and question (statute/computeDueDate.ts).
THEOREM DeadlinesAreLawful == StatuteAssumption => (ClockSpec => []DeadlineIsLawful)
<1>1. ClockInv => DeadlineIsLawful
  BY DEF ClockInv
<1> QED BY <1>1, InvInductive, PTL

\* No deadline is earlier than the days it stands for, and an extension is
\* never a shortening (services/requestService.ts, extendRequest).
THEOREM ExtensionsAdd == StatuteAssumption => (ClockSpec => []ExtensionOnlyAdds)
<1>1. ClockInv => ExtensionOnlyAdds
  BY InvGivesDays
<1> QED BY <1>1, InvInductive, PTL
=============================================================================
