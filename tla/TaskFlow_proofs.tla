--------------------------- MODULE TaskFlow_proofs ---------------------------
(***************************************************************************)
(* Proofs about TaskFlow for any number of callers, files, suggestions and *)
(* calls, and every interleaving and failure the properties allow.         *)
(*                                                                         *)
(* What a call in hand knows is in FrameOK: it depends on the call alone,  *)
(* and on how many tasks there are, which only grow.                       *)
(***************************************************************************)
EXTENDS TaskFlow, SequenceTheorems, WellFoundedInduction, TLAPS

RequestPaths == {<<"in_review", "in_progress">>, <<"in_progress">>}
SubmitPaths  == {<<"submitted">>, <<"in_progress", "submitted">>}

FrameOK(f, n) ==
  /\ f \in Call
  /\ f.pc \in {"check", "assert", "move"} => f.path \in RequestPaths
  /\ f.pc \in {"check", "assert", "move", "task"} => f.t = 0 /\ f.make \in 1..(MaxBatch + 1)
  /\ f.pc \in {"read", "write"} =>
       /\ f.t \in 1..n
       /\ f.path \in SubmitPaths \/ \E s \in TaskStatus : f.path = <<s>>
       /\ f.path \in SubmitPaths => f.files # {}
  /\ f.pc \in {"create", "link"} => f.left # {}

FramesOK == /\ call \in [Callers -> Call]
            /\ \A c \in Callers : FrameOK(call[c], Len(tasks))

RestOK == /\ request \in Status
          /\ tasks \in Seq(Task)
          /\ docs \in [Files -> {"none", "loose", "attached"}]
          /\ drawn \in 0..MaxFiles
          /\ env \in Environment

TypeInv == FramesOK /\ RestOK

-----------------------------------------------------------------------------
(* Frames.                                                                 *)

LEMMA IdleCall == Idle \in Call
BY TaskAssumption DEF Idle, Call

LEMMA IdleOK == \A n \in Nat : FrameOK(Idle, n)
<1>1. /\ Idle.pc = "idle" /\ Idle.t = 0 /\ Idle.by = 0 /\ Idle.make = 0
      /\ Idle.path = <<>> /\ Idle.seen = {} /\ Idle.files = {} /\ Idle.left = {}
  BY DEF Idle
<1> QED BY <1>1, IdleCall DEF FrameOK

\* A call in hand moves on, its frame having been sound, or the new one being so,
LEMMA FrameStep ==
  ASSUME TypeInv, NEW c \in Callers, NEW f, call' = [call EXCEPT ![c] = f],
         FrameOK(f, Len(tasks')), Len(tasks') \in Nat, Len(tasks') >= Len(tasks)
  PROVE  FramesOK'
<1>1. Len(tasks) \in Nat BY DEF TypeInv, RestOK
<1>2. ASSUME NEW d \in Callers PROVE FrameOK(call[d], Len(tasks'))
  <2>1. FrameOK(call[d], Len(tasks)) BY DEF TypeInv, FramesOK
  <2> QED BY <2>1, <1>1 DEF FrameOK
<1>3. f \in Call BY DEF FrameOK
<1>4. call' \in [Callers -> Call] BY <1>3 DEF TypeInv, FramesOK
<1>5. \A d \in Callers : call'[d] = IF d = c THEN f ELSE call[d]
  BY DEF TypeInv, FramesOK
<1>6. \A d \in Callers : FrameOK(call'[d], Len(tasks')) BY <1>2, <1>5
<1> QED BY <1>4, <1>6 DEF FramesOK

\* or ends.
LEMMA FrameEnds ==
  ASSUME TypeInv, NEW c \in Callers, Finish(c), tasks' = tasks
  PROVE  FramesOK'
<1>1. Len(tasks) \in Nat BY DEF TypeInv, RestOK
<1>2. FrameOK(Idle, Len(tasks)) BY <1>1, IdleOK
<1>3. /\ Len(tasks') \in Nat /\ Len(tasks') >= Len(tasks)
      /\ FrameOK(Idle, Len(tasks'))
  BY <1>1, <1>2
<1>4. call' = [call EXCEPT ![c] = Idle] BY DEF Finish
<1> QED BY <1>3, <1>4, FrameStep

LEMMA RequestTyped == \A s \in Status : Transitions[s] \subseteq Status
BY DEF Transitions, Status, Exits

-----------------------------------------------------------------------------
(* Calls that begin.                                                       *)

LEMMA Paths ==
  /\ \A S : \A a, b \in S : <<a, b>> \in Seq(S)
  /\ \A S : \A a \in S : <<a>> \in Seq(S)
OBVIOUS

LEMMA ForwardOK ==
  ASSUME NEW s \in Status
  PROVE  /\ Forward(s) \in RequestPaths \cup {<<>>}
         /\ Forward(s) \in Seq(Status \cup TaskStatus)
         /\ s \in {"submitted", "in_review"} => Forward(s) # <<>>
<1>1. \/ Forward(s) = <<"in_review", "in_progress">>
      \/ Forward(s) = <<"in_progress">> \/ Forward(s) = <<>>
  BY DEF Forward
<1>2. s \in {"submitted", "in_review"} => Forward(s) # <<>> BY DEF Forward
<1>3. "in_review" \in Status \cup TaskStatus /\ "in_progress" \in Status \cup TaskStatus
  BY DEF Status
<1> DEFINE S == Status \cup TaskStatus
<1> HIDE DEF S
<1>4. Forward(s) \in Seq(S)
  <2>1. "in_review" \in S /\ "in_progress" \in S BY <1>3 DEF S
  <2>2. <<>> \in Seq(S) OBVIOUS
  <2> QED BY <1>1, <2>1, <2>2, Paths
<1> QED BY <1>1, <1>2, <1>4 DEF RequestPaths, S

Beginning(c) ==
  \/ Dispatch(c) \/ AgentDispatch(c) \/ \E n \in 1..MaxBatch : AutoDispatch(c, n)
  \/ \E t \in DOMAIN tasks :
       \/ Work(c, t) \/ PushBack(c, t) \/ Reassign(c, t) \/ Accept(c, t)
       \/ \E n \in Files : Submit(c, t, n) \/ Mail(c, t, n)

LEMMA RequestFrame ==
  ASSUME NEW n \in Nat, NEW pc \in {"check", "assert", "task"}, NEW by \in Nat,
         NEW make \in 1..(MaxBatch + 1), NEW path \in Seq(Status \cup TaskStatus),
         pc # "task" => path \in RequestPaths
  PROVE  /\ FrameOK(ForRequest(pc, by, make, path), n)
         /\ ForRequest(pc, by, make, path).pc = pc
         /\ ForRequest(pc, by, make, path).by = by
<1> DEFINE f == ForRequest(pc, by, make, path)
<1>1. f.pc = pc /\ f.t = 0 /\ f.by = by /\ f.make = make /\ f.path = path
  BY DEF ForRequest, Idle
<1>2. f \in Call
  <2>1. make \in 0..(MaxBatch + 1) BY TaskAssumption
  <2> QED BY <2>1, IdleCall DEF ForRequest, Call
<1> HIDE DEF f
<1>3. FrameOK(f, n) BY <1>1, <1>2 DEF FrameOK
<1> QED BY <1>1, <1>3 DEF f

LEMMA TaskFrame ==
  ASSUME NEW n \in Nat, NEW t \in 1..n, NEW path, NEW files \in SUBSET Files,
         path \in SubmitPaths \/ \E s \in TaskStatus : path = <<s>>,
         path \in SubmitPaths => files # {}
  PROVE  FrameOK(ForTask(t, path, files), n) /\ ForTask(t, path, files).pc = "read"
<1> DEFINE f == ForTask(t, path, files)
           S == Status \cup TaskStatus
<1>1. path \in Seq(S)
  <2>1. CASE path \in SubmitPaths
    <3>1. "submitted" \in S /\ "in_progress" \in S BY DEF TaskStatus
    <3> QED BY <3>1, <2>1, Paths DEF SubmitPaths
  <2>2. CASE \E s \in TaskStatus : path = <<s>> BY <2>2, Paths
  <2> QED BY <2>1, <2>2
<1>2. f.pc = "read" /\ f.t = t /\ f.files = files /\ f.path = path
  BY DEF ForTask, Idle
<1>3. f \in Call
  <2>1. t \in Nat OBVIOUS
  <2> QED BY <1>1, <2>1, IdleCall DEF ForTask, Call
<1> HIDE DEF f
<1>4. FrameOK(f, n) BY <1>2, <1>3 DEF FrameOK
<1> QED BY <1>2, <1>4 DEF f

\* A call that begins has a sound frame, is not a write, and changes at most how
\* many files were handed in.
Starts(c, f) == /\ FrameOK(f, Len(tasks)) /\ Begin(c, f)
                /\ f.pc \in {"check", "assert", "task", "read"}
                /\ f.pc \in {"assert", "task"} => f.by = 0
                /\ UNCHANGED <<request, tasks, docs>> /\ drawn' \in 0..MaxFiles

LEMMA Begins ==
  ASSUME TypeInv, NEW c \in Callers, Beginning(c)
  PROVE  \E f : Starts(c, f)
<1>0. /\ request \in Status /\ drawn \in 0..MaxFiles /\ env.calls \in Nat
      /\ Len(tasks) \in Nat /\ DOMAIN tasks = 1..Len(tasks)
      /\ MaxBatch \in Nat /\ MaxFiles \in Nat
  BY TaskAssumption DEF TypeInv, RestOK, Environment
<1>1. 1 \in 1..(MaxBatch + 1) /\ <<>> \in Seq(Status \cup TaskStatus) BY <1>0
<1>2. CASE Dispatch(c)
  <2>1. Forward(request) \in RequestPaths \cup {<<>>}
        /\ Forward(request) \in Seq(Status \cup TaskStatus)
    BY <1>0, ForwardOK
  <2>2. CASE Forward(request) = <<>>
    <3> DEFINE f == ForRequest("task", 0, 1, Forward(request))
    <3>1. FrameOK(f, Len(tasks)) /\ f.pc = "task" /\ f.by = 0
      BY <1>0, <1>1, <2>1, RequestFrame
    <3>2. Begin(c, f) /\ UNCHANGED <<request, tasks, docs, drawn>>
      BY <1>2, <2>2 DEF Dispatch
    <3> QED BY <1>0, <3>1, <3>2 DEF Starts
  <2>3. CASE Forward(request) # <<>>
    <3> DEFINE f == ForRequest("assert", 0, 1, Forward(request))
    <3>0. Forward(request) \in RequestPaths BY <2>1, <2>3
    <3>1. FrameOK(f, Len(tasks)) /\ f.pc = "assert" /\ f.by = 0
      BY <1>0, <1>1, <2>1, <3>0, RequestFrame
    <3>2. Begin(c, f) /\ UNCHANGED <<request, tasks, docs, drawn>>
      BY <1>2, <2>3 DEF Dispatch
    <3> QED BY <1>0, <3>1, <3>2 DEF Starts
  <2> QED BY <2>2, <2>3
<1>3. CASE AgentDispatch(c)
  <2>0. PICK path \in Seq(Status \cup TaskStatus) : path = <<>> BY <1>1
  <2> DEFINE f == ForRequest("task", 0, 1, path)
  <2>1. FrameOK(f, Len(tasks)) /\ f.pc = "task" /\ f.by = 0
    BY <1>0, <1>1, RequestFrame
  <2>2. Begin(c, f) /\ UNCHANGED <<request, tasks, docs, drawn>>
    BY <1>3, <2>0 DEF AgentDispatch
  <2> QED BY <1>0, <2>1, <2>2 DEF Starts
<1>4. ASSUME NEW n \in 1..MaxBatch, AutoDispatch(c, n) PROVE \E f : Starts(c, f)
  <2> DEFINE f == ForRequest("check", env.calls, n, Forward(request))
  <2>1. /\ Forward(request) \in RequestPaths
        /\ Forward(request) \in Seq(Status \cup TaskStatus)
    BY <1>0, <1>4, ForwardOK DEF AutoDispatch
  <2>2. n \in 1..(MaxBatch + 1) BY <1>0
  <2>3. FrameOK(f, Len(tasks)) /\ f.pc = "check"
    BY <1>0, <2>1, <2>2, RequestFrame
  <2>4. Begin(c, f) /\ UNCHANGED <<request, tasks, docs, drawn>>
    BY <1>4 DEF AutoDispatch
  <2> QED BY <1>0, <2>3, <2>4 DEF Starts
<1>5. ASSUME NEW t \in DOMAIN tasks, NEW to \in TaskStatus \ {"submitted"},
             Handle(c, t, to)
      PROVE  \E f : Starts(c, f)
  <2> DEFINE f == ForTask(t, <<to>>, {})
  <2>1. <<to>> \notin SubmitPaths BY DEF SubmitPaths
  <2>2. FrameOK(f, Len(tasks)) /\ f.pc = "read"
    BY <1>0, <2>1, TaskFrame
  <2>3. Begin(c, f) /\ UNCHANGED <<request, tasks, docs, drawn>> BY <1>5 DEF Handle
  <2> QED BY <1>0, <2>2, <2>3 DEF Starts
<1>6. ASSUME NEW t \in DOMAIN tasks,
             Work(c, t) \/ PushBack(c, t) \/ Reassign(c, t) \/ Accept(c, t)
      PROVE  \E f : Starts(c, f)
  <2>1. {"in_progress", "pushed_back", "assigned", "done"}
          \subseteq TaskStatus \ {"submitted"}
    BY DEF TaskStatus
  <2> QED BY <2>1, <1>5, <1>6 DEF Work, PushBack, Reassign, Accept
<1>7. ASSUME NEW t \in DOMAIN tasks, NEW n \in Files, Submit(c, t, n) \/ Mail(c, t, n)
      PROVE  \E f : Starts(c, f)
  <2>1. PICK files : files = (drawn + 1)..(drawn + n) OBVIOUS
  <2>2. drawn + n <= MaxFiles /\ drawn' = drawn + n /\ UNCHANGED <<request, tasks, docs>>
    BY <1>7 DEF Submit, Mail
  <2>3. files \in SUBSET Files /\ files # {} /\ drawn' \in 0..MaxFiles
    <3>1. n \in Nat /\ n >= 1 /\ drawn \in Nat BY <1>0 DEF Files
    <3>2. drawn + 1 \in files BY <3>1, <2>1
    <3>3. files \subseteq 1..MaxFiles BY <3>1, <1>0, <2>1, <2>2
    <3>4. drawn' \in 0..MaxFiles BY <3>1, <1>0, <2>2
    <3> QED BY <3>2, <3>3, <3>4 DEF Files
  <2>4. PICK path \in SubmitPaths : Begin(c, ForTask(t, path, files))
    BY <1>7, <2>1 DEF Submit, Mail, SubmitPaths
  <2>5. FrameOK(ForTask(t, path, files), Len(tasks)) /\ ForTask(t, path, files).pc = "read"
    BY <1>0, <2>3, <2>4, TaskFrame
  <2> QED BY <2>2, <2>3, <2>4, <2>5 DEF Starts
<1>8. CASE \E t \in DOMAIN tasks :
             \/ Work(c, t) \/ PushBack(c, t) \/ Reassign(c, t) \/ Accept(c, t)
             \/ \E n \in Files : Submit(c, t, n) \/ Mail(c, t, n)
  BY <1>6, <1>7, <1>8
<1> QED BY <1>2, <1>3, <1>4, <1>8 DEF Beginning

Ongoing(c) == \/ AutoCheck(c) \/ AssertEdge(c) \/ Move(c) \/ CreateTask(c)
              \/ SkipSuggestion(c) \/ Read(c) \/ Write(c)
              \/ CreateDocument(c) \/ LinkDocument(c) \/ CallAborts(c)

LEMMA Steps ==
  ASSUME Next
  PROVE  RequestMoves \/ \E c \in Callers : Beginning(c) \/ Ongoing(c)
BY DEF Next, Dispatching, Working, Beginning, Ongoing

\* A step of a call that leaves the tasks alone changes its frame in place.
LEMMA FrameGoes ==
  ASSUME TypeInv, NEW c \in Callers, NEW f, call' = [call EXCEPT ![c] = f],
         FrameOK(f, Len(tasks)), tasks' = tasks
  PROVE  FramesOK'
<1>1. Len(tasks) \in Nat BY DEF TypeInv, RestOK
<1>2. /\ Len(tasks') \in Nat /\ Len(tasks') >= Len(tasks) /\ FrameOK(f, Len(tasks'))
  BY <1>1
<1> QED BY <1>2, FrameStep

LEMMA BeginsTyped ==
  ASSUME TypeInv, NEW c \in Callers, Beginning(c)
  PROVE  TypeInv'
<1>1. PICK f : Starts(c, f) BY Begins
<1>2. FramesOK' BY <1>1, FrameGoes DEF Starts, Begin
<1>3. env' \in Environment
  BY <1>1 DEF Starts, Begin, TypeInv, RestOK, Environment
<1> QED BY <1>1, <1>2, <1>3 DEF TypeInv, RestOK, Starts

\* The two parts of a dispatch.
LEMMA ReadsTyped ==
  ASSUME TypeInv, NEW c \in Callers,
         AutoCheck(c) \/ AssertEdge(c) \/ Read(c) \/ CallAborts(c)
  PROVE  TypeInv'
<1>0. /\ call \in [Callers -> Call] /\ FrameOK(call[c], Len(tasks))
      /\ UNCHANGED <<request, tasks, docs, drawn, env>>
  BY DEF TypeInv, FramesOK, AutoCheck, AssertEdge, Read, CallAborts
<1>1. RestOK' BY <1>0 DEF TypeInv, RestOK
<1>2. CASE Finish(c) BY <1>0, <1>1, <1>2, FrameEnds DEF TypeInv
<1>3. CASE AutoCheck(c) /\ ~Finish(c)
  <2>1. call[c].pc = "check" /\ call' = [call EXCEPT ![c] = [call[c] EXCEPT !.pc = "assert"]]
    BY <1>0, <1>3 DEF AutoCheck
  <2>2. FrameOK([call[c] EXCEPT !.pc = "assert"], Len(tasks))
    BY <1>0, <2>1 DEF FrameOK, Call
  <2> QED BY <2>1, <2>2, <1>0, <1>1, FrameGoes DEF TypeInv
<1>4. CASE AssertEdge(c) /\ ~Finish(c)
  <2>1. call[c].pc = "assert" /\ call' = [call EXCEPT ![c] = [call[c] EXCEPT !.pc = "move"]]
    BY <1>0, <1>4 DEF AssertEdge
  <2>2. FrameOK([call[c] EXCEPT !.pc = "move"], Len(tasks))
    BY <1>0, <2>1 DEF FrameOK, Call
  <2> QED BY <2>1, <2>2, <1>0, <1>1, FrameGoes DEF TypeInv
<1>5. CASE Read(c) /\ ~Finish(c)
  <2> DEFINE f == [[call[c] EXCEPT !.pc = "write"] EXCEPT !.seen = tasks[call[c].t].uploads]
  <2>1. call[c].pc = "read" /\ call' = [call EXCEPT ![c] = f]
    BY <1>0, <1>5 DEF Read
  <2>2. call[c].t \in 1..Len(tasks) BY <1>0, <2>1 DEF FrameOK
  <2>3. tasks[call[c].t].uploads \in SUBSET Files
    <3>1. tasks[call[c].t] \in Task BY <2>2, ElementOfSeq DEF TypeInv, RestOK
    <3> QED BY <3>1 DEF Task
  <2>4. f \in Call BY <1>0, <2>3 DEF Call
  <2>5. /\ f.pc = "write" /\ f.t = call[c].t /\ f.path = call[c].path
        /\ f.files = call[c].files
    BY <1>0 DEF Call
  <2> HIDE DEF f
  <2>6. FrameOK(f, Len(tasks)) BY <1>0, <2>1, <2>4, <2>5 DEF FrameOK
  <2> QED BY <2>1, <2>6, <1>0, <1>1, FrameGoes DEF TypeInv
<1>6. CASE CallAborts(c) BY <1>6, <1>2 DEF CallAborts
<1> QED BY <1>2, <1>3, <1>4, <1>5, <1>6

LEMMA PathParts ==
  /\ Head(<<"in_review", "in_progress">>) = "in_review"
  /\ Tail(<<"in_review", "in_progress">>) = <<"in_progress">>
  /\ Head(<<"in_progress", "submitted">>) = "in_progress"
  /\ Tail(<<"in_progress", "submitted">>) = <<"submitted">>
  /\ \A s : Head(<<s>>) = s /\ Tail(<<s>>) = <<>>
OBVIOUS

LEMMA MoveTyped ==
  ASSUME TypeInv, NEW c \in Callers, Move(c)
  PROVE  TypeInv'
<1> DEFINE rest == Tail(call[c].path)
           f == [[call[c] EXCEPT !.path = rest]
                   EXCEPT !.pc = IF rest = <<>> THEN "task" ELSE "assert"]
<1>0. /\ call \in [Callers -> Call] /\ FrameOK(call[c], Len(tasks))
      /\ call[c].pc = "move" /\ call[c].path \in RequestPaths
      /\ UNCHANGED <<tasks, docs, drawn, env>>
  BY DEF TypeInv, FramesOK, FrameOK, Move
<1>1. call' = [call EXCEPT ![c] = f] /\ request' = Head(call[c].path)
  BY <1>0 DEF Move
<1>2. /\ Head(call[c].path) \in {"in_review", "in_progress"}
      /\ rest = <<>> \/ rest = <<"in_progress">>
  BY <1>0, PathParts DEF RequestPaths
<1>3. rest \in Seq(Status \cup TaskStatus)
  <2>1. "in_progress" \in Status \cup TaskStatus BY DEF TaskStatus
  <2>2. <<>> \in Seq(Status \cup TaskStatus) OBVIOUS
  <2> QED BY <1>2, <2>1, <2>2, Paths
<1>4. f \in Call BY <1>0, <1>3 DEF Call
<1>5. /\ f.pc = (IF rest = <<>> THEN "task" ELSE "assert") /\ f.path = rest
      /\ f.t = call[c].t /\ f.make = call[c].make
  BY <1>0 DEF Call
<1> HIDE DEF f, rest
<1>6. FrameOK(f, Len(tasks)) BY <1>0, <1>2, <1>4, <1>5 DEF FrameOK, RequestPaths
<1>7. FramesOK' BY <1>0, <1>1, <1>6, FrameGoes
<1>8. request' \in Status BY <1>1, <1>2 DEF Status
<1> QED BY <1>0, <1>7, <1>8 DEF TypeInv, RestOK

LEMMA CreateTyped ==
  ASSUME TypeInv, NEW c \in Callers, CreateTask(c) \/ SkipSuggestion(c)
  PROVE  TypeInv'
<1>0. /\ call \in [Callers -> Call] /\ FrameOK(call[c], Len(tasks)) /\ call[c].pc = "task"
      /\ UNCHANGED <<request, docs, drawn, env>>
      /\ tasks \in Seq(Task) /\ Len(tasks) \in Nat /\ MaxBatch \in Nat
  BY TaskAssumption DEF TypeInv, FramesOK, RestOK, CreateTask, SkipSuggestion
<1>1. tasks' \in Seq(Task) /\ Len(tasks') \in Nat /\ Len(tasks') >= Len(tasks)
  <2>1. CASE tasks' = tasks BY <1>0, <2>1
  <2>2. CASE CreateTask(c)
    <3>1. [by |-> call[c].by, status |-> "assigned", uploads |-> {}] \in Task
      BY <1>0 DEF Task, TaskStatus, Call
    <3>2. tasks' = Append(tasks, [by |-> call[c].by, status |-> "assigned", uploads |-> {}])
      BY <2>2 DEF CreateTask
    <3> QED BY <3>1, <3>2, <1>0
  <2> QED BY <2>1, <2>2 DEF SkipSuggestion
<1>2. CASE Finish(c)
  <2>1. FrameOK(Idle, Len(tasks')) BY <1>1, IdleOK
  <2>2. call' = [call EXCEPT ![c] = Idle] BY <1>2 DEF Finish
  <2>3. FramesOK' BY <2>1, <2>2, <1>1, FrameStep
  <2> QED BY <2>3, <1>0, <1>1 DEF TypeInv, RestOK
<1>3. CASE ~Finish(c)
  <2> DEFINE f == [call[c] EXCEPT !.make = call[c].make - 1]
  <2>1. call[c].make # 1 /\ call' = [call EXCEPT ![c] = f]
    BY <1>0, <1>3 DEF CreateTask, SkipSuggestion
  <2>2. call[c].make \in 1..(MaxBatch + 1) /\ call[c].t = 0 BY <1>0 DEF FrameOK
  <2>3. call[c].make - 1 \in 1..(MaxBatch + 1) /\ call[c].make - 1 \in 0..(MaxBatch + 1)
    BY <2>1, <2>2, <1>0
  <2>4. /\ f \in Call /\ f.pc = "task" /\ f.t = call[c].t
        /\ f.make = call[c].make - 1
    BY <1>0, <2>3 DEF Call
  <2> HIDE DEF f
  <2>5. FrameOK(f, Len(tasks')) BY <2>2, <2>3, <2>4 DEF FrameOK
  <2>6. FramesOK' BY <2>1, <2>5, <1>1, FrameStep
  <2> QED BY <2>6, <1>0, <1>1 DEF TypeInv, RestOK
<1> QED BY <1>2, <1>3

\* What a write makes of the task it is about.
Written(c) == LET to == Head(call[c].path)
              IN  [tasks[call[c].t] EXCEPT
                     !.status = to,
                     !.uploads = IF to = "submitted" THEN Listed(call[c]) ELSE @]

LEMMA WriteEffect ==
  ASSUME TypeInv, NEW c \in Callers, Write(c)
  PROVE  /\ call[c].t \in 1..Len(tasks)
         /\ Head(call[c].path) \in TaskStatus
         /\ Written(c).status = Head(call[c].path)
         /\ Written(c).uploads = IF Head(call[c].path) = "submitted"
                                 THEN Listed(call[c]) ELSE tasks[call[c].t].uploads
         /\ Written(c).by = tasks[call[c].t].by
         /\ Written(c) \in Task
         /\ tasks' \in Seq(Task) /\ Len(tasks') = Len(tasks)
         /\ \A t \in 1..Len(tasks) :
              tasks'[t] = IF t = call[c].t THEN Written(c) ELSE tasks[t]
<1> DEFINE j == call[c].t
           to == Head(call[c].path)
<1>0. /\ call \in [Callers -> Call] /\ FrameOK(call[c], Len(tasks)) /\ call[c].pc = "write"
      /\ tasks \in Seq(Task)
  BY DEF TypeInv, FramesOK, RestOK, Write
<1>1. j \in 1..Len(tasks) /\ tasks[j] \in Task
  BY <1>0, ElementOfSeq DEF FrameOK
<1>2. to \in TaskStatus
  <2>1. CASE call[c].path \in SubmitPaths
    BY <2>1, PathParts DEF SubmitPaths, TaskStatus
  <2>2. CASE \E s \in TaskStatus : call[c].path = <<s>> BY <2>2, PathParts
  <2> QED BY <2>1, <2>2, <1>0 DEF FrameOK
<1>3. Listed(call[c]) \in SUBSET Files BY <1>0 DEF Listed, FrameOK, Call
<1>4. /\ Written(c).status = to
      /\ Written(c).uploads = IF to = "submitted" THEN Listed(call[c]) ELSE tasks[j].uploads
      /\ Written(c).by = tasks[j].by /\ Written(c) \in Task
  BY <1>1, <1>2, <1>3 DEF Written, Task
<1>5. tasks' = [tasks EXCEPT ![j] = Written(c)]
  BY <1>0, <1>1 DEF Write, Written
<1>6. /\ tasks' \in Seq(Task) /\ Len(tasks') = Len(tasks)
      /\ \A t \in 1..Len(tasks) : tasks'[t] = IF t = j THEN Written(c) ELSE tasks[t]
  BY <1>0, <1>1, <1>4, <1>5, ExceptSeq
<1> QED BY <1>1, <1>2, <1>4, <1>6

LEMMA WriteTyped ==
  ASSUME TypeInv, NEW c \in Callers, Write(c)
  PROVE  TypeInv'
<1> DEFINE to   == Head(call[c].path)
           rest == Tail(call[c].path)
<1>0. /\ call \in [Callers -> Call] /\ FrameOK(call[c], Len(tasks)) /\ call[c].pc = "write"
      /\ UNCHANGED <<request, docs, drawn, env>> /\ Len(tasks) \in Nat
  BY DEF TypeInv, FramesOK, RestOK, Write
<1>1. /\ tasks' \in Seq(Task) /\ Len(tasks') \in Nat /\ Len(tasks') = Len(tasks)
      /\ Len(tasks') >= Len(tasks)
  <2>1. tasks' \in Seq(Task) /\ Len(tasks') = Len(tasks) BY WriteEffect
  <2> QED BY <2>1, <1>0
<1>2. call[c].t \in 1..Len(tasks) /\ call[c].files \in SUBSET Files
  BY <1>0 DEF FrameOK, Call
<1>3. CASE Finish(c)
  <2>1. FrameOK(Idle, Len(tasks')) BY <1>1, IdleOK
  <2>2. call' = [call EXCEPT ![c] = Idle] BY <1>3 DEF Finish
  <2>3. FramesOK' BY <2>1, <2>2, <1>0, <1>1, FrameStep
  <2> QED BY <2>3, <1>0, <1>1 DEF TypeInv, RestOK
<1>4. ASSUME NEW f, call' = [call EXCEPT ![c] = f], FrameOK(f, Len(tasks))
      PROVE  TypeInv'
  <2>1. FrameOK(f, Len(tasks')) BY <1>1, <1>4
  <2>2. FramesOK' BY <2>1, <1>0, <1>1, <1>4, FrameStep
  <2> QED BY <2>2, <1>0, <1>1 DEF TypeInv, RestOK
<1>5. CASE rest # <<>>
  <2>1. call[c].path = <<"in_progress", "submitted">> /\ rest = <<"submitted">>
    <3>1. CASE call[c].path \in SubmitPaths BY <3>1, <1>5, PathParts DEF SubmitPaths
    <3>2. CASE \E s \in TaskStatus : call[c].path = <<s>> BY <3>2, <1>5, PathParts
    <3> QED BY <3>1, <3>2, <1>0 DEF FrameOK
  <2>2. call[c].files # {} BY <2>1, <1>0 DEF FrameOK, SubmitPaths
  <2> DEFINE f == [[call[c] EXCEPT !.pc = "read"] EXCEPT !.path = rest]
  <2>3. call' = [call EXCEPT ![c] = f] BY <1>0, <1>5 DEF Write
  <2>4. rest \in Seq(Status \cup TaskStatus)
    <3>1. "submitted" \in Status \cup TaskStatus BY DEF TaskStatus
    <3> QED BY <3>1, <2>1, Paths
  <2>5. /\ f \in Call /\ f.pc = "read" /\ f.path = <<"submitted">>
        /\ f.t = call[c].t /\ f.files = call[c].files
    BY <1>0, <2>1, <2>4 DEF Call
  <2> HIDE DEF f
  <2>6. FrameOK(f, Len(tasks)) BY <2>2, <2>5, <1>2 DEF FrameOK, SubmitPaths
  <2> QED BY <2>3, <2>6, <1>4
<1>6. CASE rest = <<>> /\ to = "submitted"
  <2> DEFINE f == [[call[c] EXCEPT !.pc = "create"] EXCEPT !.left = call[c].files]
  <2>1. call' = [call EXCEPT ![c] = f] BY <1>0, <1>6 DEF Write
  <2>2. call[c].files # {}
    <3>1. CASE call[c].path \in SubmitPaths BY <3>1, <1>0 DEF FrameOK
    <3>2. CASE \E s \in TaskStatus : call[c].path = <<s>>
      BY <3>2, <1>6, <1>0, PathParts DEF SubmitPaths, FrameOK
    <3> QED BY <3>1, <3>2, <1>0 DEF FrameOK
  <2>3. f \in Call /\ f.pc = "create" /\ f.left = call[c].files
    BY <1>0, <1>2 DEF Call
  <2> HIDE DEF f
  <2>4. FrameOK(f, Len(tasks)) BY <2>2, <2>3 DEF FrameOK
  <2> QED BY <2>1, <2>4, <1>4
<1>7. CASE rest = <<>> /\ to # "submitted" BY <1>7, <1>3 DEF Write
<1> QED BY <1>5, <1>6, <1>7

LEMMA DocumentsTyped ==
  ASSUME TypeInv, NEW c \in Callers, CreateDocument(c) \/ LinkDocument(c)
  PROVE  TypeInv'
<1>0. /\ call \in [Callers -> Call] /\ FrameOK(call[c], Len(tasks))
      /\ UNCHANGED <<request, tasks, drawn, env>>
      /\ docs \in [Files -> {"none", "loose", "attached"}]
  BY DEF TypeInv, FramesOK, RestOK, CreateDocument, LinkDocument
<1>1. docs' \in [Files -> {"none", "loose", "attached"}]
  BY <1>0 DEF CreateDocument, LinkDocument
<1>2. RestOK' BY <1>0, <1>1 DEF TypeInv, RestOK
<1>3. CASE CreateDocument(c)
  <2>1. /\ call[c].pc = "create"
        /\ call' = [call EXCEPT ![c] = [call[c] EXCEPT !.pc = "link"]]
    BY <1>0, <1>3 DEF CreateDocument
  <2>2. FrameOK([call[c] EXCEPT !.pc = "link"], Len(tasks))
    BY <1>0, <2>1 DEF FrameOK, Call
  <2> QED BY <2>1, <2>2, <1>0, <1>2, FrameGoes DEF TypeInv
<1>4. CASE LinkDocument(c)
  <2>1. PICK g : g = First(call[c].left) OBVIOUS
  <2>2. CASE call[c].left = {g}
    <3>1. Finish(c) BY <1>4, <2>1, <2>2 DEF LinkDocument
    <3> QED BY <3>1, <1>0, <1>2, FrameEnds DEF TypeInv
  <2>3. CASE call[c].left # {g}
    <3> DEFINE f == [[call[c] EXCEPT !.pc = "create"] EXCEPT !.left = call[c].left \ {g}]
    <3>1. call' = [call EXCEPT ![c] = f]
      BY <1>0, <1>4, <2>1, <2>3 DEF LinkDocument
    <3>2. call[c].left # {} /\ call[c].left \in SUBSET Files
      BY <1>0, <1>4 DEF LinkDocument, FrameOK, Call
    <3>3. call[c].left \ {g} # {} BY <2>3, <3>2
    <3>4. f \in Call /\ f.pc = "create" /\ f.left = call[c].left \ {g}
      BY <1>0, <3>2 DEF Call
    <3> HIDE DEF f
    <3>5. FrameOK(f, Len(tasks)) BY <3>3, <3>4 DEF FrameOK
    <3> QED BY <3>1, <3>5, <1>0, <1>2, FrameGoes DEF TypeInv
  <2> QED BY <2>2, <2>3
<1> QED BY <1>3, <1>4

LEMMA MovesTyped ==
  ASSUME TypeInv, RequestMoves
  PROVE  TypeInv'
<1>1. request' \in Status /\ UNCHANGED <<tasks, docs, drawn, call>>
  BY RequestTyped DEF RequestMoves, TypeInv, RestOK
<1>2. env' \in Environment BY DEF RequestMoves, TypeInv, RestOK, Environment
<1> QED BY <1>1, <1>2 DEF TypeInv, FramesOK, RestOK

LEMMA TypeStep == TypeInv /\ [Next]_vars => TypeInv'
<1> SUFFICES ASSUME TypeInv, [Next]_vars PROVE TypeInv' OBVIOUS
<1>1. ASSUME NEW c \in Callers, Beginning(c) PROVE TypeInv' BY <1>1, BeginsTyped
<1>2. ASSUME NEW c \in Callers, Ongoing(c) PROVE TypeInv'
  BY <1>2, ReadsTyped, MoveTyped, CreateTyped, WriteTyped, DocumentsTyped DEF Ongoing
<1>3. CASE RequestMoves BY <1>3, MovesTyped
<1>4. CASE UNCHANGED vars
  BY <1>4 DEF vars, TypeInv, FramesOK, RestOK
<1> QED BY <1>1, <1>2, <1>3, <1>4, Steps

LEMMA TypeInit == Init => TypeInv
<1> SUFFICES ASSUME Init PROVE TypeInv OBVIOUS
<1>1. Len(tasks) = 0 /\ tasks \in Seq(Task) BY DEF Init
<1>2. \A c \in Callers : call[c] = Idle BY DEF Init
<1>3. FramesOK BY <1>1, <1>2, IdleOK, IdleCall DEF FramesOK, Init
<1>4. RestOK BY <1>1, TaskAssumption DEF RestOK, Init, Status
<1> QED BY <1>3, <1>4 DEF TypeInv

LEMMA Typed == Spec => []TypeInv
BY TypeInit, TypeStep, PTL DEF Spec

\* TypeOK, for any callers, files, suggestions and bounds.
THEOREM TaskTypeCorrect == Spec => []TypeOK
<1>1. TypeInv => TypeOK BY DEF TypeInv, TypeOK, FramesOK, FrameOK, RestOK
<1> QED BY <1>1, Typed, PTL

-----------------------------------------------------------------------------
(* Accepted work.                                                          *)

\* What was submitted lists something, and so does what is about to be
\* accepted; no list is ever emptied.
AcceptedInv ==
  /\ \A t \in 1..Len(tasks) :
       tasks[t].status \in {"submitted", "done"} => tasks[t].uploads # {}
  /\ \A c \in Callers :
       call[c].pc = "write" /\ Head(call[c].path) = "done" =>
         tasks[call[c].t].uploads # {}

\* A step that leaves the tasks alone and is not the reading for an acceptance.
LEMMA AcceptedKept ==
  ASSUME TypeInv, AcceptedInv, tasks' = tasks,
         \A c \in Callers : call'[c].pc = "write" => call'[c] = call[c]
  PROVE  AcceptedInv'
BY DEF AcceptedInv

LEMMA AcceptedStep == TypeInv /\ AcceptedInv /\ [Next]_vars => AcceptedInv'
<1> SUFFICES ASSUME TypeInv, AcceptedInv, [Next]_vars PROVE AcceptedInv' OBVIOUS
<1>0. /\ call \in [Callers -> Call] /\ \A c \in Callers : FrameOK(call[c], Len(tasks))
      /\ tasks \in Seq(Task) /\ Len(tasks) \in Nat
  BY DEF TypeInv, FramesOK, RestOK
<1>1. CASE UNCHANGED <<tasks, call>> BY <1>1 DEF AcceptedInv
<1>2. ASSUME NEW c \in Callers, Beginning(c) PROVE AcceptedInv'
  <2>1. PICK f : Starts(c, f) BY <1>2, Begins
  <2>2. /\ call' = [call EXCEPT ![c] = f] /\ f.pc # "write" /\ tasks' = tasks
    BY <2>1 DEF Starts, Begin
  <2>3. \A d \in Callers : call'[d].pc = "write" => call'[d] = call[d]
    BY <2>2, <1>0
  <2> QED BY <2>2, <2>3, AcceptedKept
<1>3. ASSUME NEW c \in Callers, tasks' = tasks, \A d \in Callers : d # c => call'[d] = call[d],
             call'[c].pc # "write"
      PROVE  AcceptedInv'
  BY <1>3, AcceptedKept
<1>4. ASSUME NEW c \in Callers, Ongoing(c) PROVE AcceptedInv'
  <2>1. CASE AutoCheck(c) \/ AssertEdge(c) \/ Move(c) \/ SkipSuggestion(c) \/ CallAborts(c)
             \/ CreateDocument(c) \/ LinkDocument(c)
    <3>1. tasks' = tasks /\ \A d \in Callers : d # c => call'[d] = call[d]
      BY <2>1, <1>0 DEF AutoCheck, AssertEdge, Move, SkipSuggestion, CallAborts, Finish,
                        CreateDocument, LinkDocument
    <3>2. call'[c].pc # "write"
      BY <2>1, <1>0 DEF AutoCheck, AssertEdge, Move, SkipSuggestion, CallAborts, Finish,
                        CreateDocument, LinkDocument, Idle, Call
    <3> QED BY <3>1, <3>2, <1>3
  <2>2. CASE CreateTask(c)
    <3> DEFINE task == [by |-> call[c].by, status |-> "assigned", uploads |-> {}]
    <3>1. tasks' = Append(tasks, task) /\ call[c].pc = "task" BY <2>2 DEF CreateTask
    <3>2. task.status = "assigned" OBVIOUS
    <3>3. task \in Task BY <1>0 DEF Task, TaskStatus, Call
    <3> HIDE DEF task
    <3>4. /\ Len(tasks') = Len(tasks) + 1 /\ tasks'[Len(tasks) + 1] = task
          /\ \A t \in 1..Len(tasks) : tasks'[t] = tasks[t]
      BY <3>1, <3>3, <1>0
    <3>5. \A d \in Callers : call'[d].pc = "write" => call'[d] = call[d]
      <4>1. \A d \in Callers : d # c => call'[d] = call[d]
        BY <2>2, <1>0 DEF CreateTask, Finish
      <4>2. call'[c].pc # "write"
        <5>1. CASE Finish(c) BY <5>1, <1>0 DEF Finish, Idle
        <5>2. CASE call' = [call EXCEPT ![c].make = @ - 1]
          BY <5>2, <3>1, <1>0 DEF Call
        <5> QED BY <5>1, <5>2, <2>2 DEF CreateTask
      <4> QED BY <4>1, <4>2
    <3>6. ASSUME NEW d \in Callers, call'[d].pc = "write", Head(call'[d].path) = "done"
          PROVE  tasks'[call'[d].t].uploads # {}
      <4>1. call'[d] = call[d] BY <3>5, <3>6
      <4>2. call[d].t \in 1..Len(tasks) BY <4>1, <3>6, <1>0 DEF FrameOK
      <4> QED BY <4>1, <4>2, <3>4, <3>6 DEF AcceptedInv
    <3>7. ASSUME NEW t \in 1..Len(tasks'), tasks'[t].status \in {"submitted", "done"}
          PROVE  tasks'[t].uploads # {}
      <4>1. t \in 1..Len(tasks) \/ t = Len(tasks) + 1 BY <3>4, <1>0
      <4>2. t # Len(tasks) + 1 BY <3>2, <3>4, <3>7
      <4> QED BY <4>1, <4>2, <3>4, <3>7 DEF AcceptedInv
    <3> QED BY <3>6, <3>7 DEF AcceptedInv
  <2>3. CASE Read(c)
    <3>1. /\ tasks' = tasks /\ \A d \in Callers : d # c => call'[d] = call[d]
          /\ call[c].pc = "read"
      BY <2>3, <1>0 DEF Read, Finish
    <3>2. CASE call'[c].pc # "write" BY <3>1, <3>2, <1>3
    <3>3. CASE call'[c].pc = "write"
      <4>1. /\ Head(call[c].path) \in TaskTransitions[tasks[call[c].t].status]
            /\ call'[c].path = call[c].path /\ call'[c].t = call[c].t
        BY <2>3, <3>3, <1>0 DEF Read, Finish, Idle, Call
      <4>2. call[c].t \in 1..Len(tasks) BY <3>1, <1>0 DEF FrameOK
      <4>3. tasks[call[c].t].status \in TaskStatus
        <5>1. tasks[call[c].t] \in Task BY <4>2, <1>0, ElementOfSeq
        <5> QED BY <5>1 DEF Task
      <4>4. Head(call[c].path) = "done" => tasks[call[c].t].status = "submitted"
        BY <4>1, <4>3 DEF TaskTransitions, TaskStatus
      <4>5. Head(call[c].path) = "done" => tasks[call[c].t].uploads # {}
        BY <4>2, <4>4 DEF AcceptedInv
      <4> QED BY <3>1, <4>1, <4>5 DEF AcceptedInv
    <3> QED BY <3>2, <3>3
  <2>4. CASE Write(c)
    <3>1. /\ \A d \in Callers : d # c => call'[d] = call[d]
          /\ call'[c].pc # "write" /\ call[c].pc = "write"
      BY <2>4, <1>0 DEF Write, Finish, Idle, Call
    <3>2. /\ call[c].t \in 1..Len(tasks) /\ Len(tasks') = Len(tasks)
          /\ \A t \in 1..Len(tasks) :
               tasks'[t] = IF t = call[c].t THEN Written(c) ELSE tasks[t]
          /\ Written(c).status = Head(call[c].path)
          /\ Written(c).uploads = IF Head(call[c].path) = "submitted"
                                  THEN Listed(call[c]) ELSE tasks[call[c].t].uploads
      BY <2>4, WriteEffect
    <3>3. Head(call[c].path) = "submitted" => Listed(call[c]) # {}
      <4>1. FrameOK(call[c], Len(tasks)) BY <1>0
      <4>2. CASE call[c].path \in SubmitPaths BY <4>1, <4>2, <3>1 DEF FrameOK, Listed
      <4>3. CASE \E s \in TaskStatus : call[c].path = <<s>>
        BY <4>1, <4>3, <3>1, PathParts DEF FrameOK, Listed, SubmitPaths
      <4> QED BY <4>1, <4>2, <4>3, <3>1 DEF FrameOK
    <3>4. \A t \in 1..Len(tasks) : tasks[t].uploads # {} => tasks'[t].uploads # {}
      BY <3>2, <3>3
    <3>5. Head(call[c].path) \in {"submitted", "done"} => Written(c).uploads # {}
      BY <3>1, <3>2, <3>3 DEF AcceptedInv
    <3>6. \A t \in 1..Len(tasks') :
            tasks'[t].status \in {"submitted", "done"} => tasks'[t].uploads # {}
      BY <3>2, <3>4, <3>5 DEF AcceptedInv
    <3>7. ASSUME NEW d \in Callers, call'[d].pc = "write", Head(call'[d].path) = "done"
          PROVE  tasks'[call'[d].t].uploads # {}
      <4>1. call'[d] = call[d] BY <3>1, <3>7
      <4>2. call[d].t \in 1..Len(tasks) BY <4>1, <3>7, <1>0 DEF FrameOK
      <4> QED BY <4>1, <4>2, <3>4, <3>7 DEF AcceptedInv
    <3> QED BY <3>6, <3>7 DEF AcceptedInv
  <2> QED BY <1>4, <2>1, <2>2, <2>3, <2>4 DEF Ongoing
<1>5. CASE RequestMoves BY <1>5, <1>1 DEF RequestMoves
<1>6. CASE UNCHANGED vars BY <1>6, <1>1 DEF vars
<1>7. CASE Next
  <2>1. RequestMoves \/ \E c \in Callers : Beginning(c) \/ Ongoing(c) BY <1>7, Steps
  <2>2. CASE \E c \in Callers : Beginning(c) BY <2>2, <1>2
  <2>3. CASE \E c \in Callers : Ongoing(c) BY <2>3, <1>4
  <2> QED BY <2>1, <2>2, <2>3, <1>5
<1> QED BY <1>6, <1>7

\* AcceptedWasHandedOver: a task the coordinator has accepted handed something
\* over, through any interleaving and failure.
THEOREM AcceptedHandedOver == Spec => []AcceptedWasHandedOver
<1>1. Init => AcceptedInv BY IdleOK DEF Init, AcceptedInv, Idle
<1>2. TypeInv /\ AcceptedInv => AcceptedWasHandedOver
  BY DEF AcceptedInv, AcceptedWasHandedOver, TypeInv, RestOK
<1> QED BY <1>1, <1>2, Typed, AcceptedStep, PTL DEF Spec

-----------------------------------------------------------------------------
(* Automatic dispatch.                                                     *)

Making(f) == f.pc \in {"check", "assert", "move", "task"}
Acting(f) == f.pc \in {"assert", "move", "task"} /\ f.by # 0

\* One call dispatches at a time, and while an automatic one does, all tasks are
\* its own.
OwnQueue ==
  /\ \A c, d \in Callers : Making(call[c]) /\ Making(call[d]) => c = d
  /\ \A c \in Callers : Acting(call[c]) =>
       \A i \in 1..Len(tasks) : tasks[i].by = call[c].by
  /\ \A i, j \in 1..Len(tasks) :
       i < j /\ tasks[j].by # 0 => tasks[i].by = tasks[j].by

AutoInv == Apart => OwnQueue

LEMMA EnvKept ==
  ASSUME TypeInv, [Next]_vars
  PROVE  env'.overlap = env.overlap /\ env'.fail = env.fail
<1>0. env \in Environment BY DEF TypeInv, RestOK
<1>1. ASSUME NEW c \in Callers, Beginning(c)
      PROVE  env'.overlap = env.overlap /\ env'.fail = env.fail
  BY <1>0, <1>1, Begins DEF Starts, Begin, Environment
<1>2. ASSUME NEW c \in Callers, Ongoing(c) PROVE env' = env
  BY <1>2 DEF Ongoing, AutoCheck, AssertEdge, Move, CreateTask, SkipSuggestion, Read,
              Write, CreateDocument, LinkDocument, CallAborts
<1>3. CASE RequestMoves BY <1>0, <1>3 DEF RequestMoves, Environment
<1>4. CASE UNCHANGED vars BY <1>4 DEF vars
<1> QED BY <1>1, <1>2, <1>3, <1>4, Steps

\* A call that goes on, or ends, and creates no task.
LEMMA OwnKept ==
  ASSUME OwnQueue, NEW c \in Callers, \A d \in Callers : d # c => call'[d] = call[d],
         Making(call'[c]) => Making(call[c]),
         Acting(call'[c]) => \A i \in 1..Len(tasks) : tasks[i].by = call'[c].by,
         Len(tasks') = Len(tasks),
         \A i \in 1..Len(tasks) : tasks'[i].by = tasks[i].by
  PROVE  OwnQueue'
<1>1. \A d, e \in Callers : Making(call'[d]) /\ Making(call'[e]) => d = e
  BY DEF OwnQueue
<1>2. \A d \in Callers : Acting(call'[d]) =>
        \A i \in 1..Len(tasks') : tasks'[i].by = call'[d].by
  BY DEF OwnQueue
<1>3. \A i, j \in 1..Len(tasks') :
        i < j /\ tasks'[j].by # 0 => tasks'[i].by = tasks'[j].by
  BY DEF OwnQueue
<1> QED BY <1>1, <1>2, <1>3 DEF OwnQueue, Making, Acting

LEMMA BeginOwn ==
  ASSUME TypeInv, OwnQueue, Apart, NEW c \in Callers, Beginning(c)
  PROVE  OwnQueue'
<1>1. PICK f : Starts(c, f) BY Begins
<1>2. /\ call' = [call EXCEPT ![c] = f] /\ tasks' = tasks /\ Free(f.t)
      /\ f.pc \in {"check", "assert", "task", "read"}
      /\ f.pc \in {"assert", "task"} => f.by = 0
      /\ FrameOK(f, Len(tasks)) /\ call \in [Callers -> Call]
  BY <1>1 DEF Starts, Begin, TypeInv, FramesOK
<1>3. call'[c] = f /\ \A d \in Callers : d # c => call'[d] = call[d] BY <1>2
<1>4. ~Acting(f) BY <1>2 DEF Acting
<1>5. Making(f) => \A d \in Callers : ~Making(call[d])
  <2> SUFFICES ASSUME Making(f), NEW d \in Callers, Making(call[d]) PROVE FALSE
    OBVIOUS
  <2>1. Free(0) BY <1>2 DEF Making, FrameOK
  <2>2. Busy(d) /\ call[d].t = 0
    <3>1. FrameOK(call[d], Len(tasks)) BY DEF TypeInv, FramesOK
    <3> QED BY <3>1 DEF Making, FrameOK, Busy
  <2>3. CASE env.overlap = "none" BY <2>1, <2>2, <2>3 DEF Free, Quiet
  <2>4. CASE env.overlap = "apart" BY <2>1, <2>2, <2>4 DEF Free
  <2> QED BY <2>3, <2>4 DEF Apart, TypeInv, RestOK, Environment
<1>6. \A d, e \in Callers : Making(call'[d]) /\ Making(call'[e]) => d = e
  BY <1>3, <1>5 DEF OwnQueue
<1>7. \A d \in Callers : Acting(call'[d]) =>
        \A i \in 1..Len(tasks) : tasks[i].by = call'[d].by
  BY <1>3, <1>4 DEF OwnQueue
<1> QED BY <1>2, <1>6, <1>7 DEF OwnQueue, Making, Acting

LEMMA CreateOwn ==
  ASSUME TypeInv, OwnQueue, NEW c \in Callers, CreateTask(c)
  PROVE  OwnQueue'
<1>0. /\ call \in [Callers -> Call] /\ FrameOK(call[c], Len(tasks)) /\ call[c].pc = "task"
      /\ tasks \in Seq(Task) /\ Len(tasks) \in Nat
  BY DEF TypeInv, FramesOK, RestOK, CreateTask
<1>1. PICK b \in Nat : b = call[c].by BY <1>0 DEF Call
<1>2. PICK n \in Nat : n = Len(tasks) BY <1>0
<1>3. /\ Len(tasks') = n + 1 /\ tasks'[n + 1].by = b
      /\ \A i \in 1..n : tasks'[i] = tasks[i]
  <2> DEFINE task == [by |-> call[c].by, status |-> "assigned", uploads |-> {}]
  <2>1. tasks' = Append(tasks, task) BY DEF CreateTask
  <2>2. task.by = b BY <1>1
  <2>3. task \in Task BY <1>0 DEF Task, TaskStatus, Call
  <2> HIDE DEF task
  <2> QED BY <2>1, <2>2, <2>3, <1>0, <1>2
<1>4. \A i \in 1..(n + 1) : i \in 1..n \/ i = n + 1 BY <1>2
<1>5. /\ \A d \in Callers : d # c => call'[d] = call[d]
      /\ Making(call[c])
      /\ Acting(call[c]) <=> b # 0
  BY <1>0, <1>1 DEF CreateTask, Finish, Making, Acting
<1>6. Acting(call'[c]) => b # 0 /\ call'[c].by = b
  <2>1. CASE Finish(c) BY <2>1, <1>0 DEF Finish, Idle, Acting
  <2>2. CASE call' = [call EXCEPT ![c].make = @ - 1]
    BY <2>2, <1>0, <1>1 DEF Acting, Call
  <2> QED BY <2>1, <2>2 DEF CreateTask
<1>7. \A d \in Callers : d # c => ~Making(call'[d]) /\ ~Acting(call'[d])
  BY <1>5 DEF OwnQueue, Making, Acting
<1>8. b # 0 => \A i \in 1..n : tasks[i].by = b
  BY <1>1, <1>2, <1>5 DEF OwnQueue
<1>9. \A d, e \in Callers : Making(call'[d]) /\ Making(call'[e]) => d = e
  BY <1>7
<1>10. \A d \in Callers : Acting(call'[d]) =>
         \A i \in 1..Len(tasks') : tasks'[i].by = call'[d].by
  BY <1>3, <1>4, <1>6, <1>7, <1>8
<1>11. ASSUME NEW i \in 1..Len(tasks'), NEW j \in 1..Len(tasks'), i < j, tasks'[j].by # 0
       PROVE  tasks'[i].by = tasks'[j].by
  <2>0. i \in 1..n /\ i \in 1..Len(tasks) BY <1>2, <1>3, <1>11
  <2>1. CASE j = n + 1 BY <2>0, <2>1, <1>3, <1>8, <1>11
  <2>2. CASE j \in 1..n BY <2>0, <2>2, <1>2, <1>3, <1>11 DEF OwnQueue
  <2> QED BY <2>1, <2>2, <1>3, <1>4
<1> QED BY <1>9, <1>10, <1>11 DEF OwnQueue, Making, Acting

LEMMA AutoStep == TypeInv /\ AutoInv /\ [Next]_vars => AutoInv'
<1> SUFFICES ASSUME TypeInv, AutoInv, [Next]_vars, Apart' PROVE OwnQueue'
  BY DEF AutoInv
<1>0. Apart /\ OwnQueue BY EnvKept DEF Apart, AutoInv
<1>1. CASE UNCHANGED <<tasks, call>>
  BY <1>0, <1>1 DEF OwnQueue, Making, Acting
<1>2. ASSUME NEW c \in Callers, Beginning(c) PROVE OwnQueue'
  BY <1>0, <1>2, BeginOwn
<1>3. ASSUME NEW c \in Callers, Ongoing(c) PROVE OwnQueue'
  <2>0. /\ call \in [Callers -> Call] /\ FrameOK(call[c], Len(tasks)) /\ Idle.pc = "idle"
    BY DEF TypeInv, FramesOK, Idle
  <2>a. ASSUME tasks' = tasks, Finish(c) PROVE OwnQueue'
    BY <1>0, <2>0, <2>a, OwnKept DEF Finish, Making, Acting
  <2>1. CASE CreateTask(c) BY <1>0, <2>1, CreateOwn
  <2>2. CASE AutoCheck(c)
    <3>1. CASE Finish(c) BY <2>2, <2>a, <3>1 DEF AutoCheck
    <3>2. CASE tasks = <<>> /\ call' = [call EXCEPT ![c].pc = "assert"]
      <4>1. tasks' = tasks /\ Making(call[c]) /\ \A d \in Callers : d # c => call'[d] = call[d]
        BY <2>0, <2>2, <3>2 DEF AutoCheck, Making
      <4>2. \A i \in 1..Len(tasks) : FALSE BY <3>2
      <4> QED BY <4>1, <4>2, <1>0, OwnKept
    <3> QED BY <2>2, <3>1, <3>2 DEF AutoCheck
  <2>3. CASE AssertEdge(c) \/ Move(c) \/ SkipSuggestion(c)
    <3>1. CASE Finish(c)
      BY <2>3, <2>a, <3>1 DEF AssertEdge, Move, SkipSuggestion
    <3>2. CASE ~Finish(c)
      <4>1. /\ tasks' = tasks /\ Making(call[c])
            /\ \A d \in Callers : d # c => call'[d] = call[d]
        BY <2>0, <2>3 DEF AssertEdge, Move, SkipSuggestion, Making, Finish
      <4>2. call'[c].by = call[c].by /\ call[c].pc \in {"assert", "move", "task"}
        BY <2>0, <2>3, <3>2 DEF AssertEdge, Move, SkipSuggestion, Call
      <4>3. Acting(call'[c]) => \A i \in 1..Len(tasks) : tasks[i].by = call'[c].by
        BY <4>2, <1>0 DEF Acting, OwnQueue
      <4> QED BY <4>1, <4>3, <1>0, OwnKept
    <3> QED BY <3>1, <3>2
  <2>4. CASE Read(c) \/ CreateDocument(c) \/ LinkDocument(c) \/ CallAborts(c)
    <3>1. CASE Finish(c)
      BY <2>4, <2>a, <3>1 DEF Read, CreateDocument, LinkDocument, CallAborts
    <3>2. CASE ~Finish(c)
      <4>1. /\ tasks' = tasks /\ \A d \in Callers : d # c => call'[d] = call[d]
            /\ ~Making(call'[c])
        BY <2>0, <2>4, <3>2 DEF Read, CreateDocument, LinkDocument, CallAborts, Making, Call
      <4> QED BY <4>1, <1>0, OwnKept DEF Making, Acting
    <3> QED BY <3>1, <3>2
  <2>5. CASE Write(c)
    <3>1. /\ \A d \in Callers : d # c => call'[d] = call[d]
          /\ ~Making(call'[c])
      BY <2>0, <2>5 DEF Write, Finish, Making, Call
    <3>2. Len(tasks') = Len(tasks) /\ \A i \in 1..Len(tasks) : tasks'[i].by = tasks[i].by
      BY <2>5, WriteEffect
    <3> QED BY <3>1, <3>2, <1>0, OwnKept DEF Making, Acting
  <2> QED BY <1>3, <2>1, <2>2, <2>3, <2>4, <2>5 DEF Ongoing
<1>4. CASE RequestMoves BY <1>4, <1>1 DEF RequestMoves
<1>5. CASE UNCHANGED vars BY <1>5, <1>1 DEF vars
<1>6. CASE Next
  <2>1. RequestMoves \/ \E c \in Callers : Beginning(c) \/ Ongoing(c) BY <1>6, Steps
  <2>2. CASE \E c \in Callers : Beginning(c) BY <2>2, <1>2
  <2>3. CASE \E c \in Callers : Ongoing(c) BY <2>3, <1>3
  <2> QED BY <2>1, <2>2, <2>3, <1>4
<1> QED BY <1>5, <1>6

\* AutoNeverSecondGuesses: unless calls that dispatch overlap, automatic tasks
\* come first and from one dispatch.
THEOREM AutoComesFirst == Spec => []AutoNeverSecondGuesses
<1>1. Init => AutoInv BY DEF Init, AutoInv, OwnQueue, Making, Acting, Idle
<1>2. TypeInv /\ AutoInv => AutoNeverSecondGuesses
  BY DEF AutoInv, OwnQueue, AutoNeverSecondGuesses, TypeInv, RestOK
<1> QED BY <1>1, <1>2, Typed, AutoStep, PTL DEF Spec

-----------------------------------------------------------------------------
(* What is submitted is filed.                                             *)

\* The first of the files left is one of them.
LEMMA FirstIn ==
  ASSUME NEW files \in SUBSET Files, files # {}
  PROVE  First(files) \in files
<1> DEFINE R == {p \in Nat \X Nat : p[1] < p[2]}
<1>1. IsWellFoundedOn(R, Nat) BY NatLessThanWellFounded, Zenon DEF OpToRel
<1>2. files \subseteq Nat BY DEF Files
<1>3. PICK f \in files : \A g \in files : <<g, f>> \notin R
  <2> HIDE DEF R
  <2> QED BY <1>1, <1>2, WFMin
<1>4. ASSUME NEW g \in files PROVE f <= g
  <2>1. g \in Nat /\ f \in Nat BY <1>2
  <2>2. ~(g < f) BY <1>3, <2>1
  <2> QED BY <2>1, <2>2
<1> QED BY <1>3, <1>4 DEF First

\* Calls that do not meet on a task, or on the request, are about different ones.
Alone == \A c, d \in Callers : Busy(c) /\ Busy(d) /\ call[c].t = call[d].t => c = d

Filing(f) == f.pc \in {"create", "link"}
Lists(f)  == \E t \in 1..Len(tasks) : f \in tasks[t].uploads

\* A write knows the uploads there are, a call that files has listed what it has
\* left to file, and every document of the review set is listed by a task.
KnownAt(c) ==
  /\ call[c].pc = "write" => call[c].seen = tasks[call[c].t].uploads
  /\ Filing(call[c]) => \A f \in call[c].left : Lists(f)
Known  == \A c \in Callers : KnownAt(c)
Backed == \A f \in Files : docs[f] = "attached" => Lists(f)

LedgerInv == Apart => Alone /\ Known /\ Backed

\* A call that begins meets no other.
LEMMA BeginAlone ==
  ASSUME TypeInv, Alone, Apart, NEW c \in Callers, NEW f, Starts(c, f)
  PROVE  Alone'
<1>1. /\ call' = [call EXCEPT ![c] = f] /\ Free(f.t) /\ call \in [Callers -> Call]
  BY DEF Starts, Begin, TypeInv, FramesOK
<1>2. call'[c] = f /\ \A d \in Callers : d # c => call'[d] = call[d] BY <1>1
<1>3. ASSUME NEW d \in Callers, Busy(d) PROVE call[d].t # f.t
  <2>1. CASE env.overlap = "none" BY <1>1, <1>3, <2>1 DEF Free, Quiet
  <2>2. CASE env.overlap = "apart" BY <1>1, <1>3, <2>2 DEF Free
  <2> QED BY <2>1, <2>2 DEF Apart, TypeInv, RestOK, Environment
<1> QED BY <1>2, <1>3 DEF Alone, Busy

\* One that goes on stays with its task, or ends.
LEMMA AloneKept ==
  ASSUME Alone, NEW c \in Callers, \A d \in Callers : d # c => call'[d] = call[d],
         Busy(c), call'[c].pc = "idle" \/ call'[c].t = call[c].t
  PROVE  Alone'
BY DEF Alone, Busy

\* What is listed stays listed, so what the other calls know stays true as long
\* as the task they write keeps its uploads.
LEMMA KnownKept ==
  ASSUME TypeInv, Known, NEW c \in Callers,
         \A d \in Callers : d # c => call'[d] = call[d],
         \A f : Lists(f) => Lists(f)',
         \A d \in Callers : d # c /\ call[d].pc = "write" =>
            tasks'[call[d].t].uploads = tasks[call[d].t].uploads,
         KnownAt(c)'
  PROVE  Known'
<1>1. ASSUME NEW d \in Callers, d # c PROVE KnownAt(d)'
  BY <1>1 DEF Known, KnownAt, Filing
<1> QED BY <1>1 DEF Known

\* A step that leaves tasks and documents alone.
LEMMA LedgerKept ==
  ASSUME TypeInv, Known, Backed, NEW c \in Callers, UNCHANGED <<tasks, docs>>,
         \A d \in Callers : d # c => call'[d] = call[d], KnownAt(c)'
  PROVE  Known' /\ Backed'
<1>1. \A f : Lists(f) => Lists(f)' BY DEF Lists
<1>2. Known' BY <1>1, KnownKept
<1> QED BY <1>1, <1>2 DEF Backed

\* What each step does to its own call: it ends, or stays with its task.
LEMMA OwnCall ==
  ASSUME TypeInv, NEW c \in Callers, Ongoing(c)
  PROVE  /\ Busy(c) /\ \A d \in Callers : d # c => call'[d] = call[d]
         /\ call'[c] = Idle \/ call'[c].t = call[c].t
<1>0. call \in [Callers -> Call] BY DEF TypeInv, FramesOK
<1>1. CASE Finish(c)
  <2>1. Busy(c)
    BY <1>0 DEF Ongoing, AutoCheck, AssertEdge, Move, CreateTask, SkipSuggestion, Read,
                Write, CreateDocument, LinkDocument, CallAborts, Busy
  <2> QED BY <2>1, <1>0, <1>1 DEF Finish
<1>2. CASE AutoCheck(c) \/ AssertEdge(c) \/ Move(c)
  BY <1>0, <1>1, <1>2 DEF AutoCheck, AssertEdge, Move, Busy, Call
<1>3. CASE CreateTask(c) \/ SkipSuggestion(c)
  BY <1>0, <1>1, <1>3 DEF CreateTask, SkipSuggestion, Busy, Call
<1>4. CASE Read(c) \/ Write(c)
  BY <1>0, <1>1, <1>4 DEF Read, Write, Busy, Call
<1>5. CASE CreateDocument(c) \/ LinkDocument(c)
  BY <1>0, <1>1, <1>5 DEF CreateDocument, LinkDocument, Busy, Call
<1> QED BY <1>1, <1>2, <1>3, <1>4, <1>5 DEF Ongoing, CallAborts

LEMMA CreateLedger ==
  ASSUME TypeInv, Known, Backed, NEW c \in Callers, CreateTask(c)
  PROVE  Known' /\ Backed'
<1>0. /\ call \in [Callers -> Call] /\ \A d \in Callers : FrameOK(call[d], Len(tasks))
      /\ call[c].pc = "task" /\ tasks \in Seq(Task) /\ Len(tasks) \in Nat
      /\ docs' = docs
  BY DEF TypeInv, FramesOK, RestOK, CreateTask
<1>1. \A d \in Callers : d # c => call'[d] = call[d] BY OwnCall DEF Ongoing
<1>2. /\ Len(tasks') = Len(tasks) + 1
      /\ \A t \in 1..Len(tasks) : tasks'[t] = tasks[t]
  <2> DEFINE task == [by |-> call[c].by, status |-> "assigned", uploads |-> {}]
  <2>1. tasks' = Append(tasks, task) BY DEF CreateTask
  <2>2. task \in Task BY <1>0 DEF Task, TaskStatus, Call
  <2> HIDE DEF task
  <2> QED BY <2>1, <2>2, <1>0
<1>3. \A f : Lists(f) => Lists(f)'
  <2> TAKE f
  <2> HAVE Lists(f)
  <2>1. PICK t \in 1..Len(tasks) : f \in tasks[t].uploads BY DEF Lists
  <2>2. t \in 1..Len(tasks') /\ tasks'[t] = tasks[t] BY <1>0, <1>2
  <2> QED BY <2>1, <2>2 DEF Lists
<1>4. \A d \in Callers : d # c /\ call[d].pc = "write" =>
        tasks'[call[d].t].uploads = tasks[call[d].t].uploads
  BY <1>0, <1>2 DEF FrameOK
<1>5. call'[c].pc \in {"idle", "task"}
  BY <1>0 DEF CreateTask, Finish, Idle, Call
<1>6. KnownAt(c)' BY <1>5 DEF KnownAt, Filing
<1>7. Known' BY <1>1, <1>3, <1>4, <1>6, KnownKept
<1>8. Backed' BY <1>0, <1>3 DEF Backed
<1> QED BY <1>7, <1>8

\* What a call writes into its task: a new status, and with "submitted", the
\* last of its path, its files among the uploads.
LEMMA WriteGoes ==
  ASSUME TypeInv, NEW c \in Callers, Write(c)
  PROVE  \/ /\ Head(call[c].path) = "submitted" /\ call'[c].pc = "create"
            /\ call'[c].left = call[c].files
         \/ /\ Head(call[c].path) # "submitted" /\ call'[c].pc \in {"idle", "read"}
<1>0. /\ call \in [Callers -> Call] /\ FrameOK(call[c], Len(tasks)) /\ call[c].pc = "write"
  BY DEF TypeInv, FramesOK, Write
<1>1. CASE call[c].path = <<"in_progress", "submitted">>
  <2>1. /\ Head(call[c].path) = "in_progress" /\ Tail(call[c].path) = <<"submitted">>
        /\ <<"submitted">> # <<>>
    BY <1>1, PathParts
  <2>2. call'[c].pc = "read" BY <1>0, <2>1 DEF Write, Call
  <2> QED BY <2>1, <2>2
<1>2. CASE Tail(call[c].path) = <<>>
  <2>1. CASE Head(call[c].path) = "submitted"
    BY <1>0, <1>2, <2>1 DEF Write, Call
  <2>2. CASE Head(call[c].path) # "submitted"
    BY <1>0, <1>2, <2>2 DEF Write, Finish, Idle
  <2> QED BY <2>1, <2>2
<1>3. call[c].path = <<"in_progress", "submitted">> \/ Tail(call[c].path) = <<>>
  BY <1>0, PathParts DEF FrameOK, SubmitPaths
<1> QED BY <1>1, <1>2, <1>3

\* Writing to a task it alone is about, a call keeps the uploads it read.
LEMMA WriteUploads ==
  ASSUME TypeInv, Known, NEW c \in Callers, Write(c)
  PROVE  /\ Len(tasks') = Len(tasks) /\ call[c].t \in 1..Len(tasks)
         /\ \A t \in 1..Len(tasks) :
              tasks'[t].uploads =
                IF t = call[c].t /\ Head(call[c].path) = "submitted"
                THEN tasks[t].uploads \cup call[c].files ELSE tasks[t].uploads
<1>1. call[c].seen = tasks[call[c].t].uploads BY DEF Known, KnownAt, Write
<1>2. /\ call[c].t \in 1..Len(tasks) /\ Len(tasks') = Len(tasks)
      /\ \A t \in 1..Len(tasks) :
           tasks'[t] = IF t = call[c].t THEN Written(c) ELSE tasks[t]
      /\ Written(c).uploads = IF Head(call[c].path) = "submitted"
                              THEN Listed(call[c]) ELSE tasks[call[c].t].uploads
  BY WriteEffect
<1>3. Listed(call[c]) = tasks[call[c].t].uploads \cup call[c].files
  BY <1>1 DEF Listed
<1> QED BY <1>2, <1>3

LEMMA WriteLedger ==
  ASSUME TypeInv, Alone, Known, Backed, NEW c \in Callers, Write(c)
  PROVE  Known' /\ Backed'
<1>0. call[c].pc = "write" /\ docs' = docs /\ Len(tasks) \in Nat
  BY DEF Write, TypeInv, RestOK
<1>1. \A d \in Callers : d # c => call'[d] = call[d] BY OwnCall DEF Ongoing
<1>2. PICK new : new = call[c].files OBVIOUS
<1>3. PICK j \in 1..Len(tasks) : j = call[c].t BY WriteUploads
<1>4. /\ Len(tasks') = Len(tasks)
      /\ \A t \in 1..Len(tasks) :
           tasks'[t].uploads = IF t = j /\ Head(call[c].path) = "submitted"
                               THEN tasks[t].uploads \cup new ELSE tasks[t].uploads
  BY <1>2, <1>3, WriteUploads
<1>5. \A f : Lists(f) => Lists(f)'
  <2> TAKE f
  <2> HAVE Lists(f)
  <2>1. PICK t \in 1..Len(tasks) : f \in tasks[t].uploads BY DEF Lists
  <2>2. t \in 1..Len(tasks') /\ f \in tasks'[t].uploads BY <2>1, <1>4
  <2> QED BY <2>2 DEF Lists
<1>6. ASSUME NEW d \in Callers, d # c, call[d].pc = "write"
      PROVE  tasks'[call[d].t].uploads = tasks[call[d].t].uploads
  <2>1. call[d].t # j BY <1>0, <1>3, <1>6 DEF Alone, Busy
  <2>2. call[d].t \in 1..Len(tasks) BY <1>6 DEF TypeInv, FramesOK, FrameOK
  <2> QED BY <2>1, <2>2, <1>4
<1>7. KnownAt(c)'
  <2>1. CASE Head(call[c].path) = "submitted"
    <3>1. call'[c].pc = "create" /\ call'[c].left = new BY <2>1, <1>2, WriteGoes
    <3>2. ASSUME NEW f \in new PROVE Lists(f)'
      <4>1. j \in 1..Len(tasks') /\ f \in tasks'[j].uploads BY <2>1, <1>4
      <4> QED BY <4>1 DEF Lists
    <3> QED BY <3>1, <3>2 DEF KnownAt
  <2>2. CASE Head(call[c].path) # "submitted"
    <3>1. call'[c].pc \in {"idle", "read"} BY <2>2, WriteGoes
    <3> QED BY <3>1 DEF KnownAt, Filing
  <2> QED BY <2>1, <2>2
<1>8. Known' BY <1>1, <1>5, <1>6, <1>7, KnownKept
<1>9. Backed' BY <1>0, <1>5 DEF Backed
<1> QED BY <1>8, <1>9

\* A document that is created or linked is of the first file left.
LEMMA FilingGoes ==
  ASSUME TypeInv, NEW c \in Callers, CreateDocument(c) \/ LinkDocument(c)
  PROVE  /\ First(call[c].left) \in call[c].left /\ First(call[c].left) \in Files
         /\ Filing(call[c])
         /\ docs' = [docs EXCEPT ![First(call[c].left)] =
                       IF CreateDocument(c) THEN "loose" ELSE "attached"]
<1>1. /\ call[c].pc = (IF CreateDocument(c) THEN "create" ELSE "link")
      /\ call[c].left # {} /\ call[c].left \in SUBSET Files
  BY DEF TypeInv, FramesOK, FrameOK, Call, CreateDocument, LinkDocument
<1>2. First(call[c].left) \in call[c].left BY <1>1, FirstIn
<1> QED BY <1>1, <1>2 DEF Filing, CreateDocument, LinkDocument

LEMMA FilingLedger ==
  ASSUME TypeInv, Known, Backed, NEW c \in Callers, CreateDocument(c) \/ LinkDocument(c)
  PROVE  Known' /\ Backed'
<1>0. /\ call \in [Callers -> Call] /\ tasks' = tasks
      /\ docs \in [Files -> {"none", "loose", "attached"}]
  BY DEF TypeInv, FramesOK, RestOK, CreateDocument, LinkDocument
<1>1. \A d \in Callers : d # c => call'[d] = call[d] BY OwnCall DEF Ongoing
<1>2. PICK g \in Files : g = First(call[c].left) BY FilingGoes
<1>3. /\ g \in call[c].left /\ Filing(call[c])
      /\ docs' = [docs EXCEPT ![g] = IF CreateDocument(c) THEN "loose" ELSE "attached"]
  BY <1>2, FilingGoes
<1>4. Lists(g) BY <1>3 DEF Known, KnownAt
<1>5. \A f : Lists(f) => Lists(f)' BY <1>0 DEF Lists
<1>6. Backed' BY <1>0, <1>3, <1>4, <1>5 DEF Backed
<1>7. call'[c].pc \in {"idle", "create", "link"} /\ (Filing(call'[c]) => call'[c].left \subseteq call[c].left)
  <2>1. CASE CreateDocument(c) BY <2>1, <1>0 DEF CreateDocument, Call
  <2>2. CASE LinkDocument(c) /\ Finish(c)
    <3>1. call'[c] = Idle BY <2>2, <1>0 DEF Finish
    <3> QED BY <3>1 DEF Idle, Filing
  <2>3. CASE LinkDocument(c) /\ ~Finish(c)
    <3>1. call' = [call EXCEPT ![c].pc = "create", ![c].left = @ \ {g}]
      BY <2>3, <1>2 DEF LinkDocument
    <3> QED BY <3>1, <1>0 DEF Call
  <2> QED BY <2>1, <2>2, <2>3
<1>8. KnownAt(c)' BY <1>3, <1>5, <1>7 DEF Known, KnownAt, Filing
<1>9. Known' BY <1>0, <1>1, <1>5, <1>8, KnownKept
<1> QED BY <1>6, <1>9

LEMMA LedgerStep == TypeInv /\ LedgerInv /\ [Next]_vars => LedgerInv'
<1> SUFFICES ASSUME TypeInv, LedgerInv, [Next]_vars, Apart'
             PROVE  Alone' /\ Known' /\ Backed'
  BY DEF LedgerInv
<1>0. /\ Apart /\ Alone /\ Known /\ Backed /\ call \in [Callers -> Call]
      /\ Idle.pc = "idle"
  BY EnvKept DEF Apart, LedgerInv, TypeInv, FramesOK, Idle
<1>1. CASE UNCHANGED <<tasks, docs, call>>
  BY <1>0, <1>1 DEF Alone, Busy, Known, KnownAt, Backed, Lists, Filing
<1>2. ASSUME NEW c \in Callers, Beginning(c) PROVE Alone' /\ Known' /\ Backed'
  <2>1. PICK f : Starts(c, f) BY <1>2, Begins
  <2>2. Alone' BY <1>0, <2>1, BeginAlone
  <2>3. /\ call' = [call EXCEPT ![c] = f] /\ UNCHANGED <<tasks, docs>>
        /\ f.pc \in {"check", "assert", "task", "read"}
    BY <2>1 DEF Starts, Begin
  <2>4. KnownAt(c)' BY <1>0, <2>3 DEF KnownAt, Filing
  <2>5. Known' /\ Backed' BY <1>0, <2>3, <2>4, LedgerKept
  <2> QED BY <2>2, <2>5
<1>3. ASSUME NEW c \in Callers, Ongoing(c) PROVE Alone' /\ Known' /\ Backed'
  <2>0. /\ Busy(c) /\ \A d \in Callers : d # c => call'[d] = call[d]
        /\ call'[c] = Idle \/ call'[c].t = call[c].t
    BY <1>3, OwnCall
  <2>1. Alone' BY <1>0, <2>0, AloneKept
  <2>2. CASE CreateTask(c) BY <1>0, <2>1, <2>2, CreateLedger
  <2>3. CASE Write(c) BY <1>0, <2>1, <2>3, WriteLedger
  <2>4. CASE CreateDocument(c) \/ LinkDocument(c) BY <1>0, <2>1, <2>4, FilingLedger
  <2>5. CASE AutoCheck(c) \/ AssertEdge(c) \/ Move(c) \/ SkipSuggestion(c) \/ CallAborts(c)
    <3>1. UNCHANGED <<tasks, docs>>
      BY <2>5 DEF AutoCheck, AssertEdge, Move, SkipSuggestion, CallAborts
    <3>2. call'[c].pc \in {"idle", "assert", "move", "task"}
      BY <2>5, <1>0 DEF AutoCheck, AssertEdge, Move, SkipSuggestion, CallAborts, Finish, Call
    <3>3. KnownAt(c)' BY <3>2 DEF KnownAt, Filing
    <3> QED BY <1>0, <2>0, <2>1, <3>1, <3>3, LedgerKept
  <2>6. CASE Read(c)
    <3>1. UNCHANGED <<tasks, docs>> /\ call[c].pc = "read" BY <2>6 DEF Read
    <3>2. \/ call'[c].pc = "idle"
          \/ call'[c].pc = "write" /\ call'[c].t = call[c].t
             /\ call'[c].seen = tasks[call[c].t].uploads
      BY <2>6, <1>0 DEF Read, Finish, Call
    <3>3. KnownAt(c)' BY <3>1, <3>2 DEF KnownAt, Filing
    <3> QED BY <1>0, <2>0, <2>1, <3>1, <3>3, LedgerKept
  <2> QED BY <1>3, <2>2, <2>3, <2>4, <2>5, <2>6 DEF Ongoing
<1>4. CASE RequestMoves BY <1>4, <1>1 DEF RequestMoves
<1>5. CASE UNCHANGED vars BY <1>5, <1>1 DEF vars
<1> QED BY <1>2, <1>3, <1>4, <1>5, Steps

\* As long as nothing fails, what a task lists is a document of the review set or
\* what a call has left to file.
Covered(f) == \/ docs[f] = "attached"
              \/ \E c \in Callers : Filing(call[c]) /\ f \in call[c].left
Due    == \A f : Lists(f) => Covered(f)
DueInv == Apart /\ Faultless => Due

\* A step that lists nothing, files nothing and drops nothing left to file.
LEMMA DueKept ==
  ASSUME Due, NEW c \in Callers, \A d \in Callers : d # c => call'[d] = call[d],
         ~Filing(call[c]), docs' = docs,
         \A f : Lists(f)' => Lists(f)
  PROVE  Due'
<1>1. ASSUME NEW f, Lists(f)' PROVE Covered(f)'
  BY <1>1 DEF Due, Covered, Filing
<1> QED BY <1>1 DEF Due

LEMMA CreateDue ==
  ASSUME TypeInv, Due, NEW c \in Callers, CreateTask(c)
  PROVE  Due'
<1>0. /\ call \in [Callers -> Call] /\ call[c].pc = "task"
      /\ tasks \in Seq(Task) /\ Len(tasks) \in Nat /\ docs' = docs
  BY DEF TypeInv, FramesOK, RestOK, CreateTask
<1>1. \A d \in Callers : d # c => call'[d] = call[d] BY OwnCall DEF Ongoing
<1>2. /\ Len(tasks') = Len(tasks) + 1 /\ tasks'[Len(tasks) + 1].uploads = {}
      /\ \A t \in 1..Len(tasks) : tasks'[t] = tasks[t]
  <2> DEFINE task == [by |-> call[c].by, status |-> "assigned", uploads |-> {}]
  <2>1. tasks' = Append(tasks, task) BY DEF CreateTask
  <2>2. task \in Task /\ task.uploads = {} BY <1>0 DEF Task, TaskStatus, Call
  <2> HIDE DEF task
  <2> QED BY <2>1, <2>2, <1>0
<1>3. ASSUME NEW f, Lists(f)' PROVE Lists(f)
  <2>1. PICK t \in 1..Len(tasks') : f \in tasks'[t].uploads BY <1>3 DEF Lists
  <2>2. t \in 1..Len(tasks) \/ t = Len(tasks) + 1 BY <1>0, <1>2
  <2>3. t \in 1..Len(tasks) BY <2>1, <2>2, <1>2
  <2> QED BY <2>1, <2>3, <1>2 DEF Lists
<1> QED BY <1>0, <1>1, <1>3, DueKept DEF Filing

LEMMA WriteDue ==
  ASSUME TypeInv, Known, Due, NEW c \in Callers, Write(c)
  PROVE  Due'
<1>0. call[c].pc = "write" /\ docs' = docs BY DEF Write
<1>1. \A d \in Callers : d # c => call'[d] = call[d] BY OwnCall DEF Ongoing
<1>2. PICK new : new = call[c].files OBVIOUS
<1>3. /\ Len(tasks') = Len(tasks)
      /\ \A t \in 1..Len(tasks) :
           tasks'[t].uploads =
             IF t = call[c].t /\ Head(call[c].path) = "submitted"
             THEN tasks[t].uploads \cup new ELSE tasks[t].uploads
  BY <1>2, WriteUploads
<1>4. ASSUME NEW f, Lists(f)' PROVE Covered(f)'
  <2>1. PICK t \in 1..Len(tasks) : f \in tasks'[t].uploads BY <1>3, <1>4 DEF Lists
  <2>2. CASE f \in tasks[t].uploads
    <3>1. Covered(f) BY <2>2 DEF Due, Lists
    <3> QED BY <3>1, <1>0, <1>1 DEF Covered, Filing
  <2>3. CASE f \notin tasks[t].uploads
    <3>1. Head(call[c].path) = "submitted" /\ f \in new BY <2>1, <2>3, <1>3
    <3>2. call'[c].pc = "create" /\ call'[c].left = new BY <3>1, <1>2, WriteGoes
    <3> QED BY <3>1, <3>2 DEF Covered, Filing
  <2> QED BY <2>2, <2>3
<1> QED BY <1>4 DEF Due

LEMMA FilingDue ==
  ASSUME TypeInv, Due, NEW c \in Callers, CreateDocument(c) \/ LinkDocument(c)
  PROVE  Due'
<1>0. /\ call \in [Callers -> Call] /\ tasks' = tasks
      /\ docs \in [Files -> {"none", "loose", "attached"}]
  BY DEF TypeInv, FramesOK, RestOK, CreateDocument, LinkDocument
<1>1. \A d \in Callers : d # c => call'[d] = call[d] BY OwnCall DEF Ongoing
<1>2. PICK g \in Files : g = First(call[c].left) BY FilingGoes
<1>3. /\ g \in call[c].left /\ Filing(call[c])
      /\ docs' = [docs EXCEPT ![g] = IF CreateDocument(c) THEN "loose" ELSE "attached"]
  BY <1>2, FilingGoes
<1>4. ASSUME NEW f, Lists(f)' PROVE Covered(f)'
  <2>1. Covered(f) BY <1>0, <1>4 DEF Lists, Due
  <2>2. CASE \E d \in Callers : d # c /\ Filing(call[d]) /\ f \in call[d].left
    BY <2>2, <1>1 DEF Covered, Filing
  <2>3. CASE CreateDocument(c)
    <3>1. call'[c].pc = "link" /\ call'[c].left = call[c].left
      BY <2>3, <1>0 DEF CreateDocument, Call
    <3>2. f # g => docs'[f] = docs[f] BY <1>0, <1>3
    <3>3. CASE f \in call[c].left BY <3>1, <3>3 DEF Covered, Filing
    <3>4. CASE f \notin call[c].left /\ docs[f] = "attached"
      BY <3>2, <3>4, <1>3 DEF Covered
    <3> QED BY <2>1, <2>2, <3>3, <3>4 DEF Covered
  <2>4. CASE LinkDocument(c) /\ ~CreateDocument(c)
    <3>1. docs'[g] = "attached" /\ (f # g => docs'[f] = docs[f]) BY <2>4, <1>0, <1>3
    <3>2. CASE f = g \/ docs[f] = "attached" BY <3>1, <3>2 DEF Covered
    <3>3. CASE f \in call[c].left /\ f # g
      <4>1. call[c].left # {g} BY <3>3
      <4>2. call' = [call EXCEPT ![c].pc = "create", ![c].left = @ \ {g}]
        BY <2>4, <1>2, <4>1 DEF LinkDocument
      <4>3. call'[c].pc = "create" /\ call'[c].left = call[c].left \ {g}
        BY <4>2, <1>0 DEF Call
      <4> QED BY <4>3, <3>3 DEF Covered, Filing
    <3> QED BY <2>1, <2>2, <3>2, <3>3 DEF Covered
  <2> QED BY <2>3, <2>4
<1> QED BY <1>4 DEF Due

LEMMA DueStep == TypeInv /\ LedgerInv /\ DueInv /\ [Next]_vars => DueInv'
<1> SUFFICES ASSUME TypeInv, LedgerInv, DueInv, [Next]_vars, Apart', Faultless'
             PROVE  Due'
  BY DEF DueInv
<1>0. Known /\ Due /\ Faultless
  BY EnvKept DEF Apart, Faultless, LedgerInv, DueInv
<1>1. CASE UNCHANGED <<tasks, docs, call>>
  BY <1>0, <1>1 DEF Due, Covered, Lists, Filing
<1>2. ASSUME NEW c \in Callers, Beginning(c) PROVE Due'
  <2>1. PICK f : Starts(c, f) BY <1>2, Begins
  <2>2. /\ call' = [call EXCEPT ![c] = f] /\ UNCHANGED <<tasks, docs>> /\ ~Filing(call[c])
        /\ call \in [Callers -> Call]
    BY <2>1 DEF Starts, Begin, Busy, Filing, TypeInv, FramesOK
  <2>3. \A g : Lists(g)' => Lists(g) BY <2>2 DEF Lists
  <2> QED BY <1>0, <2>2, <2>3, DueKept
<1>3. ASSUME NEW c \in Callers, Ongoing(c) PROVE Due'
  <2>1. ~CallAborts(c) BY <1>0 DEF CallAborts, Faultless
  <2>2. CASE CreateTask(c) BY <1>0, <2>2, CreateDue
  <2>3. CASE Write(c) BY <1>0, <2>3, WriteDue
  <2>4. CASE CreateDocument(c) \/ LinkDocument(c) BY <1>0, <2>4, FilingDue
  <2>5. CASE AutoCheck(c) \/ AssertEdge(c) \/ Move(c) \/ SkipSuggestion(c) \/ Read(c)
    <3>1. UNCHANGED <<tasks, docs>> /\ ~Filing(call[c])
      BY <2>5 DEF AutoCheck, AssertEdge, Move, SkipSuggestion, Read, Filing
    <3>2. \A f : Lists(f)' => Lists(f) BY <3>1 DEF Lists
    <3>3. \A d \in Callers : d # c => call'[d] = call[d] BY <1>3, OwnCall
    <3> QED BY <1>0, <3>1, <3>2, <3>3, DueKept
  <2> QED BY <1>3, <2>1, <2>2, <2>3, <2>4, <2>5 DEF Ongoing
<1>4. CASE RequestMoves BY <1>4, <1>1 DEF RequestMoves
<1>5. CASE UNCHANGED vars BY <1>5, <1>1 DEF vars
<1> QED BY <1>2, <1>3, <1>4, <1>5, Steps

\* WorkIsFiled: unless calls meet on a task, once all is quiet the review set
\* holds nothing no task lists, and everything the tasks list if nothing failed.
THEOREM WorkFiled == Spec => []WorkIsFiled
<1>1. Init => LedgerInv /\ DueInv
  <2> SUFFICES ASSUME Init PROVE Alone /\ Known /\ Backed /\ Due
    BY DEF LedgerInv, DueInv
  <2>1. \A c \in Callers : call[c].pc = "idle" BY DEF Init, Idle
  <2>2. \A f \in Files : docs[f] = "none" BY DEF Init
  <2>3. Alone /\ Known BY <2>1 DEF Alone, Busy, Known, KnownAt, Filing
  <2>4. Len(tasks) = 0 BY DEF Init
  <2>5. Due BY <2>4 DEF Due, Lists
  <2> QED BY <2>2, <2>3, <2>5 DEF Backed
<1>2. TypeInv /\ LedgerInv /\ DueInv => WorkIsFiled
  <2> SUFFICES ASSUME TypeInv, LedgerInv, DueInv, Apart, Quiet
               PROVE  /\ Attached \subseteq ListedFiles
                      /\ Faultless => ListedFiles \subseteq Attached
    BY DEF WorkIsFiled
  <2>1. DOMAIN tasks = 1..Len(tasks) /\ \A t \in 1..Len(tasks) : tasks[t].uploads \subseteq Files
    <3>1. tasks \in Seq(Task) BY DEF TypeInv, RestOK
    <3>2. \A t \in 1..Len(tasks) : tasks[t] \in Task BY <3>1, ElementOfSeq
    <3> QED BY <3>1, <3>2 DEF Task
  <2>2. ASSUME NEW f PROVE f \in ListedFiles <=> Lists(f)
    BY <2>1 DEF ListedFiles, Lists
  <2>3. Attached \subseteq ListedFiles BY <2>2 DEF LedgerInv, Backed, Attached
  <2>4. ASSUME Faultless, NEW f \in ListedFiles PROVE f \in Attached
    <3>1. Covered(f) BY <2>2, <2>4 DEF DueInv, Due
    <3>2. docs[f] = "attached" BY <3>1 DEF Covered, Filing, Quiet, Busy
    <3>3. f \in Files BY <2>1, <2>4 DEF ListedFiles
    <3> QED BY <3>2, <3>3 DEF Attached
  <2> QED BY <2>3, <2>4
<1> QED BY <1>1, <1>2, Typed, LedgerStep, DueStep, PTL DEF Spec
=============================================================================
