------------------------------- MODULE TaskFlow -------------------------------
(***************************************************************************)
(* The department tasks of one request (services/taskService.ts over the   *)
(* graph of domain/taskWorkflow.ts): dispatched by a coordinator, by an    *)
(* agent or automatically, worked on by responders through the page behind *)
(* the task's link (app/task/[token]/actions.ts) or by replying to its     *)
(* mail (services/inboundEmailService.ts), accepted, returned or           *)
(* reassigned by the coordinator.  What a responder submits becomes        *)
(* documents of the request's review set.                                  *)
(*                                                                         *)
(* Every operation reads a row, asserts the edge and updates the row by    *)
(* id; one action is one awaited write, or the reads before it.            *)
(*                                                                         *)
(* Left out: events, letters and reminders, the bytes of uploads and what  *)
(* is queued to look at them, due dates and departments.  How the request  *)
(* moves elsewhere is RequestCase; here it takes any edge.                 *)
(***************************************************************************)
EXTENDS Naturals, Sequences, LifecycleGraph

CONSTANTS
  Callers,      \* people, mails and jobs that may be at it at a time
  MaxFiles,     \* files handed in altogether (a bound)
  MaxBatch,     \* suggestions an automatic dispatch acts on at most
  Environments  \* the circumstances a behaviour may start in: one per behaviour

\* How many calls are still to come (a bound); which may be under way at a
\* time: one, one per task and one for the request, or any; whether they fail.
Environment == [calls : Nat, overlap : {"none", "apart", "any"}, fail : BOOLEAN]

ASSUME TaskAssumption ==
  /\ MaxFiles \in Nat
  /\ MaxBatch \in Nat
  /\ Environments \subseteq Environment

VARIABLES
  request,  \* its status
  tasks,    \* its tasks: who dispatched each, its status, the uploads listed
  docs,     \* the document of each file handed in, once there is one
  drawn,    \* how many files were handed in
  call,     \* per caller: the call under way
  env       \* the circumstances, and what they still allow

vars == <<request, tasks, docs, drawn, call, env>>

TaskStatus == {"assigned", "in_progress", "submitted", "pushed_back",
               "done", "cancelled"}

\* Mutant of TaskTransitions: work in progress can be accepted.
TaskTransitionsEarly ==
  [assigned    |-> {"in_progress", "submitted", "pushed_back", "cancelled"},
   in_progress |-> {"submitted", "pushed_back", "cancelled", "done"},
   submitted   |-> {"done", "in_progress", "pushed_back"},
   pushed_back |-> {"assigned", "in_progress", "cancelled"},
   done        |-> {}, cancelled |-> {}]
TaskTransitions ==
  [assigned    |-> {"in_progress", "submitted", "pushed_back", "cancelled"},
   in_progress |-> {"submitted", "pushed_back", "cancelled"},
   submitted   |-> {"done", "in_progress", "pushed_back"},
   pushed_back |-> {"assigned", "in_progress", "cancelled"},
   done        |-> {}, cancelled |-> {}]

Files == 1..MaxFiles

\* By 0: a person or an agent; otherwise an automatic dispatch, numbered.
Task == [by : Nat, status : TaskStatus, uploads : SUBSET Files]

\* A call is about task t, or about the request (t = 0).  It writes the
\* statuses of path one by one; of a task, seen is the uploads it read, files
\* the ones it brings, left those with no document yet; of the request, make
\* is how many tasks it still creates.
Call == [pc : {"idle", "check", "assert", "move", "task",
               "read", "write", "create", "link"},
         t : Nat, by : Nat, make : 0..(MaxBatch + 1),
         path : Seq(Status \cup TaskStatus),
         seen : SUBSET Files, files : SUBSET Files, left : SUBSET Files]
Idle == [pc |-> "idle", t |-> 0, by |-> 0, make |-> 0, path |-> <<>>,
         seen |-> {}, files |-> {}, left |-> {}]

\* A request whose queue of tasks is empty.
Init ==
  /\ request \in {"submitted", "in_review", "in_progress"}
  /\ tasks = <<>>
  /\ docs = [f \in Files |-> "none"]
  /\ drawn = 0
  /\ call = [c \in Callers |-> Idle]
  /\ env \in Environments

-----------------------------------------------------------------------------
Busy(c)   == call[c].pc # "idle"
Quiet     == \A c \in Callers : ~Busy(c)
Finish(c) == call' = [call EXCEPT ![c] = Idle]

\* A call about t may start.
Free(t) == CASE env.overlap = "none"  -> Quiet
             [] env.overlap = "apart" -> \A c \in Callers : Busy(c) => call[c].t # t
             [] OTHER -> TRUE

Begin(c, frame) ==
  /\ ~Busy(c)
  /\ env.calls > 0
  /\ Free(frame.t)
  /\ call' = [call EXCEPT ![c] = frame]
  /\ env' = [env EXCEPT !.calls = @ - 1]

-----------------------------------------------------------------------------
(* Dispatch.                                                               *)

\* The transitions of a fresh request whose first task goes out.
Forward(status) == CASE status = "submitted" -> <<"in_review", "in_progress">>
                     [] status = "in_review" -> <<"in_progress">>
                     [] OTHER -> <<>>

ForRequest(pc, by, make, path) ==
  [Idle EXCEPT !.pc = pc, !.by = by, !.make = make, !.path = path]

\* dispatchTaskAction: the request is read once, for all transitions.
Dispatch(c) ==
  LET path == Forward(request)
  IN  /\ Begin(c, ForRequest(IF path = <<>> THEN "task" ELSE "assert", 0, 1, path))
      /\ UNCHANGED <<request, tasks, docs, drawn>>

\* The fulfillment agent's dispatch_task creates the task and no more.
AgentDispatch(c) ==
  /\ Begin(c, ForRequest("task", 0, 1, <<>>))
  /\ UNCHANGED <<request, tasks, docs, drawn>>

\* autoDispatchSuggestions, with the suggestions above the threshold.
AutoDispatch(c, n) ==
  /\ request \in {"submitted", "in_review"}
  /\ Begin(c, ForRequest("check", env.calls, n, Forward(request)))
  /\ UNCHANGED <<request, tasks, docs, drawn>>

\* Mutant of AutoCheck: the tasks there are make no difference.
AutoCheckNone(c) ==
  /\ call[c].pc = "check"
  /\ call' = [call EXCEPT ![c].pc = "assert"]
  /\ UNCHANGED <<request, tasks, docs, drawn, env>>

\* listTasks: a queue somebody has started working is left alone.
AutoCheck(c) ==
  /\ call[c].pc = "check"
  /\ IF tasks = <<>> THEN call' = [call EXCEPT ![c].pc = "assert"] ELSE Finish(c)
  /\ UNCHANGED <<request, tasks, docs, drawn, env>>

\* transitionRequest reads the row and refuses an illegal edge,
AssertEdge(c) ==
  /\ call[c].pc = "assert"
  /\ IF CanTransition(request, Head(call[c].path))
     THEN call' = [call EXCEPT ![c].pc = "move"]
     ELSE Finish(c)
  /\ UNCHANGED <<request, tasks, docs, drawn, env>>

\* and writes the status.
Move(c) ==
  LET rest == Tail(call[c].path)
  IN  /\ call[c].pc = "move"
      /\ request' = Head(call[c].path)
      /\ call' = [call EXCEPT ![c].path = rest,
                              ![c].pc = IF rest = <<>> THEN "task" ELSE "assert"]
      /\ UNCHANGED <<tasks, docs, drawn, env>>

\* dispatchTask creates the tasks one after the other.
CreateTask(c) ==
  /\ call[c].pc = "task"
  /\ tasks' = Append(tasks, [by |-> call[c].by, status |-> "assigned", uploads |-> {}])
  /\ IF call[c].make = 1
     THEN Finish(c)
     ELSE call' = [call EXCEPT ![c].make = @ - 1]
  /\ UNCHANGED <<request, docs, drawn, env>>

\* An automatic dispatch skips a suggestion whose department is gone.
SkipSuggestion(c) ==
  /\ call[c].pc = "task"
  /\ call[c].by # 0
  /\ IF call[c].make = 1
     THEN Finish(c)
     ELSE call' = [call EXCEPT ![c].make = @ - 1]
  /\ UNCHANGED <<request, tasks, docs, drawn, env>>

\* Another use-case moves the request.
RequestMoves ==
  /\ env.calls > 0
  /\ Free(0)
  /\ request' \in Transitions[request]
  /\ env' = [env EXCEPT !.calls = @ - 1]
  /\ UNCHANGED <<tasks, docs, drawn, call>>

-----------------------------------------------------------------------------
(* One task.                                                               *)

ForTask(t, path, files) ==
  [Idle EXCEPT !.pc = "read", !.t = t, !.path = path, !.files = files]

Handle(c, t, to) ==
  /\ Begin(c, ForTask(t, <<to>>, {}))
  /\ UNCHANGED <<request, tasks, docs, drawn>>

\* startTask and returnTaskToResponder: one change, asserted alike.
Work(c, t)     == Handle(c, t, "in_progress")
PushBack(c, t) == Handle(c, t, "pushed_back")
Reassign(c, t) == Handle(c, t, "assigned")
Accept(c, t)   == Handle(c, t, "done")

\* n files are handed in: on the page, where at least one is required,
Submit(c, t, n) ==
  LET files == (drawn + 1)..(drawn + n)
  IN  /\ drawn + n <= MaxFiles
      /\ Begin(c, ForTask(t, <<"submitted">>, files))
      /\ drawn' = drawn + n
      /\ UNCHANGED <<request, tasks, docs>>

\* or as attachments of a mail, which is not taken once the task has left the
\* responder's hands, and starts an assigned task first.
Mail(c, t, n) ==
  LET files == (drawn + 1)..(drawn + n)
      path  == IF tasks[t].status = "assigned"
               THEN <<"in_progress", "submitted">> ELSE <<"submitted">>
  IN  /\ tasks[t].status \in {"assigned", "in_progress"}
      /\ drawn + n <= MaxFiles
      /\ Begin(c, ForTask(t, path, files))
      /\ drawn' = drawn + n
      /\ UNCHANGED <<request, tasks, docs>>

\* loadTask and assertTaskTransition; an illegal edge throws.
Read(c) ==
  /\ call[c].pc = "read"
  /\ LET task == tasks[call[c].t]
     IN  IF Head(call[c].path) \in TaskTransitions[task.status]
         THEN call' = [call EXCEPT ![c].pc = "write", ![c].seen = task.uploads]
         ELSE Finish(c)
  /\ UNCHANGED <<request, tasks, docs, drawn, env>>

\* Mutant of Listed: the new uploads replace the old ones.
ListedAnew(frame) == frame.files
Listed(frame) == frame.seen \cup frame.files

\* updateTask: the next status; with "submitted", the uploads as they were
\* read, and the new ones.
Write(c) ==
  LET frame == call[c]
      to    == Head(frame.path)
      rest  == Tail(frame.path)
  IN  /\ frame.pc = "write"
      /\ tasks' = [tasks EXCEPT
           ![frame.t].status = to,
           ![frame.t].uploads = IF to = "submitted" THEN Listed(frame) ELSE @]
      /\ IF rest # <<>>
         THEN call' = [call EXCEPT ![c].pc = "read", ![c].path = rest]
         ELSE IF to = "submitted"
         THEN call' = [call EXCEPT ![c].pc = "create", ![c].left = frame.files]
         ELSE Finish(c)
      /\ UNCHANGED <<request, docs, drawn, env>>

\* The first file that has no document yet.
First(files) == CHOOSE f \in files : \A g \in files : f <= g

\* createDocument, then linkRequestDocument, file by file.
CreateDocument(c) ==
  /\ call[c].pc = "create"
  /\ docs' = [docs EXCEPT ![First(call[c].left)] = "loose"]
  /\ call' = [call EXCEPT ![c].pc = "link"]
  /\ UNCHANGED <<request, tasks, drawn, env>>

LinkDocument(c) ==
  LET f == First(call[c].left)
  IN  /\ call[c].pc = "link"
      /\ docs' = [docs EXCEPT ![f] = "attached"]
      /\ IF call[c].left = {f}
         THEN Finish(c)
         ELSE call' = [call EXCEPT ![c].pc = "create", ![c].left = @ \ {f}]
      /\ UNCHANGED <<request, tasks, drawn, env>>

\* A write throws, or the process dies: the call ends between two writes.
CallAborts(c) ==
  /\ env.fail
  /\ Busy(c)
  /\ Finish(c)
  /\ UNCHANGED <<request, tasks, docs, drawn, env>>

-----------------------------------------------------------------------------
Dispatching(c) == \/ Dispatch(c) \/ AgentDispatch(c)
                  \/ \E n \in 1..MaxBatch : AutoDispatch(c, n)
                  \/ AutoCheck(c) \/ AssertEdge(c) \/ Move(c)
                  \/ CreateTask(c) \/ SkipSuggestion(c)

Working(c) ==
  \/ \E t \in DOMAIN tasks :
       \/ Work(c, t) \/ PushBack(c, t) \/ Reassign(c, t) \/ Accept(c, t)
       \/ \E n \in Files : Submit(c, t, n) \/ Mail(c, t, n)
  \/ Read(c) \/ Write(c) \/ CreateDocument(c) \/ LinkDocument(c)

Next == \/ \E c \in Callers : Dispatching(c) \/ Working(c) \/ CallAborts(c)
        \/ RequestMoves

Spec == Init /\ [][Next]_vars

-----------------------------------------------------------------------------
(* What the code promises.                                                 *)

TypeOK ==
  /\ request \in Status
  /\ tasks \in Seq(Task)
  /\ docs \in [Files -> {"none", "loose", "attached"}]
  /\ drawn \in 0..MaxFiles
  /\ call \in [Callers -> Call]
  /\ env \in Environment

\* However calls interleave and fail: a task the coordinator has accepted
\* handed something over.
AcceptedWasHandedOver ==
  \A t \in DOMAIN tasks : tasks[t].status = "done" => tasks[t].uploads # {}

\* What follows needs calls that do not meet on a task, or on the request.
Apart     == env.overlap # "any"
Faultless == ~env.fail

\* Every upload a task lists, over all tasks, through returns, pushbacks and
\* resubmissions by either entrance, is a document of the review set, and
\* nothing else came into it from a responder; with failures it may be missing,
\* but nothing is there that no task lists.
ListedFiles == UNION {tasks[t].uploads : t \in DOMAIN tasks}
Attached    == {f \in Files : docs[f] = "attached"}
WorkIsFiled ==
  Apart /\ Quiet => /\ Attached \subseteq ListedFiles
                    /\ Faultless => ListedFiles \subseteq Attached

\* A queue somebody has started working is never second-guessed: automatic
\* tasks come before all others and from one dispatch, also when a dispatch
\* failed halfway and is tried again, by filing rules or by triage.
AutoNeverSecondGuesses ==
  Apart => \A i, j \in DOMAIN tasks :
             i < j /\ tasks[j].by # 0 => tasks[i].by = tasks[j].by
=============================================================================
