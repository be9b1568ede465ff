---------------------------- MODULE RequestCase -----------------------------
(***************************************************************************)
(* One records request and everything that changes its row: the use-cases  *)
(* of src/services that staff, the requester and the background jobs call. *)
(*                                                                         *)
(* A use-case is a sequence of awaited repository calls and there is no    *)
(* transaction around them.  Each call of a use-case is one actor's frame: *)
(* it reads the row, decides on what it read, and writes later, one action *)
(* per await that touches shared state.  Where calls may overlap, any      *)
(* other frame runs between two awaits; where calls may fail, the process  *)
(* may die or an await may throw, which leaves what was written so far.  A *)
(* use-case that refuses (throws before it wrote anything) is a call that  *)
(* does not start.                                                         *)
(*                                                                         *)
(* Left out: the wording and delivery of letters and mails, webhooks, the  *)
(* residual-PII gate (it can only refuse), the saved answer of a release,  *)
(* requesters without an address, the dispatch by an agency's rules when a *)
(* request is filed, and reads that decide nothing.                        *)
(***************************************************************************)
EXTENDS LifecycleGraph, Naturals, Sequences

CONSTANTS
  Actors,       \* concurrent callers: staff tabs, the requester, job runners
  Docs,         \* documents that may join the review set
  Handlers,     \* the use-cases this instance calls
  Environments  \* the circumstances a behaviour may start in: one per behaviour

AllHandlers == {"approveTriage", "triageJob", "extend", "deny",
                "fulfillByReference", "refer", "forward", "clarify", "reply",
                "dispatch", "release"}

\* How many use-cases are still to be called and which documents there are
\* (bounds), whether a call may start while another is under way, whether one
\* may end between two awaits.
Environment == [calls : Nat, docs : SUBSET Docs,
                overlap : BOOLEAN, fail : BOOLEAN]

ASSUME CaseAssumption ==
  /\ Handlers \subseteq AllHandlers
  /\ Environments \subseteq Environment

VARIABLES
  request,    \* the requests row
  trail,      \* its status_change, extension and release approval events
  thread,     \* which kinds of message are in the correspondence thread
  filings,    \* how many requests forwardRequest filed with the peer agency
  tasks,      \* how many department tasks dispatchTaskAction created
  attached,   \* the review set (request_documents)
  reviews,    \* the decision on each document (reviews rows)
  artifacts,  \* documents that have a burned copy (redacted:<id>)
  releases,   \* the releases rows, oldest first
  archive,    \* the releases that got a public archive entry
  frame,      \* what each actor's call has read and what it does next
  env         \* the circumstances, and the calls they still allow

rowVars    == <<request, trail, thread, filings, tasks>>
reviewVars == <<attached, reviews, artifacts>>
outVars    == <<releases, archive>>
vars       == <<rowVars, reviewVars, outVars, frame, env>>

Decision == {"undecided", "release", "release_redacted", "withhold"}
Kind     == {"clarification", "reply", "extension", "denied", "fulfilled",
             "referred", "released"}
Pc       == {"idle", "write", "message", "transition", "move", "log", "letter",
             "file", "auto", "tasks", "task", "docs", "reviews", "attached",
             "artifacts", "create", "status", "publish"}

Row == [status : Status, closed : BOOLEAN, extensions : Nat,
        scope : {"none", "draft", "approved"}, forwardedTo : Nat]

\* What an event tells: a change of status both statuses, an approval whether
\* something was withheld (to), an extension neither.
Entry   == [kind : {"status_change", "extension", "approval"},
            from : Status \cup {"unsaid"}, to : Status \cup {"unsaid"}]
Release == [ship : SUBSET Docs, burn : SUBSET Docs, held : SUBSET Docs]

Frame == [op : AllHandlers \cup {"none"}, pc : Pc, request : Row,
          todo : Seq(Status),                \* transitions still to make
          docs : SUBSET Docs, ship : SUBSET Docs, burn : SUBSET Docs,
          held : SUBSET Docs,                \* what releaseRequest has read
          made : Nat]                        \* the row this call created

\* submitRequest stores the row with status submitted and closedAt null.
FiledRow == [status |-> "submitted", closed |-> FALSE, extensions |-> 0,
             scope |-> "none", forwardedTo |-> 0]

Idle == [op |-> "none", pc |-> "idle", request |-> FiledRow, todo |-> <<>>,
         docs |-> {}, ship |-> {}, burn |-> {}, held |-> {}, made |-> 0]

Init ==
  /\ request = FiledRow
  /\ trail = <<>>
  /\ thread = {}
  /\ filings = 0
  /\ tasks = 0
  /\ attached = {}
  /\ reviews = [d \in Docs |-> "undecided"]
  /\ artifacts = {}
  /\ releases = <<>>
  /\ archive = {}
  /\ frame = [a \in Actors |-> Idle]
  /\ env \in Environments

-----------------------------------------------------------------------------
(* Frames.                                                                 *)

Quiet == \A a \in Actors : frame[a] = Idle

\* Unless calls overlap, a new one waits until the last has returned.
Undisturbed == env.overlap \/ Quiet

At(a, op, pc) == frame[a].op = op /\ frame[a].pc = pc
Resume(a, f)  == frame' = [frame EXCEPT ![a] = f]
Goto(a, pc)   == Resume(a, [frame[a] EXCEPT !.pc = pc])
Finish(a)     == Resume(a, Idle)

\* A call begins by reading the row; todo are the transitions it will make.
Begin(a, op, pc, todo) ==
  /\ op \in Handlers
  /\ frame[a] = Idle
  /\ env.calls > 0
  /\ Undisturbed
  /\ Resume(a, [Idle EXCEPT !.op = op, !.pc = pc, !.request = request,
                           !.todo = todo])
  /\ env' = [env EXCEPT !.calls = @ - 1]
  /\ UNCHANGED <<rowVars, reviewVars, outVars>>

\* appendEvent: what this call did; a change of status, from the one it had read.
LogEvent(a, kind, to) ==
  trail' = Append(trail, [kind |-> kind, to |-> to,
                          from |-> IF kind = "status_change"
                                   THEN frame[a].request.status ELSE "unsaid"])

\* A letter or message joins the thread (and the outbox).
Send(kind) == thread' = thread \cup {kind}

-----------------------------------------------------------------------------
(* transitionRequest, called by the use-cases below for each status in     *)
(* todo: it reads the row again, asserts the edge, writes, logs.           *)

\* Mutant of TransitionRead: assertTransition is not called.
TransitionReadUnasserted(a) ==
  /\ frame[a].pc = "transition"
  /\ Resume(a, [frame[a] EXCEPT !.pc = "move", !.request = request])
  /\ UNCHANGED <<rowVars, reviewVars, outVars, env>>

TransitionRead(a) ==
  /\ frame[a].pc = "transition"
  /\ IF CanTransition(request.status, Head(frame[a].todo))
     THEN Resume(a, [frame[a] EXCEPT !.pc = "move", !.request = request])
     ELSE Finish(a)
  /\ UNCHANGED <<rowVars, reviewVars, outVars, env>>

TransitionWrite(a) ==
  /\ frame[a].pc = "move"
  /\ request' = [request EXCEPT !.status = Head(frame[a].todo)]
  /\ Goto(a, "log")
  /\ UNCHANGED <<trail, thread, filings, tasks, reviewVars, outVars, env>>

TransitionLog(a) ==
  /\ frame[a].pc = "log"
  /\ frame[a].todo # <<>>
  /\ LogEvent(a, "status_change", Head(frame[a].todo))
  /\ LET rest == Tail(frame[a].todo) IN
       IF rest # <<>>
       THEN Resume(a, [frame[a] EXCEPT !.pc = "transition", !.todo = rest])
       ELSE IF frame[a].op = "dispatch"
            THEN Resume(a, [frame[a] EXCEPT !.pc = "task", !.todo = rest])
            ELSE Finish(a)
  /\ UNCHANGED <<request, thread, filings, tasks, reviewVars, outVars, env>>

-----------------------------------------------------------------------------
(* Scope: the triage job's draft, the dispatch it may go on to, and the    *)
(* coordinator's approval of the draft.                                    *)

ApproveTriage(a) ==
  Begin(a, "approveTriage", "write",
        IF request.status = "submitted" THEN <<"in_review">> ELSE <<>>)

ApproveTriageWrite(a) ==
  /\ At(a, "approveTriage", "write")
  /\ request' = [request EXCEPT !.scope = "approved"]
  /\ IF frame[a].todo # <<>> THEN Goto(a, "transition") ELSE Finish(a)
  /\ UNCHANGED <<trail, thread, filings, tasks, reviewVars, outVars, env>>

\* The job looks at interpretedScope, then waits on the model.
TriageJob(a) ==
  /\ request.scope = "none"
  /\ Begin(a, "triageJob", "write", <<>>)

ApplyTriageDraft(a) ==
  /\ At(a, "triageJob", "write")
  /\ request' = [request EXCEPT !.scope = "draft"]
  /\ Finish(a) \/ Goto(a, "auto")
  /\ UNCHANGED <<trail, thread, filings, tasks, reviewVars, outVars, env>>

\* The statuses on the way from the one given to in_progress.
Onward(status) ==
  IF status = "submitted" THEN <<"in_review", "in_progress">>
  ELSE IF status = "in_review" THEN <<"in_progress">> ELSE <<>>

\* autoDispatchSuggestions, where the agency has it on and the job's suggestions
\* are confident: it looks at the row, then for tasks, and goes on as a dispatch.
AutoDispatch(a) ==
  /\ At(a, "triageJob", "auto")
  /\ IF Onward(request.status) # <<>>
     THEN Resume(a, [frame[a] EXCEPT !.pc = "tasks", !.request = request,
                                     !.todo = Onward(request.status)])
     ELSE Finish(a)
  /\ UNCHANGED <<rowVars, reviewVars, outVars, env>>

AutoDispatchTasks(a) ==
  /\ At(a, "triageJob", "tasks")
  /\ IF tasks = 0
     THEN Resume(a, [frame[a] EXCEPT !.op = "dispatch", !.pc = "transition"])
     ELSE Finish(a)
  /\ UNCHANGED <<rowVars, reviewVars, outVars, env>>

-----------------------------------------------------------------------------
(* The statutory extension.                                                *)

\* Mutant of Extend: earlier extensions are not counted.
ExtendAgain(a) ==
  /\ ~request.closed
  /\ Begin(a, "extend", "write", <<>>)

Extend(a) ==
  /\ ~request.closed
  /\ request.extensions = 0
  /\ Begin(a, "extend", "write", <<>>)

ExtendWrite(a) ==
  /\ At(a, "extend", "write")
  /\ request' = [request EXCEPT
       !.extensions = frame[a].request.extensions + 1]
  /\ Goto(a, "log")
  /\ UNCHANGED <<trail, thread, filings, tasks, reviewVars, outVars, env>>

ExtendLog(a) ==
  /\ At(a, "extend", "log")
  /\ LogEvent(a, "extension", "unsaid")
  /\ Goto(a, "letter")
  /\ UNCHANGED <<request, thread, filings, tasks, reviewVars, outVars, env>>

ExtendNotice(a) ==
  /\ At(a, "extend", "letter")
  /\ Send("extension")
  /\ Finish(a)
  /\ UNCHANGED <<request, trail, filings, tasks, reviewVars, outVars, env>>

-----------------------------------------------------------------------------
(* Determinations: the row is closed with its new status in one update.    *)

Close(to, forwardedTo) ==
  request' = [request EXCEPT !.status = to, !.closed = TRUE,
                             !.forwardedTo = forwardedTo]

\* Mutant of Deny: assertTransition is not called.
DenyUnasserted(a) == Begin(a, "deny", "write", <<>>)

Deny(a) ==
  /\ CanTransition(request.status, "denied")
  /\ Begin(a, "deny", "write", <<>>)

\* Mutant of DenyWrite: closedAt is forgotten.
DenyWriteOpen(a) ==
  /\ At(a, "deny", "write")
  /\ request' = [request EXCEPT !.status = "denied"]
  /\ Goto(a, "log")
  /\ UNCHANGED <<trail, thread, filings, tasks, reviewVars, outVars, env>>

DenyWrite(a) ==
  /\ At(a, "deny", "write")
  /\ Close("denied", request.forwardedTo)
  /\ Goto(a, "log")
  /\ UNCHANGED <<trail, thread, filings, tasks, reviewVars, outVars, env>>

DenyLog(a) ==
  /\ At(a, "deny", "log")
  /\ LogEvent(a, "status_change", "denied")
  /\ Goto(a, "letter")
  /\ UNCHANGED <<request, thread, filings, tasks, reviewVars, outVars, env>>

DenyLetter(a) ==
  /\ At(a, "deny", "letter")
  /\ Send("denied")
  /\ Finish(a)
  /\ UNCHANGED <<request, trail, filings, tasks, reviewVars, outVars, env>>

\* The letter goes out first; the row and the event follow.
FulfillByReference(a) ==
  /\ CanTransition(request.status, "fulfilled")
  /\ Begin(a, "fulfillByReference", "letter", <<>>)

ReferenceLetter(a) ==
  /\ At(a, "fulfillByReference", "letter")
  /\ Send("fulfilled")
  /\ Goto(a, "write")
  /\ UNCHANGED <<request, trail, filings, tasks, reviewVars, outVars, env>>

ReferenceWrite(a) ==
  /\ At(a, "fulfillByReference", "write")
  /\ Close("fulfilled", request.forwardedTo)
  /\ Goto(a, "log")
  /\ UNCHANGED <<trail, thread, filings, tasks, reviewVars, outVars, env>>

ReferenceLog(a) ==
  /\ At(a, "fulfillByReference", "log")
  /\ LogEvent(a, "status_change", "fulfilled")
  /\ Finish(a)
  /\ UNCHANGED <<request, thread, filings, tasks, reviewVars, outVars, env>>

Refer(a) ==
  /\ ~request.closed
  /\ CanTransition(request.status, "referred")
  /\ Begin(a, "refer", "write", <<>>)

ReferWrite(a) ==
  /\ At(a, "refer", "write")
  /\ Close("referred", request.forwardedTo)
  /\ Goto(a, "log")
  /\ UNCHANGED <<trail, thread, filings, tasks, reviewVars, outVars, env>>

ReferLog(a) ==
  /\ At(a, "refer", "log")
  /\ LogEvent(a, "status_change", "referred")
  /\ Goto(a, "letter")
  /\ UNCHANGED <<request, thread, filings, tasks, reviewVars, outVars, env>>

ReferLetter(a) ==
  /\ At(a, "refer", "letter")
  /\ Send("referred")
  /\ Finish(a)
  /\ UNCHANGED <<request, trail, filings, tasks, reviewVars, outVars, env>>

\* Mutant of Forward: a closed request may be forwarded again.
ForwardAgain(a) == Begin(a, "forward", "file", <<>>)

\* The crossing: the request is filed with the peer agency before the source
\* row is closed.
Forward(a) ==
  /\ ~request.closed
  /\ CanTransition(request.status, "referred")
  /\ Begin(a, "forward", "file", <<>>)

ForwardFile(a) ==
  /\ At(a, "forward", "file")
  /\ filings' = filings + 1
  /\ Resume(a, [frame[a] EXCEPT !.pc = "write", !.made = filings + 1])
  /\ UNCHANGED <<request, trail, thread, tasks, reviewVars, outVars, env>>

ForwardWrite(a) ==
  /\ At(a, "forward", "write")
  /\ Close("referred", frame[a].made)
  /\ Goto(a, "log")
  /\ UNCHANGED <<trail, thread, filings, tasks, reviewVars, outVars, env>>

ForwardLog(a) ==
  /\ At(a, "forward", "log")
  /\ LogEvent(a, "status_change", "referred")
  /\ Goto(a, "letter")
  /\ UNCHANGED <<request, thread, filings, tasks, reviewVars, outVars, env>>

ForwardLetter(a) ==
  /\ At(a, "forward", "letter")
  /\ Send("referred")
  /\ Finish(a)
  /\ UNCHANGED <<request, trail, filings, tasks, reviewVars, outVars, env>>

-----------------------------------------------------------------------------
(* Correspondence and dispatch.                                            *)

\* sendStaffMessage with requestClarification.
Clarify(a) ==
  /\ CanTransition(request.status, "clarification_needed")
  /\ Begin(a, "clarify", "message", <<"clarification_needed">>)

ClarifyMessage(a) ==
  /\ At(a, "clarify", "message")
  /\ Send("clarification")
  /\ Goto(a, "transition")
  /\ UNCHANGED <<request, trail, filings, tasks, reviewVars, outVars, env>>

Reply(a) ==
  Begin(a, "reply", "message",
        IF request.status = "clarification_needed" THEN <<"in_review">>
                                                   ELSE <<>>)

ReplyMessage(a) ==
  /\ At(a, "reply", "message")
  /\ Send("reply")
  /\ IF frame[a].todo # <<>> THEN Goto(a, "transition") ELSE Finish(a)
  /\ UNCHANGED <<request, trail, filings, tasks, reviewVars, outVars, env>>

\* dispatchTaskAction moves a fresh request forward, then creates the task.
Dispatch(a) ==
  LET todo == Onward(request.status)
  IN Begin(a, "dispatch", IF todo = <<>> THEN "task" ELSE "transition", todo)

\* Of several automatic dispatches one task stands for all.
DispatchTask(a) ==
  /\ At(a, "dispatch", "task")
  /\ tasks' = tasks + 1
  /\ Finish(a)
  /\ UNCHANGED <<request, trail, thread, filings, reviewVars, outVars, env>>

-----------------------------------------------------------------------------
(* The review set.                                                         *)

AttachDocument(d) ==
  /\ Undisturbed
  /\ attached' = attached \cup {d}
  /\ UNCHANGED <<rowVars, reviews, artifacts, outVars, frame, env>>

\* Re-deciding replaces; neither the review set nor the status is looked at.
ReviewDocument(d, decision) ==
  /\ Undisturbed
  /\ reviews' = [reviews EXCEPT ![d] = decision]
  /\ UNCHANGED <<rowVars, attached, artifacts, outVars, frame, env>>

\* The copy is stored, then the decision: later, as a ReviewDocument, where calls
\* overlap, and never where this one fails in between.
FinalizeRedaction(d) ==
  /\ Undisturbed
  /\ d \in attached
  /\ artifacts' = artifacts \cup {d}
  /\ \/ reviews' = [reviews EXCEPT ![d] = "release_redacted"]
     \/ (env.overlap \/ env.fail) /\ UNCHANGED reviews
  /\ UNCHANGED <<rowVars, attached, outVars, frame, env>>

-----------------------------------------------------------------------------
(* releaseRequest.                                                         *)

ReleaseRequest(a) == Begin(a, "release", "docs", <<>>)

ReleaseDocs(a) ==
  /\ At(a, "release", "docs")
  /\ IF attached # {}
     THEN Resume(a, [frame[a] EXCEPT !.pc = "reviews", !.docs = attached])
     ELSE Finish(a)
  /\ UNCHANGED <<rowVars, reviewVars, outVars, env>>

Marked(docs, decision) == {d \in docs : reviews[d] = decision}

\* Mutant of ReleaseReviews: undecided documents are passed over.
ReleaseReviewsPartial(a) ==
  /\ At(a, "release", "reviews")
  /\ LET docs == frame[a].docs IN
       Resume(a, [frame[a] EXCEPT !.pc = "artifacts",
                    !.ship = Marked(docs, "release"),
                    !.burn = Marked(docs, "release_redacted"),
                    !.held = Marked(docs, "withhold")])
  /\ UNCHANGED <<rowVars, reviewVars, outVars, env>>

ReleaseReviews(a) ==
  /\ At(a, "release", "reviews")
  /\ LET docs == frame[a].docs
         held == Marked(docs, "withhold")
     IN IF Marked(docs, "undecided") = {} /\ held # docs
        THEN Resume(a, [frame[a] EXCEPT !.pc = "artifacts",
                          !.ship = Marked(docs, "release"),
                          !.burn = Marked(docs, "release_redacted"),
                          !.held = held])
        ELSE Finish(a)
  /\ UNCHANGED <<rowVars, reviewVars, outVars, env>>

\* The two reads of a Promise.all come in either order.
ReleaseReviewsFirst(a) ==
  /\ At(a, "release", "docs")
  /\ Resume(a, [frame[a] EXCEPT !.pc = "attached",
                  !.ship = Marked(Docs, "release"),
                  !.burn = Marked(Docs, "release_redacted"),
                  !.held = Marked(Docs, "withhold")])
  /\ UNCHANGED <<rowVars, reviewVars, outVars, env>>

ReleaseDocsLast(a) ==
  /\ At(a, "release", "attached")
  /\ LET f    == frame[a]
         held == f.held \cap attached
     IN IF held # attached /\ attached \subseteq f.ship \cup f.burn \cup f.held
        THEN Resume(a, [f EXCEPT !.pc = "artifacts", !.docs = attached,
                                 !.ship = f.ship \cap attached,
                                 !.burn = f.burn \cap attached, !.held = held])
        ELSE Finish(a)
  /\ UNCHANGED <<rowVars, reviewVars, outVars, env>>

\* Mutant of ReleaseArtifacts: a missing burned copy is not noticed.
ReleaseUnburned(a) ==
  /\ At(a, "release", "artifacts")
  /\ Goto(a, "create")
  /\ UNCHANGED <<rowVars, reviewVars, outVars, env>>

ReleaseArtifacts(a) ==
  /\ At(a, "release", "artifacts")
  /\ IF frame[a].burn \subseteq artifacts THEN Goto(a, "create") ELSE Finish(a)
  /\ UNCHANGED <<rowVars, reviewVars, outVars, env>>

\* The releases row is written before the lifecycle is asked.
CreateRelease(a) ==
  /\ At(a, "release", "create")
  /\ releases' = Append(releases, [ship |-> frame[a].ship,
                                   burn |-> frame[a].burn,
                                   held |-> frame[a].held])
  /\ Resume(a, [frame[a] EXCEPT !.pc = "status", !.made = Len(releases) + 1])
  /\ UNCHANGED <<rowVars, reviewVars, archive, env>>

ReleaseToRecordsReview(a) ==
  /\ At(a, "release", "status")
  /\ frame[a].request.status = "in_progress"
  /\ request' = [request EXCEPT !.status = "records_review"]
  /\ Resume(a, [frame[a] EXCEPT !.request.status = "records_review"])
  /\ UNCHANGED <<trail, thread, filings, tasks, reviewVars, outVars, env>>

FinalStatus(a) ==
  IF frame[a].held # {} THEN "partially_fulfilled" ELSE "fulfilled"

\* Mutant of ReleaseStatus: assertTransition is not called.
ReleaseStatusUnasserted(a) ==
  /\ At(a, "release", "status")
  /\ frame[a].request.status # "in_progress"
  /\ Close(FinalStatus(a), request.forwardedTo)
  /\ Goto(a, "log")
  /\ UNCHANGED <<trail, thread, filings, tasks, reviewVars, outVars, env>>

ReleaseStatus(a) ==
  /\ At(a, "release", "status")
  /\ frame[a].request.status # "in_progress"
  /\ \/ /\ CanTransition(frame[a].request.status, FinalStatus(a))
        /\ Close(FinalStatus(a), request.forwardedTo)
        /\ Goto(a, "log")
     \/ /\ ~CanTransition(frame[a].request.status, FinalStatus(a))
        /\ Finish(a)
        /\ UNCHANGED request
  /\ UNCHANGED <<trail, thread, filings, tasks, reviewVars, outVars, env>>

\* Mutant of ReleaseLog: a partial release is logged as a full one.
ReleaseLogFull(a) ==
  /\ At(a, "release", "log")
  /\ LogEvent(a, "approval", "fulfilled")
  /\ Goto(a, "letter")
  /\ UNCHANGED <<request, thread, filings, tasks, reviewVars, outVars, env>>

ReleaseLog(a) ==
  /\ At(a, "release", "log")
  /\ LogEvent(a, "approval", FinalStatus(a))
  /\ Goto(a, "letter")
  /\ UNCHANGED <<request, thread, filings, tasks, reviewVars, outVars, env>>

ReleaseLetter(a) ==
  /\ At(a, "release", "letter")
  /\ Send("released")
  /\ Goto(a, "publish")
  /\ UNCHANGED <<request, trail, filings, tasks, reviewVars, outVars, env>>

\* visibility is the approver's choice: only a public release is archived.
ReleasePublish(a) ==
  /\ At(a, "release", "publish")
  /\ \/ archive' = archive \cup {frame[a].made}
     \/ UNCHANGED archive
  /\ Finish(a)
  /\ UNCHANGED <<rowVars, reviewVars, releases, env>>

-----------------------------------------------------------------------------
\* A repository call throws or the process dies: what was written stays.
Abort(a) ==
  /\ env.fail
  /\ frame[a] # Idle
  /\ Finish(a)
  /\ UNCHANGED <<rowVars, reviewVars, outVars, env>>

Transition(a) == TransitionRead(a) \/ TransitionWrite(a) \/ TransitionLog(a)

Triage(a) == \/ ApproveTriage(a) \/ ApproveTriageWrite(a)
             \/ TriageJob(a) \/ ApplyTriageDraft(a)
             \/ AutoDispatch(a) \/ AutoDispatchTasks(a)

Extension(a) == Extend(a) \/ ExtendWrite(a) \/ ExtendLog(a) \/ ExtendNotice(a)

Denial(a) == Deny(a) \/ DenyWrite(a) \/ DenyLog(a) \/ DenyLetter(a)

Reference(a) == \/ FulfillByReference(a) \/ ReferenceLetter(a)
                \/ ReferenceWrite(a) \/ ReferenceLog(a)

Referral(a) == \/ Refer(a) \/ ReferWrite(a) \/ ReferLog(a) \/ ReferLetter(a)
               \/ Forward(a) \/ ForwardFile(a) \/ ForwardWrite(a)
               \/ ForwardLog(a) \/ ForwardLetter(a)

Correspondence(a) == \/ Clarify(a) \/ ClarifyMessage(a)
                     \/ Reply(a) \/ ReplyMessage(a)
                     \/ Dispatch(a) \/ DispatchTask(a)

Releasing(a) == \/ ReleaseRequest(a) \/ ReleaseDocs(a) \/ ReleaseReviews(a)
                \/ ReleaseReviewsFirst(a) \/ ReleaseDocsLast(a)
                \/ ReleaseArtifacts(a) \/ CreateRelease(a)
                \/ ReleaseToRecordsReview(a) \/ ReleaseStatus(a)
                \/ ReleaseLog(a) \/ ReleaseLetter(a) \/ ReleasePublish(a)

Review(d) ==
  /\ d \in env.docs
  /\ \/ AttachDocument(d)
     \/ \E decision \in Decision \ {"undecided"} : ReviewDocument(d, decision)
     \/ FinalizeRedaction(d)

Next == \/ \E a \in Actors : \/ Transition(a) \/ Triage(a) \/ Extension(a)
                             \/ Denial(a) \/ Reference(a) \/ Referral(a)
                             \/ Correspondence(a) \/ Releasing(a) \/ Abort(a)
        \/ \E d \in Docs : Review(d)

Spec == Init /\ [][Next]_vars
-----------------------------------------------------------------------------
(* What the code promises.                                                 *)

TypeOK ==
  /\ request \in Row
  /\ trail \in Seq(Entry)
  /\ thread \in SUBSET Kind
  /\ filings \in Nat
  /\ tasks \in Nat
  /\ attached \in SUBSET Docs
  /\ reviews \in [Docs -> Decision]
  /\ artifacts \in SUBSET Docs
  /\ releases \in Seq(Release)
  /\ archive \in SUBSET Nat
  /\ frame \in [Actors -> Frame]
  /\ env \in Environment

\* The audit trail never records a change of status the graph does not have,
\* however the calls interleave: each logs from the status it asserted against.
LoggedEdgesLegal ==
  \A i \in DOMAIN trail :
    trail[i].kind = "status_change" => CanTransition(trail[i].from, trail[i].to)

\* A determination always stops the statutory clock: no interleaving or crash
\* leaves a denied, referred or (partly) fulfilled request with it running.
DeterminedIsClosed == request.status \in Determined => request.closed

Logged(kind, to) ==
  \E i \in DOMAIN trail : trail[i].kind = kind /\ trail[i].to = to

\* Except for fulfillByReference, the requester is told of a determination or
\* an extension only once the audit trail holds it.
LetterIsAudited ==
  /\ "denied" \in thread => Logged("status_change", "denied")
  /\ "referred" \in thread => Logged("status_change", "referred")
  /\ "extension" \in thread =>
       \E i \in DOMAIN trail : trail[i].kind = "extension"
  /\ "released" \in thread => \/ Logged("approval", "fulfilled")
                              \/ Logged("approval", "partially_fulfilled")

\* A document released with redactions ships its burned copy and never its
\* original beside it; the archive only cites releases that were made.
RedactedShipsBurned ==
  /\ \A i \in DOMAIN releases :
       /\ releases[i].burn \subseteq artifacts
       /\ releases[i].ship \cap (releases[i].burn \cup releases[i].held) = {}
  /\ archive \subseteq DOMAIN releases

\* Nobody is told of a denial, referral or release, and no release is in the
\* public archive, while the statutory clock of the request still runs.
ToldIsClosed ==
  thread \cap {"denied", "referred", "released"} # {} \/ archive # {}
    => request.closed

\* What follows needs calls that do not overlap, and some of it calls that
\* also do not fail.
Serial  == ~env.overlap
Orderly == Serial /\ ~env.fail

\* The row implements the abstract lifecycle, clock included: the status moves
\* along the edges only, and each determination stops the clock in its step.
LC == INSTANCE RequestLifecycle
        WITH status <- IF Serial THEN request.status ELSE "submitted",
             clockStopped <- IF Serial THEN request.closed ELSE FALSE
LifecycleKept == LC!Spec

HonoursDecisions(r) ==
  /\ \A d \in r.ship : reviews[d] = "release"
  /\ \A d \in r.burn : reviews[d] = "release_redacted"
  /\ attached \subseteq r.ship \cup r.burn \cup r.held

\* A release is made from the decisions in force: every document of the review
\* set is decided, nothing withheld is shipped, nothing redacted goes in full.
ReleaseHonoursDecisions ==
  [][Serial /\ releases' # releases
       => HonoursDecisions(releases'[Len(releases')])]_releases

\* The events that moved the status: its changes and the release approvals, whose
\* count of withheld documents tells the status the release ended in.
Moves == {i \in DOMAIN trail : trail[i].kind # "extension"}

\* Between calls, the last of these events tells the request's present status.
TrailExplainsStatus ==
  Orderly /\ Quiet =>
    IF Moves = {} THEN request.status = "submitted"
    ELSE \E last \in Moves : /\ \A i \in Moves : i <= last
                             /\ request.status = trail[last].to

\* At most one statutory extension is granted and logged, failures included.
OneExtension ==
  Serial => \A i, j \in DOMAIN trail :
              trail[i].kind = "extension" /\ trail[j].kind = "extension" => i = j

\* The requester never gets two final determinations that contradict.
OneFinalLetter ==
  Orderly => \A k, l \in thread \cap {"denied", "fulfilled", "referred"} : k = l

\* Every request filed with the peer agency is the one the source row points
\* to, or its forward is still under way.
NoOrphanFiling ==
  Orderly => \A f \in 1..filings :
               \/ request.forwardedTo = f
               \/ \E a \in Actors :
                    At(a, "forward", "write") /\ frame[a].made = f

-----------------------------------------------------------------------------
(* What the repository says and overlapping calls break.                   *)

\* Every release is made from the decisions in force, whatever runs meanwhile.
EveryReleaseHonoursDecisions ==
  [][releases' # releases => HonoursDecisions(releases'[Len(releases')])]_releases
=============================================================================
