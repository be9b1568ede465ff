------------------------------ MODULE AgentRun ------------------------------
(***************************************************************************)
(* One persisted agent run: src/agents/runHarness.ts executes its plan,    *)
(* src/agents/steering.ts lets staff approve or skip the step it parked on *)
(* or cancel it, each from a tab of their own.                             *)
(*                                                                         *)
(* The harness works on a copy of the agent_runs row and persists the copy *)
(* after every step; a steering call reads the row, checks that it is      *)
(* parked, and writes without a condition.  A capability's effect outside  *)
(* (an email, a department task) is the increment of ran.                  *)
(*                                                                         *)
(* Left out: what capabilities compute, the token and wall-clock budgets   *)
(* (they stop a run as tool calls do), corpus pinning, the allowlist       *)
(* (another refusal, as forbidden actions are), what the agent_steered     *)
(* events say, and shouldInterrupt, which no caller passes.                *)
(***************************************************************************)
EXTENDS Naturals, Sequences

CONSTANTS
  Staff,         \* staff tabs that steer
  Runner,        \* the process that created the run
  Plan,          \* the kinds of the steps it may plan, the first so many
  Extra,         \* the kinds of the steps each plan_update inserts: a bound, no
                 \* inserted step asks for more
  MaxToolCalls,  \* the run's tool-call budget
  Environments   \* the circumstances a behaviour may start in: one per behaviour

StepKind == {"read", "gated", "forbidden", "revise"}

\* How many steering calls are still to come (a bound), whether one may start
\* while something is under way, whether calls may throw and processes die.
Environment == [calls : Nat, overlap : BOOLEAN, fail : BOOLEAN]

ASSUME AgentAssumption ==
  /\ Runner \notin Staff
  /\ Plan \in Seq(StepKind)
  /\ Extra \in Seq(StepKind \ {"revise"})
  /\ MaxToolCalls \in Nat
  /\ Environments \subseteq Environment

VARIABLES
  row,      \* the agent_runs row
  frame,    \* per caller: the copy it works on and what it does next
  ran,      \* how often each step's capability took effect
  audited,  \* how many agent_action events say that it did
  consent,  \* history: steps a human approved
  skips,    \* history: steps a human skipped
  env       \* the circumstances, and the steering calls they still allow

ghosts == <<ran, audited, consent, skips>>
vars   == <<row, frame, ghosts, env>>

Actors == Staff \cup {Runner}

\* <<p, 0>> is step p of the plan, <<p, n>> the n-th of those it had inserted.
Ids   == (1..Len(Plan)) \X (0..Len(Extra))
Kinds == [id \in Ids |-> IF id[2] = 0 THEN Plan[id[1]] ELSE Extra[id[2]]]

Step == [id : Ids,
         status : {"pending", "awaiting_human", "done", "skipped", "blocked"},
         approved : BOOLEAN]
Row  == [status : {"planning", "running", "awaiting_checkpoint", "completed",
                   "exhausted", "failed", "cancelled"},
         steps : Seq(Step), cursor : Nat, spend : Nat]
Pc   == {"idle", "approve", "skip", "cancel", "loop", "emit", "save", "park",
         "return", "log"}

Fresh(id) == [id |-> id, status |-> "pending", approved |-> FALSE]

PlannedRow(k) == [status |-> "planning",
                  steps  |-> [n \in 1..k |-> Fresh(<<n, 0>>)],
                  cursor |-> 1, spend |-> 0]

Inserted(id) == [n \in 1..Len(Extra) |-> Fresh(<<id[1], n>>)]

Idle == [pc |-> "idle", copy |-> PlannedRow(0)]

\* The row is created with its plan, one step of Plan at least, and handed to the
\* harness.
Init ==
  /\ \E k \in 1..Len(Plan) :
       /\ row = PlannedRow(k)
       /\ frame = [a \in Actors |->
                     IF a = Runner
                     THEN [pc |-> "loop",
                           copy |-> [PlannedRow(k) EXCEPT !.status = "running"]]
                     ELSE Idle]
  /\ ran = [id \in Ids |-> 0]
  /\ audited = [id \in Ids |-> 0]
  /\ consent = {}
  /\ skips = {}
  /\ env \in Environments

-----------------------------------------------------------------------------
Quiet     == \A a \in Actors : frame[a].pc = "idle"
Copy(a)   == frame[a].copy
HasStep(r) == r.cursor \in DOMAIN r.steps
Now(r)    == r.steps[r.cursor]
Kind(r)   == Kinds[Now(r).id]

GoTo(a, pc)       == frame' = [frame EXCEPT ![a].pc = pc]
Continue(a, pc, r) == frame' = [frame EXCEPT ![a] = [pc |-> pc, copy |-> r]]
Finish(a)         == frame' = [frame EXCEPT ![a] = Idle]

Mark(r, status) == [r EXCEPT !.steps[r.cursor].status = status]
Fail(r) == [r EXCEPT !.steps[r.cursor].status = "blocked", !.status = "failed"]

-----------------------------------------------------------------------------
(* runAgent, on the caller's copy.                                         *)

Looping(a) == frame[a].pc = "loop" /\ HasStep(Copy(a))
Affords(r) == r.spend < MaxToolCalls

\* Mutant of Allowed: one approval opens the whole run.
AllowedOnce(r) == /\ Kind(r) # "forbidden"
                  /\ Kind(r) = "gated" =>
                       \E n \in DOMAIN r.steps : r.steps[n].approved

\* Forbidden never runs; a gated step runs once a human approved it.
Allowed(r) == /\ Kind(r) # "forbidden"
              /\ Kind(r) = "gated" => Now(r).approved

\* plan_update: the new steps go in right behind the one that asked for them.
Revised(r) ==
  IF Kind(r) = "revise"
  THEN [r EXCEPT !.steps = SubSeq(r.steps, 1, r.cursor) \o Inserted(Now(r).id)
                             \o SubSeq(r.steps, r.cursor + 1, Len(r.steps))]
  ELSE r

Execute(a) ==
  /\ Looping(a)
  /\ Affords(Copy(a))
  /\ Allowed(Copy(a))
  /\ ran' = [ran EXCEPT ![Now(Copy(a)).id] = @ + 1]
  /\ Continue(a, "emit", Revised(Mark(Copy(a), "done")))
  /\ UNCHANGED <<row, audited, consent, skips, env>>

\* The capability throws, before or after it had its effect.
CapabilityThrows(a) ==
  /\ env.fail
  /\ Looping(a)
  /\ Affords(Copy(a))
  /\ Allowed(Copy(a))
  /\ \/ ran' = [ran EXCEPT ![Now(Copy(a)).id] = @ + 1]
     \/ UNCHANGED ran
  /\ Continue(a, "park", Fail(Copy(a)))
  /\ UNCHANGED <<row, audited, consent, skips, env>>

Exhaust(a) ==
  /\ Looping(a)
  /\ ~Affords(Copy(a))
  /\ Continue(a, "park", [Copy(a) EXCEPT !.status = "exhausted"])
  /\ UNCHANGED <<row, ghosts, env>>

Checkpoint(a) ==
  /\ Looping(a)
  /\ Affords(Copy(a))
  /\ Kind(Copy(a)) = "gated" /\ ~Now(Copy(a)).approved
  /\ Continue(a, "park", [Mark(Copy(a), "awaiting_human") EXCEPT
                            !.status = "awaiting_checkpoint"])
  /\ UNCHANGED <<row, ghosts, env>>

Refuse(a) ==
  /\ Looping(a)
  /\ Affords(Copy(a))
  /\ Kind(Copy(a)) = "forbidden"
  /\ Continue(a, "park", Fail(Copy(a)))
  /\ UNCHANGED <<row, ghosts, env>>

\* recordSpend, then the step's agent_action event.
Spent(r) == [r EXCEPT !.spend = @ + 1]

\* Mutant of Emit: only the steps a human approved are logged.
EmitApprovedOnly(a) ==
  /\ frame[a].pc = "emit"
  /\ audited' = IF Now(Copy(a)).approved
                THEN [audited EXCEPT ![Now(Copy(a)).id] = @ + 1]
                ELSE audited
  /\ Continue(a, "save", Spent(Copy(a)))
  /\ UNCHANGED <<row, ran, consent, skips, env>>

Emit(a) ==
  /\ frame[a].pc = "emit"
  /\ audited' = [audited EXCEPT ![Now(Copy(a)).id] = @ + 1]
  /\ Continue(a, "save", Spent(Copy(a)))
  /\ UNCHANGED <<row, ran, consent, skips, env>>

\* An error of emit lands in the same catch as the capability's.
EmitThrows(a) ==
  /\ env.fail
  /\ frame[a].pc = "emit"
  /\ Continue(a, "park", Fail(Spent(Copy(a))))
  /\ UNCHANGED <<row, ghosts, env>>

Advanced(r) == [r EXCEPT !.cursor = @ + 1]

\* Mutant of Save: the cursor stays.
SaveInPlace(a) ==
  /\ frame[a].pc = "save"
  /\ row' = Copy(a)
  /\ Continue(a, "loop", Copy(a))
  /\ UNCHANGED <<ghosts, env>>

Save(a) ==
  /\ frame[a].pc = "save"
  /\ row' = Advanced(Copy(a))
  /\ Continue(a, "loop", Advanced(Copy(a)))
  /\ UNCHANGED <<ghosts, env>>

SaveThrows(a) ==
  /\ env.fail
  /\ frame[a].pc = "save"
  /\ Continue(a, "park", Advanced(Fail(Copy(a))))
  /\ UNCHANGED <<row, ghosts, env>>

\* Mutant of Complete: the final status is forgotten.
CompleteRunning(a) ==
  /\ frame[a].pc = "loop"
  /\ ~HasStep(Copy(a))
  /\ row' = Copy(a)
  /\ Continue(a, "return", row')
  /\ UNCHANGED <<ghosts, env>>

Complete(a) ==
  /\ frame[a].pc = "loop"
  /\ ~HasStep(Copy(a))
  /\ row' = [Copy(a) EXCEPT !.status = "completed"]
  /\ Continue(a, "return", row')
  /\ UNCHANGED <<ghosts, env>>

\* The run stops where it is: its state is persisted.
Park(a) ==
  /\ frame[a].pc = "park"
  /\ row' = Copy(a)
  /\ GoTo(a, "return")
  /\ UNCHANGED <<ghosts, env>>

\* Every caller of runAgent persists the returned run once more.
Return(a) ==
  /\ frame[a].pc = "return"
  /\ row' = Copy(a)
  /\ IF a = Runner THEN Finish(a) ELSE GoTo(a, "log")
  /\ UNCHANGED <<ghosts, env>>

-----------------------------------------------------------------------------
(* Steering.                                                               *)

\* Mutant of Steerable: a cancelled run may be steered.
SteerableCancelled(r) == r.status \in {"awaiting_checkpoint", "cancelled"}

\* paused is steerable too, and nothing writes it.
Steerable(r) == r.status = "awaiting_checkpoint"

\* loadParkedRun; the caller's step index has to be the cursor's.
Load(a, pc, r) ==
  /\ a # Runner
  /\ frame[a].pc = "idle"
  /\ env.overlap \/ Quiet
  /\ env.calls > 0
  /\ Steerable(row)
  /\ Continue(a, pc, r)
  /\ env' = [env EXCEPT !.calls = @ - 1]
  /\ UNCHANGED <<row, ran, audited>>

Approve(a) ==
  /\ HasStep(row)
  /\ Load(a, "approve", [row EXCEPT !.steps[row.cursor].approved = TRUE,
                                    !.steps[row.cursor].status = "pending"])
  /\ consent' = consent \cup {Now(row).id}
  /\ UNCHANGED skips

\* Mutant of Skip: the cursor stays on the skipped step.
SkipInPlace(a) ==
  /\ HasStep(row)
  /\ Load(a, "skip", Mark(row, "skipped"))
  /\ skips' = skips \cup {Now(row).id}
  /\ UNCHANGED consent

Skip(a) ==
  /\ HasStep(row)
  /\ Load(a, "skip", Advanced(Mark(row, "skipped")))
  /\ skips' = skips \cup {Now(row).id}
  /\ UNCHANGED consent

Cancel(a) ==
  /\ Load(a, "cancel", row)
  /\ UNCHANGED <<consent, skips>>

\* Mutant of PlanWrite: a resumed plan starts over.
PlanRestarted(a) ==
  /\ frame[a].pc \in {"approve", "skip"}
  /\ row' = [row EXCEPT !.steps = Copy(a).steps, !.cursor = 1]
  /\ Continue(a, "loop", [Copy(a) EXCEPT !.status = "running"])
  /\ UNCHANGED <<ghosts, env>>

\* updateAgentRun of the plan alone: the row's status stays as it is.
PlanWrite(a) ==
  /\ frame[a].pc \in {"approve", "skip"}
  /\ row' = [row EXCEPT !.steps = Copy(a).steps, !.cursor = Copy(a).cursor]
  /\ Continue(a, "loop", [Copy(a) EXCEPT !.status = "running"])
  /\ UNCHANGED <<ghosts, env>>

CancelWrite(a) ==
  /\ frame[a].pc = "cancel"
  /\ row' = [row EXCEPT !.status = "cancelled"]
  /\ GoTo(a, "log")
  /\ UNCHANGED <<ghosts, env>>

LogSteering(a) ==
  /\ frame[a].pc = "log"
  /\ Finish(a)
  /\ UNCHANGED <<row, ghosts, env>>

\* The process dies, or a write outside the harness's catch throws.
Abort(a) ==
  /\ env.fail
  /\ frame[a].pc # "idle"
  /\ Finish(a)
  /\ UNCHANGED <<row, ghosts, env>>

-----------------------------------------------------------------------------
Harness(a) == \/ Execute(a) \/ Exhaust(a) \/ Checkpoint(a) \/ Refuse(a)
              \/ Emit(a) \/ Save(a) \/ Complete(a) \/ Park(a) \/ Return(a)

Steering(a) == PlanWrite(a) \/ CancelWrite(a) \/ LogSteering(a)

Trouble(a) == CapabilityThrows(a) \/ EmitThrows(a) \/ SaveThrows(a) \/ Abort(a)

Next == \E a \in Actors : \/ Harness(a) \/ Steering(a) \/ Trouble(a)
                          \/ Approve(a) \/ Skip(a) \/ Cancel(a)

Spec == Init /\ [][Next]_vars

\* A call that is under way goes on; whether staff steer is up to them.
FairSpec == Spec /\ \A a \in Actors : WF_vars(Harness(a) \/ Steering(a))
-----------------------------------------------------------------------------
(* What the code promises.                                                 *)

TypeOK ==
  /\ row \in Row
  /\ frame \in [Actors -> [pc : Pc, copy : Row]]
  /\ ran \in [Ids -> Nat]
  /\ audited \in [Ids -> Nat]
  /\ consent \in SUBSET Ids
  /\ skips \in SUBSET Ids
  /\ env \in Environment

\* However calls race and crash, a forbidden action never takes effect and a
\* gated one only after a human approved that very step.
HumanGate ==
  \A id \in Ids : ran[id] > 0 =>
    /\ Kinds[id] # "forbidden"
    /\ Kinds[id] = "gated" => id \in consent

\* The trail never says a step was executed more often than it was.
AuditNeverInvents == \A id \in Ids : audited[id] <= ran[id]

\* No copy of the run, and no row, has spent beyond the budget.
SpendWithinBudget ==
  \A r \in {row} \cup {Copy(a) : a \in Actors} : r.spend <= MaxToolCalls

\* What follows needs calls that do not overlap, or that do not fail.
Serial    == ~env.overlap
Faultless == ~env.fail
Orderly   == Serial /\ Faultless

EffectsOnce == \A id \in Ids : ran[id] <= 1

\* With one call at a time and no failure, a step takes effect once at most,
\* through revisions of the plan, parking and resuming.
RunsOnce == Orderly => EffectsOnce

\* What a human skipped is not executed, before or after.
SkippedNeverRuns == Orderly => \A id \in skips : ran[id] = 0

\* Between calls that do not fail, every executed step has its event.
EveryStepAudited == Faultless /\ Quiet => audited = ran

\* The persisted run never goes back to a step it had passed, and keeps the
\* steps behind its cursor, failures included.
CursorForward ==
  [][Serial => /\ row'.cursor >= row.cursor
               /\ \A n \in 1..(row.cursor - 1) : row'.steps[n] = row.steps[n]]_row

\* Cancelling ends the run, failures included.
CancelSticks ==
  [][Serial /\ row.status = "cancelled" => row'.status = "cancelled"]_row

\* A run that is running comes to rest, or a failure left it with nobody on it.
RunStops ==
  row.status = "running" ~> \/ row.status # "running"
                            \/ ~Faultless /\ []Quiet

-----------------------------------------------------------------------------
(* What the repository says and overlapping calls break.                   *)

\* A step is executed once, however many tabs approve it.
ApprovedStepRunsOnce == EffectsOnce
=============================================================================
