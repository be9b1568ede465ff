-------------------------- MODULE AgentRun_proofs ---------------------------
(***************************************************************************)
(* Proofs about AgentRun for every plan and revision, every budget, any    *)
(* number of staff tabs, and every interleaving and failure of the calls.  *)
(*                                                                         *)
(* One invariant carries the first three: each copy of the run, and the    *)
(* row, is well formed, within its budget, and has no step marked approved *)
(* that no human approved.  A second one counts: what took effect was      *)
(* audited, or a caller is about to, or a failure lost it.                 *)
(*                                                                         *)
(* Two more are about calls that come one after the other.  With them a    *)
(* caller goes on where the row is, and a cancelled row has nobody at it   *)
(* who would write; and if none fails, a step that took effect or was      *)
(* skipped is behind the cursor of the plan in hand, which has each step   *)
(* once.                                                                   *)
(***************************************************************************)
EXTENDS AgentRun, FiniteSets, FiniteSetTheorems, SequenceTheorems, TLAPS

\* A run in hand, when the steps in given have been approved.
Sound(r, given) ==
  /\ r \in Row
  /\ r.spend <= MaxToolCalls
  /\ \A n \in DOMAIN r.steps : r.steps[n].approved => r.steps[n].id \in given

SoundFrame(f, given) ==
  /\ f \in [pc : Pc, copy : Row]
  /\ Sound(f.copy, given)
  /\ f.pc = "emit" => f.copy.spend < MaxToolCalls

FramesInv == /\ frame \in [Actors -> [pc : Pc, copy : Row]]
             /\ \A a \in Actors : SoundFrame(frame[a], consent)

CountsOK == /\ ran \in [Ids -> Nat] /\ audited \in [Ids -> Nat]
            /\ consent \in SUBSET Ids /\ skips \in SUBSET Ids
            /\ env \in Environment

RunInv == /\ Sound(row, consent) /\ FramesInv /\ CountsOK /\ HumanGate

RunStatus  == {"planning", "running", "awaiting_checkpoint", "completed",
               "exhausted", "failed", "cancelled"}
StepStatus == {"pending", "awaiting_human", "done", "skipped", "blocked"}

-----------------------------------------------------------------------------
(* What the harness does to a run keeps it sound.                          *)

\* The steps a plan_update inserts are new ones, one for each kind in Extra.
LEMMA InsertedSteps ==
  ASSUME NEW id \in Ids
  PROVE  /\ Inserted(id) \in Seq(Step)
         /\ Len(Inserted(id)) = Len(Extra)
         /\ \A n \in 1..Len(Extra) :
              /\ Inserted(id)[n].id = <<id[1], n>>
              /\ ~Inserted(id)[n].approved
<1>1. Len(Plan) \in Nat /\ Len(Extra) \in Nat BY AgentAssumption
<1>2. id[1] \in 1..Len(Plan) BY DEF Ids
<1>3. \A n \in 1..Len(Extra) :
        /\ Fresh(<<id[1], n>>) \in Step
        /\ Fresh(<<id[1], n>>).id = <<id[1], n>> /\ ~Fresh(<<id[1], n>>).approved
  BY <1>1, <1>2 DEF Fresh, Step, Ids
<1> QED BY <1>1, <1>3 DEF Inserted

\* More approvals do not make a run unsound.
LEMMA MoreApprovals ==
  ASSUME NEW r, NEW G, NEW H, G \subseteq H, Sound(r, G)
  PROVE  Sound(r, H)
BY DEF Sound

\* Setting the status,
LEMMA StatusSound ==
  ASSUME NEW r, NEW G, Sound(r, G), NEW s \in RunStatus
  PROVE  /\ Sound([r EXCEPT !.status = s], G)
         /\ [r EXCEPT !.status = s].spend = r.spend
BY DEF Sound, Row, RunStatus

\* moving the cursor on,
LEMMA AdvancedSound ==
  ASSUME NEW r, NEW G, Sound(r, G)
  PROVE  Sound(Advanced(r), G)
BY DEF Sound, Row, Advanced

\* and spending a call that the budget affords keep a run sound.
LEMMA SpentSound ==
  ASSUME NEW r, NEW G, Sound(r, G), r.spend < MaxToolCalls
  PROVE  Sound(Spent(r), G)
BY AgentAssumption DEF Sound, Row, Spent

\* So does replacing the plan by one without unapproved approvals,
LEMMA StepsSound ==
  ASSUME NEW r, NEW G, Sound(r, G), NEW steps \in Seq(Step),
         \A n \in DOMAIN steps : steps[n].approved => steps[n].id \in G
  PROVE  /\ Sound([r EXCEPT !.steps = steps], G)
         /\ [r EXCEPT !.steps = steps].spend = r.spend
BY DEF Sound, Row

\* in particular one with another step under its cursor,
LEMMA PutSound ==
  ASSUME NEW r, NEW G, Sound(r, G), NEW t,
         HasStep(r) => t \in Step /\ (t.approved => t.id \in G)
  PROVE  /\ Sound([r EXCEPT !.steps = [r.steps EXCEPT ![r.cursor] = t]], G)
         /\ [r EXCEPT !.steps = [r.steps EXCEPT ![r.cursor] = t]].spend = r.spend
<1> DEFINE steps == [r.steps EXCEPT ![r.cursor] = t]
<1>1. r.steps \in Seq(Step) BY DEF Sound, Row
<1>2. /\ steps \in Seq(Step)
      /\ \A n \in DOMAIN steps : steps[n].approved => steps[n].id \in G
  <2>1. CASE HasStep(r)
    <3>1. r.cursor \in DOMAIN r.steps /\ t \in Step BY <2>1 DEF HasStep
    <3>2. steps \in Seq(Step) BY <1>1, <3>1
    <3>3. \A n \in DOMAIN steps :
            steps[n] = IF n = r.cursor THEN t ELSE r.steps[n]
      BY <1>1, <3>1
    <3>4. DOMAIN steps = DOMAIN r.steps BY <1>1
    <3> HIDE DEF steps
    <3> QED BY <2>1, <3>2, <3>3, <3>4 DEF Sound
  <2>2. CASE ~HasStep(r)
    <3>1. steps = r.steps BY <1>1, <2>2 DEF HasStep
    <3> QED BY <1>1, <3>1 DEF Sound
  <2> QED BY <2>1, <2>2
<1> HIDE DEF steps
<1>3. /\ Sound([r EXCEPT !.steps = steps], G)
      /\ [r EXCEPT !.steps = steps].spend = r.spend
  BY <1>2, StepsSound
<1> QED BY <1>3 DEF steps

\* one with its current step marked,
LEMMA MarkSound ==
  ASSUME NEW r, NEW G, Sound(r, G), NEW s \in StepStatus
  PROVE  /\ Sound(Mark(r, s), G)
         /\ Mark(r, s).spend = r.spend
<1> DEFINE t == [Now(r) EXCEPT !.status = s]
<1>1. ASSUME HasStep(r) PROVE t \in Step /\ (t.approved => t.id \in G)
  <2>1. Now(r) \in Step /\ (Now(r).approved => Now(r).id \in G)
    BY <1>1 DEF HasStep, Now, Sound, Row
  <2> QED BY <2>1 DEF Step, StepStatus
<1>2. Mark(r, s) = [r EXCEPT !.steps = [r.steps EXCEPT ![r.cursor] = t]]
  BY DEF Mark, Now, Sound, Row
<1> HIDE DEF t
<1> QED BY <1>1, <1>2, PutSound

\* one whose current step failed,
LEMMA FailSound ==
  ASSUME NEW r, NEW G, Sound(r, G)
  PROVE  Sound(Fail(r), G)
<1>1. Fail(r) = [Mark(r, "blocked") EXCEPT !.status = "failed"]
  BY DEF Fail, Mark, Sound, Row
<1>2. Sound(Mark(r, "blocked"), G) BY MarkSound DEF StepStatus
<1> QED BY <1>1, <1>2, StatusSound DEF RunStatus

\* and one that a plan_update has revised.
LEMMA RevisedSound ==
  ASSUME NEW r, NEW G, Sound(r, G), HasStep(r)
  PROVE  /\ Sound(Revised(r), G)
         /\ Revised(r).spend = r.spend
<1> DEFINE before == SubSeq(r.steps, 1, r.cursor)
           after  == SubSeq(r.steps, r.cursor + 1, Len(r.steps))
           new    == Inserted(Now(r).id)
           steps  == before \o new \o after
<1>1. /\ r.steps \in Seq(Step) /\ r.cursor \in 1..Len(r.steps)
      /\ \A n \in 1..Len(r.steps) : /\ r.steps[n] \in Step
                                    /\ r.steps[n].approved => r.steps[n].id \in G
  BY DEF Sound, Row, HasStep
<1> DEFINE Fine(t) == t \in Step /\ (t.approved => t.id \in G)
<1>a. \A n \in 1..Len(r.steps) : Fine(r.steps[n]) BY <1>1
<1> HIDE DEF Fine
<1>2. /\ before \in Seq(Step)
      /\ \A n \in 1..Len(before) : Fine(before[n])
  <2>1. before \in Seq(Step) /\ Len(before) = r.cursor BY <1>1
  <2>2. \A n \in 1..Len(before) : before[n] = r.steps[n] BY <1>1, <2>1
  <2> QED BY <1>1, <1>a, <2>1, <2>2
<1>3. /\ after \in Seq(Step)
      /\ \A n \in 1..Len(after) : Fine(after[n])
  <2>1. after \in Seq(Step) /\ Len(after) = Len(r.steps) - r.cursor BY <1>1
  <2>2. \A n \in 1..Len(after) : after[n] = r.steps[r.cursor + n]
    BY <1>1, <2>1
  <2>3. \A n \in 1..Len(after) : r.cursor + n \in 1..Len(r.steps)
    BY <1>1, <2>1
  <2> HIDE DEF after
  <2> QED BY <1>a, <2>1, <2>2, <2>3
<1>4. /\ new \in Seq(Step)
      /\ \A n \in 1..Len(new) : Fine(new[n])
  <2>1. Now(r).id \in Ids BY <1>1 DEF Now, Step
  <2>2. /\ new \in Seq(Step)
        /\ \A n \in 1..Len(new) : ~new[n].approved
    BY <2>1, InsertedSteps
  <2> QED BY <2>2 DEF Fine
<1> HIDE DEF before, new, after
<1>5. /\ before \o new \in Seq(Step)
      /\ \A n \in 1..Len(before \o new) : Fine((before \o new)[n])
  BY <1>2, <1>4
<1>6. steps \in Seq(Step) /\ \A n \in 1..Len(steps) : Fine(steps[n])
  BY <1>3, <1>5
<1>7. \A n \in DOMAIN steps : steps[n].approved => steps[n].id \in G
  BY <1>6 DEF Fine
<1>8. Revised(r) = r \/ Revised(r) = [r EXCEPT !.steps = steps]
  BY DEF Revised, before, new, after
<1> HIDE DEF steps
<1> QED BY <1>6, <1>7, <1>8, StepsSound

\* An approval marks the step the cursor is on and nothing else.
LEMMA ApprovedSound ==
  ASSUME NEW r, NEW G, Sound(r, G), HasStep(r)
  PROVE  Sound([r EXCEPT !.steps[r.cursor].approved = TRUE,
                         !.steps[r.cursor].status = "pending"],
               G \cup {Now(r).id})
<1> DEFINE H == G \cup {Now(r).id}
           t == [Now(r) EXCEPT !.approved = TRUE, !.status = "pending"]
<1>1. Now(r) \in Step BY DEF HasStep, Now, Sound, Row
<1>2. t \in Step /\ t.id \in H BY <1>1 DEF Step
<1>3. [r EXCEPT !.steps[r.cursor].approved = TRUE,
                !.steps[r.cursor].status = "pending"]
        = [r EXCEPT !.steps = [r.steps EXCEPT ![r.cursor] = t]]
  BY <1>1 DEF Sound, Row, Now, HasStep
<1>4. Sound(r, H) BY MoreApprovals
<1> HIDE DEF t, H
<1>5. Sound([r EXCEPT !.steps = [r.steps EXCEPT ![r.cursor] = t]], H)
  BY <1>2, <1>4, PutSound
<1> QED BY <1>3, <1>5 DEF H

\* A plan that is written to the row leaves the rest of it.
LEMMA PlanWritten ==
  ASSUME NEW r, NEW c, NEW G, Sound(r, G), Sound(c, G)
  PROVE  Sound([r EXCEPT !.steps = c.steps, !.cursor = c.cursor], G)
BY DEF Sound, Row

-----------------------------------------------------------------------------
(* One lemma for each way an action moves a frame.                         *)

\* The caller goes on with a sound run in hand.
LEMMA Continuing ==
  ASSUME FramesInv, NEW a \in Actors, NEW pc \in Pc, NEW r,
         Continue(a, pc, r), consent \subseteq consent', Sound(r, consent'),
         pc = "emit" => r.spend < MaxToolCalls
  PROVE  FramesInv'
<1> DEFINE f == [pc |-> pc, copy |-> r]
<1>1. r \in Row BY DEF Sound
<1>2. f \in [pc : Pc, copy : Row] /\ f.pc = pc /\ f.copy = r BY <1>1
<1>3. frame' = [frame EXCEPT ![a] = f] BY DEF Continue
<1> HIDE DEF f
<1>4. SoundFrame(f, consent') BY <1>2 DEF SoundFrame
<1>5. ASSUME NEW b \in Actors, b # a PROVE SoundFrame(frame'[b], consent')
  <2>1. frame'[b] = frame[b] BY <1>3, <1>5 DEF FramesInv
  <2> QED BY <2>1, MoreApprovals DEF FramesInv, SoundFrame
<1> QED BY <1>2, <1>3, <1>4, <1>5 DEF FramesInv

\* The caller goes on with the run it has.
LEMMA Going ==
  ASSUME FramesInv, NEW a \in Actors, NEW pc \in Pc \ {"emit"}, GoTo(a, pc),
         UNCHANGED consent
  PROVE  FramesInv'
<1>1. frame[a] \in [pc : Pc, copy : Row] /\ Sound(Copy(a), consent)
  BY DEF FramesInv, SoundFrame, Copy
<1>2. [frame[a] EXCEPT !.pc = pc] = [pc |-> pc, copy |-> Copy(a)]
  BY <1>1 DEF Copy
<1>3. frame' = [frame EXCEPT ![a] = [frame[a] EXCEPT !.pc = pc]]
  BY DEF GoTo
<1>4. Continue(a, pc, Copy(a)) BY <1>2, <1>3 DEF Continue
<1> QED BY <1>1, <1>4, Continuing

\* A run as it was planned is sound.
LEMMA PlannedSound == \A k \in 0..Len(Plan) : Sound(PlannedRow(k), {})
<1> SUFFICES ASSUME NEW k \in 0..Len(Plan) PROVE Sound(PlannedRow(k), {}) OBVIOUS
<1>1. Len(Plan) \in Nat /\ Len(Extra) \in Nat BY AgentAssumption
<1>2. \A n \in 1..k : Fresh(<<n, 0>>) \in Step /\ ~Fresh(<<n, 0>>).approved
  BY <1>1 DEF Fresh, Step, Ids
<1>3. PlannedRow(k).steps \in Seq(Step) BY <1>1, <1>2 DEF PlannedRow
<1>4. \A n \in DOMAIN PlannedRow(k).steps : ~PlannedRow(k).steps[n].approved
  BY <1>1, <1>2 DEF PlannedRow
<1>5. PlannedRow(k) \in Row BY <1>3 DEF PlannedRow, Row
<1> QED BY <1>4, <1>5, AgentAssumption DEF Sound, PlannedRow

\* A call that ends leaves an empty plan in its frame.
LEMMA Finishing ==
  ASSUME FramesInv, NEW a \in Actors, Finish(a), UNCHANGED consent
  PROVE  FramesInv'
<1>1. Continue(a, "idle", PlannedRow(0)) BY DEF Finish, Continue, Idle
<1>2. Sound(PlannedRow(0), {}) BY PlannedSound, AgentAssumption
<1>3. Sound(PlannedRow(0), consent) BY <1>2, MoreApprovals
<1> QED BY <1>1, <1>3, Continuing DEF Pc

-----------------------------------------------------------------------------
(* The steps.                                                              *)

\* The invariant gives each caller a sound run in hand.
LEMMA InHand ==
  ASSUME FramesInv, NEW a \in Actors
  PROVE  /\ Sound(Copy(a), consent) /\ Copy(a) \in Row
         /\ frame[a].pc = "emit" => Copy(a).spend < MaxToolCalls
BY DEF FramesInv, SoundFrame, Copy, Sound

\* The step under the cursor is one of the plan's.
LEMMA NowIsStep ==
  ASSUME NEW r \in Row, HasStep(r)
  PROVE  Now(r) \in Step /\ Now(r).id \in Ids
<1>1. r.steps \in Seq(Step) /\ r.cursor \in DOMAIN r.steps
  BY DEF Row, HasStep
<1>2. Now(r) \in Step BY <1>1 DEF Now
<1> QED BY <1>2 DEF Step

\* A capability that the harness lets take effect was approved if it has to be.
LEMMA EffectAllowed ==
  ASSUME NEW r, Sound(r, consent), HasStep(r), Allowed(r),
         CountsOK, HumanGate,
         ran' = [ran EXCEPT ![Now(r).id] = @ + 1],
         UNCHANGED <<audited, consent, skips, env>>
  PROVE  CountsOK' /\ HumanGate'
<1> DEFINE i == Now(r).id
<1>1. i \in Ids BY NowIsStep DEF Sound
<1>2. Kinds[i] # "forbidden" /\ (Kinds[i] = "gated" => i \in consent)
  <2>1. Now(r).approved => Now(r).id \in consent BY DEF Sound, HasStep, Now
  <2> QED BY <2>1 DEF Allowed, Kind
<1>3. ran' = [ran EXCEPT ![i] = @ + 1] OBVIOUS
<1> HIDE DEF i
<1>4. ran' \in [Ids -> Nat] BY <1>1, <1>3 DEF CountsOK
<1>5. \A id \in Ids : id # i => ran'[id] = ran[id] BY <1>3 DEF CountsOK
<1>6. CountsOK' BY <1>4 DEF CountsOK
<1>7. HumanGate' BY <1>2, <1>5 DEF HumanGate
<1> QED BY <1>6, <1>7

\* A step that counts nothing leaves what was counted as it is.
LEMMA NothingCounted ==
  ASSUME CountsOK, HumanGate, UNCHANGED <<ghosts, env>>
  PROVE  CountsOK' /\ HumanGate' /\ consent' = consent
BY DEF CountsOK, HumanGate, ghosts

\* The run as planned satisfies the invariant.
LEMMA InitSound == Init => RunInv
<1> SUFFICES ASSUME Init PROVE RunInv OBVIOUS
<1>0. PICK k \in 1..Len(Plan) :
        /\ row = PlannedRow(k)
        /\ frame = [a \in Actors |->
                      IF a = Runner
                      THEN [pc |-> "loop",
                            copy |-> [PlannedRow(k) EXCEPT !.status = "running"]]
                      ELSE Idle]
  BY DEF Init
<1>1. /\ Sound(PlannedRow(k), {}) /\ PlannedRow(k) \in Row
      /\ Sound(PlannedRow(0), {}) /\ PlannedRow(0) \in Row
  <2>1. 0 \in 0..Len(Plan) /\ k \in 0..Len(Plan) BY AgentAssumption
  <2> QED BY <2>1, PlannedSound DEF Sound
<1> DEFINE g == [PlannedRow(k) EXCEPT !.status = "running"]
<1>2. Sound(g, {}) BY <1>1, StatusSound DEF RunStatus
<1>3. g \in Row BY <1>2 DEF Sound
<1> HIDE DEF g
<1>4. \A a \in Actors : \/ frame[a] = [pc |-> "loop", copy |-> g]
                        \/ frame[a] = [pc |-> "idle", copy |-> PlannedRow(0)]
  BY <1>0 DEF Idle, g
<1>5. \A a \in Actors : SoundFrame(frame[a], {})
  BY <1>1, <1>2, <1>3, <1>4 DEF SoundFrame, Pc
<1>6. DOMAIN frame = Actors /\ frame = [a \in Actors |-> frame[a]]
  BY <1>0
<1>7. frame \in [Actors -> [pc : Pc, copy : Row]]
  BY <1>5, <1>6 DEF SoundFrame
<1>8. consent = {} /\ row = PlannedRow(k) BY <1>0 DEF Init
<1>9. CountsOK BY AgentAssumption DEF Init, CountsOK
<1>10. HumanGate BY DEF Init, HumanGate
<1> QED BY <1>1, <1>5, <1>7, <1>8, <1>9, <1>10 DEF RunInv, FramesInv

\* What the harness does outside keeps the invariant.
LEMMA ExecuteSound ==
  ASSUME RunInv, NEW a \in Actors, Execute(a)
  PROVE  RunInv'
<1> DEFINE r == Copy(a)
           m == Mark(r, "done")
<1>1. Sound(r, consent) /\ r \in Row BY InHand DEF RunInv
<1>2. HasStep(r) /\ Affords(r) /\ Allowed(r) BY DEF Execute, Looping
<1>3. CountsOK' /\ HumanGate'
  BY <1>1, <1>2, EffectAllowed DEF Execute, RunInv
<1>4. Sound(m, consent) /\ m.spend = r.spend
  BY <1>1, MarkSound DEF StepStatus
<1>5. HasStep(m) BY <1>1, <1>2 DEF HasStep, Mark, Row
<1>6. Continue(a, "emit", Revised(m)) /\ UNCHANGED <<row, consent>>
  BY DEF Execute
<1> HIDE DEF m, r
<1>7. Sound(Revised(m), consent) /\ Revised(m).spend < MaxToolCalls
  BY <1>2, <1>4, <1>5, RevisedSound DEF Affords
<1>8. FramesInv' BY <1>6, <1>7, Continuing DEF RunInv, Pc
<1> QED BY <1>3, <1>6, <1>8 DEF RunInv

LEMMA ThrowsSound ==
  ASSUME RunInv, NEW a \in Actors, CapabilityThrows(a)
  PROVE  RunInv'
<1> DEFINE r == Copy(a)
<1>1. Sound(r, consent) /\ HasStep(r) /\ Allowed(r)
  BY InHand DEF RunInv, CapabilityThrows, Looping
<1>2. UNCHANGED <<row, audited, consent, skips, env>> BY DEF CapabilityThrows
<1>3. CountsOK' /\ HumanGate'
  <2>1. CASE ran' = [ran EXCEPT ![Now(r).id] = @ + 1]
    BY <1>1, <1>2, <2>1, EffectAllowed DEF RunInv
  <2>2. CASE UNCHANGED ran
    BY <1>2, <2>2, NothingCounted DEF RunInv, ghosts
  <2> QED BY <2>1, <2>2 DEF CapabilityThrows
<1>4. Sound(Fail(r), consent) BY <1>1, FailSound
<1>5. FramesInv'
  BY <1>2, <1>4, Continuing DEF CapabilityThrows, RunInv, Pc
<1> QED BY <1>2, <1>3, <1>5 DEF RunInv

\* A run that stops is parked as it is;
LEMMA StoppingSound ==
  ASSUME RunInv, NEW a \in Actors,
         Exhaust(a) \/ Checkpoint(a) \/ Refuse(a) \/ EmitThrows(a)
                    \/ SaveThrows(a)
  PROVE  RunInv'
<1> DEFINE r == Copy(a)
<1>1. Sound(r, consent) /\ (frame[a].pc = "emit" => r.spend < MaxToolCalls)
  BY InHand DEF RunInv
<1>2. UNCHANGED <<row, ghosts, env>>
  BY DEF Exhaust, Checkpoint, Refuse, EmitThrows, SaveThrows
<1>3. CountsOK' /\ HumanGate' /\ consent' = consent
  BY <1>2, NothingCounted DEF RunInv
<1>4. \E s : Continue(a, "park", s) /\ Sound(s, consent)
  <2>1. CASE Exhaust(a)
    BY <1>1, <2>1, StatusSound DEF Exhaust, RunStatus
  <2>2. CASE Checkpoint(a)
    <3>1. Sound(Mark(r, "awaiting_human"), consent)
      BY <1>1, MarkSound DEF StepStatus
    <3>2. Sound([Mark(r, "awaiting_human") EXCEPT
                   !.status = "awaiting_checkpoint"], consent)
      BY <3>1, StatusSound DEF RunStatus
    <3> QED BY <2>2, <3>2 DEF Checkpoint
  <2>3. CASE Refuse(a) BY <1>1, <2>3, FailSound DEF Refuse
  <2>4. CASE EmitThrows(a)
    BY <1>1, <2>4, SpentSound, FailSound DEF EmitThrows
  <2>5. CASE SaveThrows(a)
    BY <1>1, <2>5, AdvancedSound, FailSound DEF SaveThrows
  <2> QED BY <2>1, <2>2, <2>3, <2>4, <2>5
<1>5. FramesInv' BY <1>3, <1>4, Continuing DEF RunInv, Pc
<1> QED BY <1>2, <1>3, <1>5 DEF RunInv

\* one that goes on is persisted with its cursor behind the step.
LEMMA EmitSound ==
  ASSUME RunInv, NEW a \in Actors, Emit(a)
  PROVE  RunInv'
<1> DEFINE r == Copy(a)
<1>1. Sound(Spent(r), consent) BY InHand, SpentSound DEF RunInv, Emit
<1>2. UNCHANGED <<row, ran, consent, skips, env>> BY DEF Emit
<1>3. FramesInv' BY <1>1, <1>2, Continuing DEF Emit, RunInv, Pc
<1>4. CountsOK'
  <2>1. audited' \in [Ids -> Nat]
    <3> DEFINE i == Now(r).id
    <3>1. audited' = [audited EXCEPT ![i] = @ + 1] BY DEF Emit
    <3> HIDE DEF i
    <3>2. audited \in [Ids -> Nat] BY DEF RunInv, CountsOK
    <3>3. CASE i \in Ids BY <3>1, <3>2, <3>3
    <3>4. CASE i \notin Ids
      <4>1. audited' = audited BY <3>1, <3>2, <3>4
      <4> QED BY <3>2, <4>1
    <3> QED BY <3>3, <3>4
  <2> QED BY <1>2, <2>1 DEF RunInv, CountsOK
<1>5. HumanGate' BY <1>2 DEF RunInv, HumanGate
<1> QED BY <1>2, <1>3, <1>4, <1>5 DEF RunInv

LEMMA WriteSound ==
  ASSUME RunInv, NEW a \in Actors,
         Save(a) \/ Complete(a) \/ Park(a) \/ Return(a)
  PROVE  RunInv'
<1> DEFINE r == Copy(a)
<1>1. Sound(r, consent) BY InHand DEF RunInv
<1>2. CountsOK' /\ HumanGate' /\ consent' = consent
  BY NothingCounted DEF RunInv, Save, Complete, Park, Return
<1>3. CASE Save(a)
  <2>1. Sound(Advanced(r), consent) BY <1>1, AdvancedSound
  <2>2. FramesInv' BY <1>2, <1>3, <2>1, Continuing DEF Save, RunInv, Pc
  <2> QED BY <1>2, <1>3, <2>1, <2>2 DEF Save, RunInv
<1>4. CASE Complete(a)
  <2>1. Sound([r EXCEPT !.status = "completed"], consent)
    BY <1>1, StatusSound DEF RunStatus
  <2>2. Sound(row', consent) /\ Continue(a, "return", row')
    BY <1>4, <2>1 DEF Complete
  <2>3. FramesInv' BY <1>2, <2>2, Continuing DEF RunInv, Pc
  <2> QED BY <1>2, <2>2, <2>3 DEF RunInv
<1>5. CASE Park(a)
  <2>1. FramesInv' BY <1>2, <1>5, Going DEF Park, RunInv, Pc
  <2> QED BY <1>1, <1>2, <1>5, <2>1 DEF Park, RunInv
<1>6. CASE Return(a)
  <2>1. FramesInv' BY <1>2, <1>6, Going, Finishing DEF Return, RunInv, Pc
  <2> QED BY <1>1, <1>2, <1>6, <2>1 DEF Return, RunInv
<1> QED BY <1>3, <1>4, <1>5, <1>6

\* A steering call takes the row in hand,
LEMMA LoadSound ==
  ASSUME RunInv, NEW a \in Actors, Approve(a) \/ Skip(a) \/ Cancel(a)
  PROVE  RunInv'
<1>1. Sound(row, consent) /\ row \in Row BY DEF RunInv, Sound
<1>2. UNCHANGED <<row, ran, audited>> /\ env' = [env EXCEPT !.calls = @ - 1]
      /\ env.calls > 0
  BY DEF Approve, Skip, Cancel, Load
<1>3. env' \in Environment BY <1>2 DEF RunInv, CountsOK, Environment
<1>4. consent \subseteq consent' /\ CountsOK'
  <2>1. CASE Approve(a)
    BY <1>1, <1>2, <1>3, <2>1, NowIsStep DEF Approve, RunInv, CountsOK
  <2>2. CASE Skip(a)
    BY <1>1, <1>2, <1>3, <2>2, NowIsStep DEF Skip, RunInv, CountsOK
  <2>3. CASE Cancel(a)
    BY <1>2, <1>3, <2>3 DEF Cancel, RunInv, CountsOK
  <2> QED BY <2>1, <2>2, <2>3
<1>5. \E pc \in Pc \ {"emit"} : \E s : Continue(a, pc, s) /\ Sound(s, consent')
  <2>1. CASE Approve(a)
    <3> DEFINE s == [row EXCEPT !.steps[row.cursor].approved = TRUE,
                                !.steps[row.cursor].status = "pending"]
    <3>1. Sound(s, consent') BY <1>1, <2>1, ApprovedSound DEF Approve
    <3>2. Continue(a, "approve", s) BY <2>1 DEF Approve, Load
    <3> HIDE DEF s
    <3> QED BY <3>1, <3>2 DEF Pc
  <2>2. CASE Skip(a)
    <3> DEFINE s == Advanced(Mark(row, "skipped"))
    <3>1. Sound(s, consent') BY <1>1, <2>2, MarkSound, AdvancedSound
                             DEF Skip, StepStatus
    <3>2. Continue(a, "skip", s) BY <2>2 DEF Skip, Load
    <3> HIDE DEF s
    <3> QED BY <3>1, <3>2 DEF Pc
  <2>3. CASE Cancel(a)
    BY <1>1, <2>3 DEF Cancel, Load, Pc
  <2> QED BY <2>1, <2>2, <2>3
<1>6. FramesInv' BY <1>4, <1>5, Continuing DEF RunInv
<1>7. Sound(row', consent') BY <1>1, <1>2, <1>4, MoreApprovals
<1>8. HumanGate' BY <1>2, <1>4 DEF RunInv, HumanGate
<1> QED BY <1>4, <1>6, <1>7, <1>8 DEF RunInv

\* writes it, logs, and may be cut off anywhere.
LEMMA SteeringSound ==
  ASSUME RunInv, NEW a \in Actors,
         PlanWrite(a) \/ CancelWrite(a) \/ LogSteering(a) \/ Abort(a)
  PROVE  RunInv'
<1> DEFINE r == Copy(a)
<1>1. Sound(r, consent) /\ Sound(row, consent) BY InHand DEF RunInv
<1>2. CountsOK' /\ HumanGate' /\ consent' = consent
  BY NothingCounted DEF RunInv, PlanWrite, CancelWrite, LogSteering, Abort
<1>3. CASE PlanWrite(a)
  <2>1. Sound(row', consent) BY <1>1, <1>3, PlanWritten DEF PlanWrite
  <2>2. Sound([r EXCEPT !.status = "running"], consent)
    BY <1>1, StatusSound DEF RunStatus
  <2>3. FramesInv' BY <1>2, <1>3, <2>2, Continuing DEF PlanWrite, RunInv, Pc
  <2> QED BY <1>2, <2>1, <2>3 DEF RunInv
<1>4. CASE CancelWrite(a)
  <2>1. Sound(row', consent)
    BY <1>1, <1>4, StatusSound DEF CancelWrite, RunStatus
  <2>2. FramesInv' BY <1>2, <1>4, Going DEF CancelWrite, RunInv, Pc
  <2> QED BY <1>2, <2>1, <2>2 DEF RunInv
<1>5. CASE LogSteering(a) \/ Abort(a)
  <2>1. FramesInv' BY <1>2, <1>5, Finishing DEF LogSteering, Abort, RunInv
  <2> QED BY <1>1, <1>2, <1>5, <2>1 DEF LogSteering, Abort, RunInv
<1> QED BY <1>3, <1>4, <1>5

\* Every step keeps the invariant.
LEMMA StepSound == RunInv /\ [Next]_vars => RunInv'
<1> SUFFICES ASSUME RunInv, [Next]_vars PROVE RunInv' OBVIOUS
<1>1. CASE UNCHANGED vars
  BY <1>1 DEF vars, ghosts, RunInv, Sound, FramesInv, SoundFrame, CountsOK,
              HumanGate
<1>2. ASSUME NEW a \in Actors, Harness(a) \/ Steering(a) \/ Trouble(a)
                               \/ Approve(a) \/ Skip(a) \/ Cancel(a)
      PROVE  RunInv'
  BY <1>2, ExecuteSound, ThrowsSound, StoppingSound, EmitSound, WriteSound,
     LoadSound, SteeringSound DEF Harness, Steering, Trouble
<1> QED BY <1>1, <1>2 DEF Next

\* The invariant holds throughout.
LEMMA RunInvariant == Spec => []RunInv
BY InitSound, StepSound, PTL DEF Spec

-----------------------------------------------------------------------------
(* The theorems.                                                           *)

\* Every reachable state is well typed.
THEOREM RunTypeCorrect == Spec => []TypeOK
<1>1. RunInv => TypeOK
  BY DEF RunInv, Sound, FramesInv, CountsOK, TypeOK
<1> QED BY <1>1, RunInvariant, PTL

\* Whatever the plan is, however tabs race and wherever processes die, a
\* forbidden action never takes effect and a gated one only once a human
\* approved that very step.
THEOREM HumansGate == Spec => []HumanGate
<1>1. RunInv => HumanGate BY DEF RunInv
<1> QED BY <1>1, RunInvariant, PTL

\* No copy of a run, and no row, spends more tool calls than its budget.
THEOREM BudgetKept == Spec => []SpendWithinBudget
<1>1. ASSUME RunInv PROVE SpendWithinBudget
  <2>1. \A a \in Actors : Copy(a).spend <= MaxToolCalls
    BY <1>1, InHand DEF RunInv, Sound
  <2> QED BY <1>1, <2>1 DEF RunInv, Sound, SpendWithinBudget
<1> QED BY <1>1, RunInvariant, PTL
-----------------------------------------------------------------------------
(* Counting effects and events.                                            *)

\* The callers between a step's effect and its event.
Emitting(id) == {a \in Actors : frame[a].pc = "emit" /\ Now(Copy(a)).id = id}

Accounted(id) ==
  /\ IsFiniteSet(Emitting(id))
  /\ audited[id] + Cardinality(Emitting(id)) <= ran[id]
  /\ Faultless => audited[id] + Cardinality(Emitting(id)) = ran[id]

AuditInv == \A id \in Ids : Accounted(id)

\* A revision goes in behind the step that was marked, which stays under the
\* cursor.
LEMMA MarkedStays ==
  ASSUME NEW r \in Row, HasStep(r)
  PROVE  Now(Revised(Mark(r, "done"))).id = Now(r).id
<1> DEFINE m == Mark(r, "done")
           before == SubSeq(m.steps, 1, m.cursor)
           after  == SubSeq(m.steps, m.cursor + 1, Len(m.steps))
<1>1. r.steps \in Seq(Step) /\ r.cursor \in 1..Len(r.steps)
  BY DEF Row, HasStep
<1>2. PICK t \in Step : t = r.steps[r.cursor] BY <1>1
<1>3. PICK u \in Step : u.id = t.id /\ u = [t EXCEPT !.status = "done"]
  BY DEF Step
<1>4. /\ m.steps = [r.steps EXCEPT ![r.cursor] = u]
      /\ m.cursor = r.cursor
  BY <1>2, <1>3 DEF Mark, Row
<1> HIDE DEF m, before, after
<1>m. m.steps \in Seq(Step) /\ Len(m.steps) = Len(r.steps)
  BY <1>1, <1>4
<1>n. m.steps[r.cursor].id = r.steps[r.cursor].id
  <2>1. m.steps[r.cursor] = u BY <1>1, <1>4
  <2> QED BY <1>2, <1>3, <2>1
<1>5. CASE Kind(m) # "revise" BY <1>4, <1>n, <1>5 DEF Revised, Now, m
<1>6. CASE Kind(m) = "revise"
  <2> USE DEF before, after
  <2>1. before \in Seq(Step) /\ Len(before) = r.cursor
        /\ before[r.cursor] = m.steps[r.cursor]
    BY <1>1, <1>4, <1>m
  <2>2. after \in Seq(Step) BY <1>1, <1>4, <1>m
  <2>3. PICK new \in Seq(Step) : new = Inserted(Now(m).id)
    <3>1. Now(m).id \in Ids BY <1>1, <1>4, <1>m DEF Now, Step
    <3> QED BY <3>1, InsertedSteps
  <2>4. Revised(m) = [m EXCEPT !.steps = before \o new \o after]
    BY <1>6, <2>3 DEF Revised
  <2> HIDE DEF before, after
  <2>5. (before \o new \o after)[r.cursor] = before[r.cursor]
    BY <1>1, <2>1, <2>2, <2>3
  <2>6. DOMAIN m = {"status", "steps", "cursor", "spend"}
    BY DEF m, Mark, Row
  <2>7. /\ Revised(m).steps = before \o new \o after
        /\ Revised(m).cursor = m.cursor
    BY <2>4, <2>6
  <2> QED BY <1>4, <1>n, <2>1, <2>5, <2>7 DEF Now, m
<1> QED BY <1>5, <1>6

\* A caller with nothing left to emit is in no Emitting set.
LEMMA LeavesEmitting ==
  ASSUME FramesInv, NEW a \in Actors, NEW f, f.pc # "emit",
         frame' = [frame EXCEPT ![a] = f], NEW id \in Ids
  PROVE  Emitting(id)' = Emitting(id) \ {a}
<1>1. frame'[a] = f /\ \A b \in Actors : b # a => frame'[b] = frame[b]
  BY DEF FramesInv
<1> QED BY <1>1 DEF Emitting, Copy

\* A step that has no effect, or that fails, keeps the accounts, if who was
\* about to emit is cut off by failures only.
LEMMA OtherAccounted ==
  ASSUME RunInv, AuditInv, NEW a \in Actors, NEW f, f.pc # "emit",
         frame' = [frame EXCEPT ![a] = f],
         env'.fail = env.fail, UNCHANGED audited,
         \/ UNCHANGED ran /\ (frame[a].pc = "emit" => env.fail)
         \/ env.fail /\ \E i \in Ids : ran' = [ran EXCEPT ![i] = @ + 1]
  PROVE  AuditInv'
<1> SUFFICES ASSUME NEW id \in Ids PROVE Accounted(id)' BY DEF AuditInv
<1>1. /\ Accounted(id) /\ ran[id] \in Nat /\ audited[id] \in Nat
      /\ ran \in [Ids -> Nat] /\ FramesInv
  BY DEF AuditInv, RunInv, CountsOK
<1>2. Emitting(id)' = Emitting(id) \ {a} BY <1>1, LeavesEmitting
<1> DEFINE E == Emitting(id)
<1>3. PICK D : D = E \ {a} OBVIOUS
<1>4. PICK r1 : r1 = ran'[id] OBVIOUS
<1>5. IsFiniteSet(E) /\ Cardinality(E) \in Nat
      /\ audited[id] + Cardinality(E) <= ran[id]
      /\ (~env.fail => audited[id] + Cardinality(E) = ran[id])
  BY <1>1, FS_CardinalityType DEF Accounted, Faultless
<1>6. IsFiniteSet(D) /\ Cardinality(D) \in Nat /\ Cardinality(D) <= Cardinality(E)
  BY <1>3, <1>5, FS_Subset, FS_CardinalityType
<1>7. r1 \in Nat /\ r1 >= ran[id]
  BY <1>1, <1>4
<1>8. ~env.fail => r1 = ran[id] /\ D = E
  BY <1>3, <1>4 DEF Emitting
<1> HIDE DEF E
<1>9. /\ audited[id] + Cardinality(D) <= r1
      /\ ~env.fail => audited[id] + Cardinality(D) = r1
  BY <1>1, <1>5, <1>6, <1>7, <1>8
<1> QED BY <1>2, <1>3, <1>4, <1>6, <1>9 DEF Accounted, Faultless, E

LEMMA ExecuteAccounted ==
  ASSUME RunInv, AuditInv, NEW a \in Actors, Execute(a)
  PROVE  AuditInv'
<1> SUFFICES ASSUME NEW id \in Ids PROVE Accounted(id)' BY DEF AuditInv
<1>1. /\ Accounted(id) /\ ran[id] \in Nat /\ audited[id] \in Nat
      /\ ran \in [Ids -> Nat] /\ FramesInv
  BY DEF AuditInv, RunInv, CountsOK
<1>2. PICK c : c = Copy(a) OBVIOUS
<1>3. PICK i : i = Now(c).id OBVIOUS
<1>4. c \in Row /\ HasStep(c) BY <1>1, <1>2, InHand DEF Execute, Looping
<1>5. PICK r : r = Revised(Mark(c, "done")) OBVIOUS
<1>6. Now(r).id = i BY <1>3, <1>4, <1>5, MarkedStays
<1>7. i \in Ids BY <1>3, <1>4, NowIsStep
<1>8. /\ frame[a].pc = "loop"
      /\ frame' = [frame EXCEPT ![a] = [pc |-> "emit", copy |-> r]]
      /\ ran' = [ran EXCEPT ![i] = @ + 1]
      /\ UNCHANGED <<audited, env>>
  BY <1>2, <1>3, <1>5 DEF Execute, Looping, Continue
<1>9. /\ frame'[a] = [pc |-> "emit", copy |-> r]
      /\ \A b \in Actors : b # a => frame'[b] = frame[b]
  BY <1>1, <1>8 DEF FramesInv
<1>10. PICK E : E = Emitting(id) OBVIOUS
<1>11. PICK n : n = Cardinality(E) OBVIOUS
<1>12. /\ IsFiniteSet(E) /\ n \in Nat /\ audited[id] + n <= ran[id]
       /\ ~env.fail => audited[id] + n = ran[id]
  BY <1>1, <1>10, <1>11, FS_CardinalityType DEF Accounted, Faultless
<1>13. CASE id = i
  <2>1. Emitting(id)' = E \cup {a} BY <1>6, <1>9, <1>10, <1>13 DEF Emitting, Copy
  <2>2. a \notin E BY <1>8, <1>10 DEF Emitting
  <2>3. IsFiniteSet(E \cup {a}) /\ Cardinality(E \cup {a}) = n + 1
    BY <1>11, <1>12, <2>2, FS_AddElement
  <2>4. ran'[id] = ran[id] + 1 BY <1>1, <1>8, <1>13
  <2>5. /\ audited[id] + (n + 1) <= ran[id] + 1
        /\ ~env.fail => audited[id] + (n + 1) = ran[id] + 1
    BY <1>1, <1>12
  <2> QED BY <1>8, <2>1, <2>3, <2>4, <2>5 DEF Accounted, Faultless
<1>14. CASE id # i
  <2>1. Emitting(id)' = E
    BY <1>6, <1>8, <1>9, <1>10, <1>14 DEF Emitting, Copy
  <2>2. ran'[id] = ran[id] BY <1>1, <1>8, <1>14
  <2> QED BY <1>8, <1>11, <1>12, <2>1, <2>2 DEF Accounted, Faultless
<1> QED BY <1>13, <1>14

LEMMA EmitAccounted ==
  ASSUME RunInv, AuditInv, NEW a \in Actors, Emit(a)
  PROVE  AuditInv'
<1> SUFFICES ASSUME NEW id \in Ids PROVE Accounted(id)' BY DEF AuditInv
<1>1. /\ Accounted(id) /\ ran[id] \in Nat /\ audited[id] \in Nat
      /\ audited \in [Ids -> Nat] /\ FramesInv
  BY DEF AuditInv, RunInv, CountsOK
<1>2. PICK i : i = Now(Copy(a)).id OBVIOUS
<1>3. PICK f : f = [pc |-> "save", copy |-> Spent(Copy(a))] OBVIOUS
<1>4. /\ frame[a].pc = "emit"
      /\ frame' = [frame EXCEPT ![a] = f]
      /\ audited' = [audited EXCEPT ![i] = @ + 1]
      /\ UNCHANGED <<ran, env>>
  BY <1>2, <1>3 DEF Emit, Continue
<1>5. f.pc # "emit" BY <1>3
<1>6. Emitting(id)' = Emitting(id) \ {a}
  BY <1>1, <1>4, <1>5, LeavesEmitting
<1>7. PICK E : E = Emitting(id) OBVIOUS
<1>8. PICK n : n = Cardinality(E) OBVIOUS
<1>9. /\ IsFiniteSet(E) /\ n \in Nat /\ audited[id] + n <= ran[id]
      /\ ~env.fail => audited[id] + n = ran[id]
  BY <1>1, <1>7, <1>8, FS_CardinalityType DEF Accounted, Faultless
<1>10. CASE id = i
  <2>1. a \in E BY <1>2, <1>4, <1>7, <1>10 DEF Emitting
  <2>2. IsFiniteSet(E \ {a}) /\ Cardinality(E \ {a}) = n - 1
    BY <1>8, <1>9, <2>1, FS_RemoveElement
  <2>3. audited'[id] = audited[id] + 1 BY <1>1, <1>4, <1>10
  <2>4. /\ (audited[id] + 1) + (n - 1) <= ran[id]
        /\ ~env.fail => (audited[id] + 1) + (n - 1) = ran[id]
    BY <1>1, <1>9
  <2> QED BY <1>4, <1>6, <1>7, <2>2, <2>3, <2>4 DEF Accounted, Faultless
<1>11. CASE id # i
  <2>1. E \ {a} = E BY <1>2, <1>7, <1>11 DEF Emitting
  <2>2. audited'[id] = audited[id] BY <1>1, <1>4, <1>11
  <2> QED BY <1>4, <1>6, <1>7, <1>8, <1>9, <2>1, <2>2 DEF Accounted, Faultless
<1> QED BY <1>10, <1>11

\* Every step keeps the accounts.
LEMMA StepAccounted == RunInv /\ AuditInv /\ [Next]_vars => AuditInv'
<1> SUFFICES ASSUME RunInv, AuditInv, [Next]_vars PROVE AuditInv' OBVIOUS
<1>1. CASE UNCHANGED vars
  BY <1>1 DEF vars, ghosts, AuditInv, Accounted, Emitting, Copy, Faultless
<1>2. env \in Environment BY DEF RunInv, CountsOK
<1>3. ASSUME NEW a \in Actors,
             Exhaust(a) \/ Checkpoint(a) \/ Refuse(a) \/ EmitThrows(a)
               \/ SaveThrows(a) \/ Save(a) \/ Complete(a) \/ PlanWrite(a)
      PROVE  AuditInv'
  <2>1. \E pc \in Pc \ {"emit"} : \E r : Continue(a, pc, r)
    BY <1>3 DEF Exhaust, Checkpoint, Refuse, EmitThrows, SaveThrows, Save,
                Complete, PlanWrite, Pc
  <2>a. PICK pc \in Pc \ {"emit"} : \E r : Continue(a, pc, r) BY <2>1
  <2>2. PICK r : Continue(a, pc, r) BY <2>a
  <2>3. PICK f : f = [pc |-> pc, copy |-> r] OBVIOUS
  <2>4. frame' = [frame EXCEPT ![a] = f] /\ f.pc # "emit"
    BY <2>2, <2>3 DEF Continue
  <2>5. UNCHANGED <<audited, ran, env>> /\ (frame[a].pc = "emit" => env.fail)
    BY <1>3 DEF Exhaust, Checkpoint, Refuse, EmitThrows, SaveThrows, Save,
                Complete, PlanWrite, Looping, ghosts
  <2> QED BY <2>4, <2>5, OtherAccounted
<1>4. ASSUME NEW a \in Actors, Approve(a) \/ Skip(a) \/ Cancel(a)
      PROVE  AuditInv'
  <2>1. \E pc \in Pc \ {"emit"} : \E r : Continue(a, pc, r)
    BY <1>4 DEF Approve, Skip, Cancel, Load, Pc
  <2>a. PICK pc \in Pc \ {"emit"} : \E r : Continue(a, pc, r) BY <2>1
  <2>2. PICK r : Continue(a, pc, r) BY <2>a
  <2>3. PICK f : f = [pc |-> pc, copy |-> r] OBVIOUS
  <2>4. frame' = [frame EXCEPT ![a] = f] /\ f.pc # "emit"
    BY <2>2, <2>3 DEF Continue
  <2>5. /\ UNCHANGED <<audited, ran>> /\ frame[a].pc = "idle"
        /\ env' = [env EXCEPT !.calls = @ - 1]
    BY <1>4 DEF Approve, Skip, Cancel, Load
  <2>6. env'.fail = env.fail BY <1>2, <2>5 DEF Environment
  <2> QED BY <2>4, <2>5, <2>6, OtherAccounted
<1>5. ASSUME NEW a \in Actors, CapabilityThrows(a) PROVE AuditInv'
  <2>1. PICK f : f = [pc |-> "park", copy |-> Fail(Copy(a))] OBVIOUS
  <2>2. frame' = [frame EXCEPT ![a] = f] /\ f.pc # "emit"
    BY <1>5, <2>1 DEF CapabilityThrows, Continue
  <2>3. Copy(a) \in Row /\ HasStep(Copy(a))
    BY <1>5, InHand DEF RunInv, CapabilityThrows, Looping
  <2>4. Now(Copy(a)).id \in Ids BY <2>3, NowIsStep
  <2>5. PICK i \in Ids : i = Now(Copy(a)).id BY <2>4
  <2>6. /\ UNCHANGED <<audited, env>> /\ env.fail /\ frame[a].pc = "loop"
        /\ (UNCHANGED ran \/ ran' = [ran EXCEPT ![i] = @ + 1])
    BY <1>5, <2>5 DEF CapabilityThrows, Looping
  <2> QED BY <2>2, <2>6, OtherAccounted
<1>6. ASSUME NEW a \in Actors, Park(a) \/ Return(a) \/ CancelWrite(a)
                               \/ LogSteering(a) \/ Abort(a)
      PROVE  AuditInv'
  <2>1. (\E pc \in Pc \ {"emit"} : GoTo(a, pc)) \/ Finish(a)
    BY <1>6 DEF Park, Return, CancelWrite, LogSteering, Abort, Pc
  <2>2. \E f : f.pc # "emit" /\ frame' = [frame EXCEPT ![a] = f]
    <3>1. ASSUME NEW pc \in Pc \ {"emit"}, GoTo(a, pc)
          PROVE  \E f : f.pc # "emit" /\ frame' = [frame EXCEPT ![a] = f]
      <4>1. PICK f : f = [frame[a] EXCEPT !.pc = pc] OBVIOUS
      <4>2. frame[a] \in [pc : Pc, copy : Row] BY DEF RunInv, FramesInv
      <4>3. f.pc = pc BY <4>1, <4>2
      <4>4. frame' = [frame EXCEPT ![a] = f] BY <3>1, <4>1 DEF GoTo
      <4> QED BY <4>3, <4>4
    <3>2. ASSUME Finish(a)
          PROVE  \E f : f.pc # "emit" /\ frame' = [frame EXCEPT ![a] = f]
      BY <3>2 DEF Finish, Idle
    <3> QED BY <2>1, <3>1, <3>2
  <2>3. UNCHANGED <<audited, ran, env>> /\ (frame[a].pc = "emit" => env.fail)
    BY <1>6 DEF Park, Return, CancelWrite, LogSteering, Abort, ghosts
  <2> QED BY <2>2, <2>3, OtherAccounted
<1> QED BY <1>1, <1>3, <1>4, <1>5, <1>6, ExecuteAccounted, EmitAccounted
        DEF Next, Harness, Steering, Trouble

\* Nothing was done and nothing is about to be logged.
LEMMA InitAccounted == Init => AuditInv
<1> SUFFICES ASSUME Init, NEW id \in Ids PROVE Accounted(id) BY DEF AuditInv
<1>1. \A a \in Actors : frame[a].pc # "emit" BY DEF Init, Idle
<1>2. Emitting(id) = {} BY <1>1 DEF Emitting
<1>3. IsFiniteSet({}) /\ Cardinality({}) = 0 BY FS_EmptySet
<1>4. ran[id] = 0 /\ audited[id] = 0 BY DEF Init
<1> QED BY <1>2, <1>3, <1>4 DEF Accounted

\* The accounts are right throughout.
LEMMA AuditInvariant == Spec => [](RunInv /\ AuditInv)
<1>1. Init => RunInv /\ AuditInv BY InitSound, InitAccounted
<1>2. (RunInv /\ AuditInv) /\ [Next]_vars => (RunInv /\ AuditInv)'
  BY StepSound, StepAccounted
<1> QED BY <1>1, <1>2, PTL DEF Spec

\* However calls race and wherever they fail, the trail never says a step was
\* executed more often than it was.
THEOREM TrailNeverInvents == Spec => []AuditNeverInvents
<1>1. ASSUME RunInv, AuditInv, NEW id \in Ids PROVE audited[id] <= ran[id]
  <2>1. Cardinality(Emitting(id)) \in Nat
    BY <1>1, FS_CardinalityType DEF AuditInv, Accounted
  <2>2. ran[id] \in Nat /\ audited[id] \in Nat BY <1>1 DEF RunInv, CountsOK
  <2> QED BY <1>1, <2>1, <2>2 DEF AuditInv, Accounted
<1>2. RunInv /\ AuditInv => AuditNeverInvents BY <1>1 DEF AuditNeverInvents
<1> QED BY <1>2, AuditInvariant, PTL

\* And if nothing fails, each effect has its event once the calls are over,
\* whatever tabs race for the run.
THEOREM StepsAudited == Spec => []EveryStepAudited
<1>1. ASSUME RunInv, AuditInv, Faultless, Quiet, NEW id \in Ids
      PROVE  audited[id] = ran[id]
  <2>1. Emitting(id) = {} BY <1>1 DEF Quiet, Emitting
  <2>2. Cardinality(Emitting(id)) = 0 BY <2>1, FS_EmptySet
  <2>3. ran[id] \in Nat /\ audited[id] \in Nat BY <1>1 DEF RunInv, CountsOK
  <2> QED BY <1>1, <2>2, <2>3 DEF AuditInv, Accounted
<1>2. ASSUME RunInv, AuditInv PROVE EveryStepAudited
  <2>1. SUFFICES ASSUME Faultless, Quiet PROVE audited = ran
    BY DEF EveryStepAudited
  <2>2. ran \in [Ids -> Nat] /\ audited \in [Ids -> Nat]
    BY <1>2 DEF RunInv, CountsOK
  <2>3. \A id \in Ids : audited[id] = ran[id] BY <1>1, <1>2, <2>1
  <2> QED BY <2>2, <2>3
<1> QED BY <1>2, AuditInvariant, PTL
-----------------------------------------------------------------------------
(* Calls that come one after the other.                                    *)

\* A cursor is on a step or right behind the last one.
InPlan(r) == r.cursor \in 1..(Len(r.steps) + 1)

\* c goes on where r is: the steps behind r's cursor are c's.
Continues(c, r) == /\ c.cursor >= r.cursor
                   /\ \A n \in 1..(r.cursor - 1) : c.steps[n] = r.steps[n]

InTurn(f) == /\ InPlan(f.copy)
             /\ f.pc \in {"emit", "save"} => HasStep(f.copy)
             /\ f.pc # "idle" => /\ Continues(f.copy, row)
                                 /\ f.copy.status # "cancelled"
             /\ row.status = "cancelled" => f.pc \in {"idle", "log"}

OneCall == \A a, b \in Actors :
             frame[a].pc # "idle" /\ frame[b].pc # "idle" => a = b

TurnInv == Serial => /\ OneCall
                     /\ InPlan(row)
                     /\ \A a \in Actors : InTurn(frame[a])

\* c is r with the step under its cursor written on, or its status.
Touched(c, r) ==
  /\ c.cursor = r.cursor
  /\ c.steps \in Seq(Step) /\ Len(c.steps) = Len(r.steps)
  /\ \A n \in 1..Len(r.steps) : /\ c.steps[n].id = r.steps[n].id
                                /\ n # r.cursor => c.steps[n] = r.steps[n]

\* Marking a step touches it only,
LEMMA MarkTouches ==
  ASSUME NEW r \in Row, HasStep(r), NEW s \in StepStatus
  PROVE  Touched(Mark(r, s), r) /\ Mark(r, s).status = r.status
<1>1. r.steps \in Seq(Step) /\ r.cursor \in 1..Len(r.steps)
  BY DEF Row, HasStep
<1>2. PICK t \in Step : t = r.steps[r.cursor] BY <1>1
<1>3. PICK u \in Step : u.id = t.id /\ u = [t EXCEPT !.status = s]
  BY DEF Step, StepStatus
<1>4. /\ Mark(r, s).steps = [r.steps EXCEPT ![r.cursor] = u]
      /\ Mark(r, s).cursor = r.cursor /\ Mark(r, s).status = r.status
  BY <1>2, <1>3 DEF Mark, Row
<1>5. PICK q : q = [r.steps EXCEPT ![r.cursor] = u] OBVIOUS
<1>6. /\ q \in Seq(Step) /\ Len(q) = Len(r.steps)
      /\ \A n \in 1..Len(r.steps) :
           q[n] = IF n = r.cursor THEN u ELSE r.steps[n]
  BY <1>1, <1>5
<1>7. \A n \in 1..Len(r.steps) : q[n].id = r.steps[n].id
  BY <1>2, <1>3, <1>6
<1> QED BY <1>4, <1>5, <1>6, <1>7 DEF Touched

\* so does failing at it,
LEMMA FailTouches ==
  ASSUME NEW r \in Row, HasStep(r)
  PROVE  Touched(Fail(r), r) /\ Fail(r).status = "failed"
<1>1. Fail(r) = [Mark(r, "blocked") EXCEPT !.status = "failed"]
  BY DEF Fail, Mark, Row
<1>2. DOMAIN Mark(r, "blocked") = {"status", "steps", "cursor", "spend"}
  BY DEF Mark, Row
<1>3. Touched(Mark(r, "blocked"), r) BY MarkTouches DEF StepStatus
<1> QED BY <1>1, <1>2, <1>3 DEF Touched

\* approving it,
LEMMA ApproveTouches ==
  ASSUME NEW r \in Row, HasStep(r)
  PROVE  LET c == [r EXCEPT !.steps[r.cursor].approved = TRUE,
                            !.steps[r.cursor].status = "pending"]
         IN  Touched(c, r) /\ c.status = r.status
<1>1. r.steps \in Seq(Step) /\ r.cursor \in 1..Len(r.steps)
  BY DEF Row, HasStep
<1>2. PICK t \in Step : t = r.steps[r.cursor] BY <1>1
<1>3. PICK u \in Step : /\ u.id = t.id
                        /\ u = [t EXCEPT !.approved = TRUE, !.status = "pending"]
  BY DEF Step
<1>4. PICK c : c = [r EXCEPT !.steps[r.cursor].approved = TRUE,
                             !.steps[r.cursor].status = "pending"]
  OBVIOUS
<1>5. /\ c.steps = [r.steps EXCEPT ![r.cursor] = u]
      /\ c.cursor = r.cursor /\ c.status = r.status
  BY <1>1, <1>2, <1>3, <1>4 DEF Row
<1>6. PICK q : q = [r.steps EXCEPT ![r.cursor] = u] OBVIOUS
<1>7. /\ q \in Seq(Step) /\ Len(q) = Len(r.steps)
      /\ \A n \in 1..Len(r.steps) :
           q[n] = IF n = r.cursor THEN u ELSE r.steps[n]
  BY <1>1, <1>6
<1>8. \A n \in 1..Len(r.steps) : q[n].id = r.steps[n].id
  BY <1>2, <1>3, <1>7
<1> QED BY <1>4, <1>5, <1>6, <1>7, <1>8 DEF Touched

\* setting the status, which writes to no step,
LEMMA StatusTouches ==
  ASSUME NEW r \in Row, NEW s \in RunStatus
  PROVE  /\ Touched([r EXCEPT !.status = s], r)
         /\ [r EXCEPT !.status = s].status = s
BY DEF Touched, Row

\* and spending a call.
LEMMA SpentTouches ==
  ASSUME NEW r \in Row
  PROVE  /\ Touched(Spent(r), r) /\ Spent(r).status = r.status
         /\ Touched(r, r)
BY DEF Touched, Row, Spent

\* A touch leaves the plan where it is.
LEMMA TouchedInTurn ==
  ASSUME NEW c, NEW r \in Row, NEW p \in Row, Touched(c, r)
  PROVE  /\ InPlan(r) => InPlan(c)
         /\ InPlan(r) /\ InPlan(p) /\ Continues(r, p) => Continues(c, p)
         /\ HasStep(r) => HasStep(c)
<1>1. r.steps \in Seq(Step) /\ r.cursor \in Nat /\ p.cursor \in Nat
      /\ Len(r.steps) \in Nat
  BY DEF Row
<1>2. InPlan(r) => InPlan(c) BY <1>1 DEF InPlan, Touched
<1>3. HasStep(r) => HasStep(c) BY <1>1 DEF HasStep, Touched
<1>4. ASSUME InPlan(r), Continues(r, p), NEW n \in 1..(p.cursor - 1)
      PROVE  c.steps[n] = p.steps[n]
  <2>1. n \in 1..Len(r.steps) /\ n # r.cursor
    BY <1>1, <1>4 DEF InPlan, Continues
  <2> QED BY <1>4, <2>1 DEF Touched, Continues
<1> QED BY <1>1, <1>2, <1>3, <1>4 DEF Continues, Touched

\* The step under the cursor is over: the next one.
LEMMA AdvancedInTurn ==
  ASSUME NEW r \in Row, NEW p \in Row, HasStep(r)
  PROVE  /\ Advanced(r).status = r.status /\ Advanced(r).steps = r.steps
         /\ Advanced(r).cursor = r.cursor + 1
         /\ InPlan(Advanced(r))
         /\ Continues(r, p) => Continues(Advanced(r), p)
<1>1. /\ Advanced(r).status = r.status /\ Advanced(r).steps = r.steps
      /\ Advanced(r).cursor = r.cursor + 1
  BY DEF Advanced, Row
<1> QED BY <1>1 DEF InPlan, HasStep, Continues, Row

\* How many steps the one under the cursor asks for.
Asked(r) == IF Kind(r) = "revise" THEN Len(Extra) ELSE 0

\* A sequence with another put in behind its k-th element.
Spliced(s, new, k) == SubSeq(s, 1, k) \o new \o SubSeq(s, k + 1, Len(s))

LEMMA SplicedAt ==
  ASSUME NEW S, NEW s \in Seq(S), NEW new \in Seq(S), NEW k \in 1..Len(s)
  PROVE  /\ Spliced(s, new, k) \in Seq(S)
         /\ Len(Spliced(s, new, k)) = Len(s) + Len(new)
         /\ \A n \in 1..k : Spliced(s, new, k)[n] = s[n]
         /\ \A n \in 1..Len(new) : Spliced(s, new, k)[k + n] = new[n]
         /\ \A n \in (k + 1)..Len(s) : Spliced(s, new, k)[n + Len(new)] = s[n]
<1>0. PICK l, e : /\ l = Len(s) /\ e = Len(new)
                  /\ l \in Nat /\ e \in Nat /\ k \in 1..l
  <2>1. Len(s) \in Nat /\ Len(new) \in Nat OBVIOUS
  <2>2. PICK l, e : l = Len(s) /\ e = Len(new) OBVIOUS
  <2> QED BY <2>1, <2>2
<1>1. PICK d : d = l - k OBVIOUS
<1>2. PICK m : m = k + e OBVIOUS
<1>3. d \in Nat /\ m \in Nat /\ k \in Nat /\ l + e = m + d
  BY <1>0, <1>1, <1>2
<1>4. PICK b : b = SubSeq(s, 1, k) OBVIOUS
<1>5. b \in Seq(S) /\ Len(b) = k /\ \A n \in 1..k : b[n] = s[n]
  BY <1>0, <1>4
<1>6. PICK t : t = SubSeq(s, k + 1, l) OBVIOUS
<1>7. t \in Seq(S) /\ Len(t) = d /\ \A n \in 1..d : t[n] = s[k + n]
  BY <1>0, <1>1, <1>6
<1>8. PICK h : h = b \o new OBVIOUS
<1>9. /\ h \in Seq(S) /\ Len(h) = m
      /\ \A n \in 1..k : h[n] = b[n]
      /\ \A n \in 1..e : h[k + n] = new[n]
  <2>1. /\ h \in Seq(S) /\ Len(h) = Len(b) + Len(new)
        /\ \A n \in 1..(Len(b) + Len(new)) :
             h[n] = IF n <= Len(b) THEN b[n] ELSE new[n - Len(b)]
    BY <1>5, <1>8, ConcatProperties
  <2>2. \A n \in 1..(k + e) : h[n] = IF n <= k THEN b[n] ELSE new[n - k]
    BY <1>0, <1>5, <2>1
  <2>3. Len(h) = m BY <1>0, <1>2, <1>5, <2>1
  <2>4. ASSUME NEW n \in 1..k PROVE h[n] = b[n] BY <1>0, <1>3, <2>2
  <2>5. ASSUME NEW n \in 1..e PROVE h[k + n] = new[n]
    <3>1. k + n \in 1..(k + e) /\ ~(k + n <= k) /\ (k + n) - k = n
      BY <1>0, <1>3
    <3> QED BY <2>2, <3>1
  <2> QED BY <2>1, <2>3, <2>4, <2>5
<1>10. PICK q : q = h \o t OBVIOUS
<1>11. /\ q \in Seq(S) /\ Len(q) = m + d
       /\ \A n \in 1..m : q[n] = h[n]
       /\ \A n \in 1..d : q[m + n] = t[n]
  <2>a. h \in Seq(S) /\ t \in Seq(S) BY <1>7, <1>9
  <2>b. Len(h) = m /\ Len(t) = d BY <1>7, <1>9
  <2>1. /\ q \in Seq(S) /\ Len(q) = Len(h) + Len(t)
        /\ \A n \in 1..(Len(h) + Len(t)) :
             q[n] = IF n <= Len(h) THEN h[n] ELSE t[n - Len(h)]
    BY <1>10, <2>a, ConcatProperties
  <2>2. \A n \in 1..(m + d) : q[n] = IF n <= m THEN h[n] ELSE t[n - m]
    BY <2>1, <2>b
  <2>3. ASSUME NEW n \in 1..m PROVE q[n] = h[n]
    BY <1>3, <2>2
  <2>4. ASSUME NEW n \in 1..d PROVE q[m + n] = t[n]
    <3>1. m + n \in 1..(m + d) /\ ~(m + n <= m) /\ (m + n) - m = n BY <1>3
    <3> QED BY <2>2, <3>1
  <2> QED BY <2>1, <2>b, <2>3, <2>4
<1>12. ASSUME NEW n \in 1..k PROVE q[n] = s[n]
  <2>1. n \in 1..m BY <1>0, <1>2, <1>3
  <2> QED BY <1>5, <1>9, <1>11, <2>1
<1>13. ASSUME NEW n \in 1..e PROVE q[k + n] = new[n]
  <2>1. k + n \in 1..m BY <1>0, <1>2, <1>3
  <2> QED BY <1>9, <1>11, <2>1
<1>14. ASSUME NEW n \in (k + 1)..l PROVE q[n + e] = s[n]
  <2>1. PICK i \in 1..d : i = n - k BY <1>0, <1>1, <1>3
  <2>2. n = k + i /\ n + e = m + i BY <1>0, <1>2, <1>3, <2>1
  <2> QED BY <1>7, <1>11, <2>1, <2>2
<1>15. Spliced(s, new, k) = q BY <1>0, <1>4, <1>6, <1>8, <1>10 DEF Spliced
<1>16. q \in Seq(S) /\ Len(q) = l + e BY <1>3, <1>11
<1> QED BY <1>0, <1>12, <1>13, <1>14, <1>15, <1>16

\* A revision puts the steps asked for right behind the cursor, and moves those
\* that were there.
LEMMA RevisedPlan ==
  ASSUME NEW r \in Row, HasStep(r)
  PROVE  /\ Revised(r).cursor = r.cursor /\ Revised(r).status = r.status
         /\ Revised(r).steps \in Seq(Step) /\ Asked(r) \in Nat
         /\ Len(Revised(r).steps) = Len(r.steps) + Asked(r)
         /\ \A n \in 1..r.cursor : Revised(r).steps[n] = r.steps[n]
         /\ \A n \in 1..Asked(r) :
              Revised(r).steps[r.cursor + n].id = <<Now(r).id[1], n>>
         /\ \A n \in (r.cursor + 1)..Len(r.steps) :
              Revised(r).steps[n + Asked(r)] = r.steps[n]
<1>1. r.steps \in Seq(Step) /\ r.cursor \in 1..Len(r.steps)
      /\ Len(r.steps) \in Nat /\ Len(Extra) \in Nat
  BY AgentAssumption DEF Row, HasStep
<1>2. CASE Kind(r) # "revise"
  BY <1>1, <1>2 DEF Revised, Asked
<1>3. CASE Kind(r) = "revise"
  <2>1. Now(r).id \in Ids BY NowIsStep
  <2>2. PICK new \in Seq(Step), e \in Nat :
          /\ new = Inserted(Now(r).id) /\ Len(new) = e /\ e = Len(Extra)
          /\ \A n \in 1..e : new[n].id = <<Now(r).id[1], n>>
    BY <1>1, <2>1, InsertedSteps
  <2>3. PICK s \in Seq(Step) : s = r.steps BY <1>1
  <2>4. PICK k, l : k = r.cursor /\ l = Len(s) OBVIOUS
  <2>5. l \in Nat /\ k \in 1..l BY <1>1, <2>3, <2>4
  <2>6. PICK q :
        /\ q = Spliced(s, new, k)
        /\ q \in Seq(Step) /\ Len(q) = l + e
        /\ \A n \in 1..k : q[n] = s[n]
        /\ \A n \in 1..e : q[k + n] = new[n]
        /\ \A n \in (k + 1)..l : q[n + e] = s[n]
    <3>1. new \in Seq(Step) /\ Len(new) = e /\ e \in Nat /\ s \in Seq(Step)
          /\ Len(s) = l
      BY <2>2, <2>3, <2>4
    <3>2. k \in 1..Len(s) BY <2>5, <3>1
    <3>3. /\ Spliced(s, new, k) \in Seq(Step)
          /\ Len(Spliced(s, new, k)) = Len(s) + Len(new)
          /\ \A n \in 1..k : Spliced(s, new, k)[n] = s[n]
          /\ \A n \in 1..Len(new) : Spliced(s, new, k)[k + n] = new[n]
          /\ \A n \in (k + 1)..Len(s) : Spliced(s, new, k)[n + Len(new)] = s[n]
      BY <3>1, <3>2, SplicedAt
    <3> QED BY <3>1, <3>3
  <2>8. Revised(r) = [r EXCEPT !.steps = q]
    BY <1>3, <2>2, <2>3, <2>4, <2>6 DEF Revised, Spliced
  <2>9. /\ Revised(r).steps = q /\ Revised(r).cursor = k
        /\ Revised(r).status = r.status
    BY <2>4, <2>8 DEF Row
  <2>10. Asked(r) = e BY <1>3, <2>2 DEF Asked
  <2>11. \A n \in 1..e : q[k + n].id = <<Now(r).id[1], n>> BY <2>2, <2>6
  <2> QED BY <2>2, <2>3, <2>4, <2>6, <2>9, <2>10, <2>11
<1> QED BY <1>2, <1>3

\* So a revised plan goes on where the plan was.
LEMMA RevisedInTurn ==
  ASSUME NEW r \in Row, NEW p \in Row, HasStep(r), Continues(r, p)
  PROVE  /\ Continues(Revised(r), p)
         /\ HasStep(Revised(r)) /\ InPlan(Revised(r))
<1>1. /\ Revised(r).cursor = r.cursor /\ Asked(r) \in Nat
      /\ Revised(r).steps \in Seq(Step)
      /\ Len(Revised(r).steps) = Len(r.steps) + Asked(r)
      /\ \A n \in 1..r.cursor : Revised(r).steps[n] = r.steps[n]
  BY RevisedPlan
<1>2. /\ r.cursor \in 1..Len(r.steps) /\ Len(r.steps) \in Nat /\ p.cursor \in Nat
      /\ p.cursor <= r.cursor
  BY DEF Row, HasStep, Continues
<1>3. \A n \in 1..(p.cursor - 1) : n \in 1..r.cursor BY <1>2
<1> QED BY <1>1, <1>2, <1>3 DEF Continues, HasStep, InPlan

\* A caller that has the run goes on with it, or takes it when nobody has.
LEMMA TakesTurn ==
  ASSUME RunInv, TurnInv, Serial, NEW a \in Actors, NEW f,
         frame' = [frame EXCEPT ![a] = f], frame[a].pc # "idle" \/ Quiet,
         InPlan(row'), InTurn(f)'
  PROVE  TurnInv'
<1>1. frame'[a] = f /\ \A b \in Actors : b # a => frame'[b] = frame[b]
  BY DEF RunInv, FramesInv
<1>2. \A b \in Actors : b # a => frame[b].pc = "idle"
  BY DEF TurnInv, OneCall, Quiet
<1>3. \A b \in Actors : b # a => frame'[b].pc = "idle" BY <1>1, <1>2
<1>4. OneCall' BY <1>3 DEF OneCall
<1>5. ASSUME NEW b \in Actors PROVE InTurn(frame[b])'
  <2>1. CASE b = a BY <1>1, <2>1 DEF InTurn
  <2>2. CASE b # a
    <3>1. frame'[b] = frame[b] /\ frame[b].pc = "idle" BY <1>1, <1>2, <2>2
    <3>2. InPlan(frame[b].copy) BY DEF TurnInv, InTurn
    <3> QED BY <3>1, <3>2 DEF InTurn
  <2> QED BY <2>1, <2>2
<1> QED BY <1>4, <1>5 DEF TurnInv

\* What TurnInv says of the caller that acts.
LEMMA HasTurn ==
  ASSUME RunInv, TurnInv, Serial, NEW a \in Actors
  PROVE  /\ Copy(a) \in Row /\ row \in Row /\ InPlan(Copy(a)) /\ InPlan(row)
         /\ frame[a].pc \in {"emit", "save"} => HasStep(Copy(a))
         /\ frame[a].pc # "idle" => /\ Continues(Copy(a), row)
                                    /\ Copy(a).status # "cancelled"
         /\ frame[a].pc \notin {"idle", "log"} => row.status # "cancelled"
BY InHand DEF RunInv, Sound, TurnInv, InTurn, Copy

\* A caller in its turn goes on with what it touched,
LEMMA TouchingTurn ==
  ASSUME RunInv, TurnInv, Serial, NEW a \in Actors, NEW pc, NEW c,
         Continue(a, pc, c), frame[a].pc \notin {"idle", "log"},
         Touched(c, Copy(a)), c.status # "cancelled",
         pc = "emit" \/ pc = "save" => HasStep(Copy(a)), UNCHANGED row
  PROVE  TurnInv'
<1>1. PICK r : r = Copy(a) OBVIOUS
<1>2. PICK f : f = [pc |-> pc, copy |-> c] OBVIOUS
<1>3. /\ r \in Row /\ row \in Row /\ InPlan(r) /\ InPlan(row)
      /\ Continues(r, row) /\ row.status # "cancelled"
  BY <1>1, HasTurn
<1>4. InPlan(c) /\ Continues(c, row) /\ (HasStep(r) => HasStep(c))
  BY <1>1, <1>3, TouchedInTurn
<1>5. frame' = [frame EXCEPT ![a] = f] BY <1>2 DEF Continue
<1>6. f.pc = pc /\ f.copy = c BY <1>2
<1>7. InTurn(f)'
  BY <1>1, <1>3, <1>4, <1>6 DEF InTurn, InPlan, HasStep, Continues
<1>8. InPlan(row') BY <1>3
<1> QED BY <1>5, <1>7, <1>8, TakesTurn

\* with a plan it has revised,
LEMMA ExecuteTurn ==
  ASSUME RunInv, TurnInv, Serial, NEW a \in Actors, Execute(a)
  PROVE  TurnInv'
<1>1. PICK r : r = Copy(a) OBVIOUS
<1>2. PICK m : m = Mark(r, "done") OBVIOUS
<1>3. PICK f : f = [pc |-> "emit", copy |-> Revised(m)] OBVIOUS
<1>4. /\ r \in Row /\ row \in Row /\ InPlan(r) /\ InPlan(row) /\ HasStep(r)
      /\ Continues(r, row) /\ row.status # "cancelled" /\ r.status # "cancelled"
  BY <1>1, HasTurn DEF Execute, Looping
<1>5. m \in Row
  <2>1. Sound(r, consent) BY <1>1, InHand DEF RunInv
  <2> QED BY <1>2, <2>1, MarkSound DEF Sound, StepStatus
<1>6. Touched(m, r) /\ m.status # "cancelled"
  BY <1>2, <1>4, MarkTouches DEF StepStatus
<1>7. Continues(m, row) /\ HasStep(m) BY <1>4, <1>6, TouchedInTurn
<1>8. /\ Continues(Revised(m), row) /\ HasStep(Revised(m)) /\ InPlan(Revised(m))
      /\ Revised(m).status # "cancelled"
  BY <1>4, <1>5, <1>6, <1>7, RevisedInTurn, RevisedPlan
<1>9. frame' = [frame EXCEPT ![a] = f] /\ UNCHANGED row /\ frame[a].pc # "idle"
  BY <1>1, <1>2, <1>3 DEF Execute, Continue, Looping
<1>10. f.pc = "emit" /\ f.copy = Revised(m) BY <1>3
<1>11. InTurn(f)'
  BY <1>4, <1>8, <1>9, <1>10 DEF InTurn, InPlan, HasStep, Continues
<1>12. InPlan(row') BY <1>4, <1>9
<1> QED BY <1>9, <1>11, <1>12, TakesTurn

\* or with what it wrote to the row.
LEMMA WritingTurn ==
  ASSUME RunInv, TurnInv, Serial, NEW a \in Actors, NEW f,
         frame' = [frame EXCEPT ![a] = f], frame[a].pc # "idle" \/ Quiet,
         InPlan(row'), InPlan(f.copy), row' \in Row,
         f.pc \notin {"emit", "save"}, f.copy.status # "cancelled",
         f.copy.cursor = row'.cursor, f.copy.steps = row'.steps,
         row'.status # "cancelled" \/ f.pc \in {"idle", "log"}
  PROVE  TurnInv'
<1>1. Continues(f.copy, row') BY DEF Continues, Row
<1>2. InTurn(f)' BY <1>1 DEF InTurn, InPlan, HasStep, Continues
<1> QED BY <1>2, TakesTurn

\* What the harness and its troubles do to a copy only.
LEMMA CopyTurn ==
  ASSUME RunInv, TurnInv, Serial, NEW a \in Actors,
         Exhaust(a) \/ Checkpoint(a) \/ Refuse(a) \/ CapabilityThrows(a)
                    \/ Emit(a) \/ EmitThrows(a)
  PROVE  TurnInv'
<1>1. PICK r : r = Copy(a) OBVIOUS
<1>2. /\ r \in Row /\ (frame[a].pc = "emit" => HasStep(r))
      /\ (frame[a].pc # "idle" => r.status # "cancelled")
  BY <1>1, HasTurn
<1>3. UNCHANGED row /\ frame[a].pc \notin {"idle", "log"}
  BY DEF Exhaust, Checkpoint, Refuse, CapabilityThrows, Emit, EmitThrows, Looping
<1>4. CASE Exhaust(a)
  <2>1. Continue(a, "park", [r EXCEPT !.status = "exhausted"])
    BY <1>1, <1>4 DEF Exhaust
  <2>2. Touched([r EXCEPT !.status = "exhausted"], r)
        /\ [r EXCEPT !.status = "exhausted"].status = "exhausted"
    BY <1>2, StatusTouches DEF RunStatus
  <2> QED BY <1>1, <1>3, <2>1, <2>2, TouchingTurn
<1>5. CASE Checkpoint(a)
  <2>1. HasStep(r) BY <1>1, <1>5 DEF Checkpoint, Looping
  <2>2. PICK m : m = Mark(r, "awaiting_human") OBVIOUS
  <2>3. PICK c : c = [m EXCEPT !.status = "awaiting_checkpoint"] OBVIOUS
  <2>4. Continue(a, "park", c) BY <1>1, <1>5, <2>2, <2>3 DEF Checkpoint
  <2>5. Touched(m, r) BY <1>2, <2>1, <2>2, MarkTouches DEF StepStatus
  <2>6. m \in Row
    <3>1. Sound(r, consent) BY <1>1, InHand DEF RunInv
    <3> QED BY <2>2, <3>1, MarkSound DEF Sound, StepStatus
  <2>7. /\ c.status = "awaiting_checkpoint" /\ c.steps = m.steps
        /\ c.cursor = m.cursor
    BY <2>3, <2>6 DEF Row
  <2>8. Touched(c, r) BY <2>5, <2>7 DEF Touched
  <2> QED BY <1>1, <1>3, <2>4, <2>7, <2>8, TouchingTurn
<1>6. CASE Refuse(a) \/ CapabilityThrows(a)
  <2>1. HasStep(r) /\ Continue(a, "park", Fail(r))
    BY <1>1, <1>6 DEF Refuse, CapabilityThrows, Looping
  <2>2. Touched(Fail(r), r) /\ Fail(r).status = "failed"
    BY <1>2, <2>1, FailTouches
  <2> QED BY <1>1, <1>3, <2>1, <2>2, TouchingTurn
<1>7. CASE Emit(a)
  <2>1. HasStep(r) /\ Continue(a, "save", Spent(r)) /\ r.status # "cancelled"
    BY <1>1, <1>2, <1>3, <1>7 DEF Emit
  <2>2. Touched(Spent(r), r) /\ Spent(r).status = r.status
    BY <1>2, SpentTouches
  <2> QED BY <1>1, <1>3, <2>1, <2>2, TouchingTurn
<1>8. CASE EmitThrows(a)
  <2>1. HasStep(r) /\ Continue(a, "park", Fail(Spent(r)))
    BY <1>1, <1>2, <1>8 DEF EmitThrows
  <2>2. Touched(Spent(r), r) BY <1>2, SpentTouches
  <2>3. Spent(r) \in Row
    <3>1. Sound(r, consent) /\ r.spend < MaxToolCalls
      BY <1>1, <1>8, InHand DEF RunInv, EmitThrows
    <3> QED BY <3>1, SpentSound DEF Sound
  <2>4. HasStep(Spent(r)) BY <2>1 DEF HasStep, Spent
  <2>5. PICK c : c = Fail(Spent(r)) OBVIOUS
  <2>6. Touched(c, Spent(r)) /\ c.status = "failed"
    BY <2>3, <2>4, <2>5, FailTouches
  <2>7. Touched(c, r) BY <1>2, <2>2, <2>6 DEF Touched
  <2> QED BY <1>1, <1>3, <2>1, <2>5, <2>6, <2>7, TouchingTurn
<1> QED BY <1>4, <1>5, <1>6, <1>7, <1>8

\* A caller that only goes on keeps its copy.
LEMMA WentTo ==
  ASSUME FramesInv, NEW a \in Actors, NEW pc, GoTo(a, pc), NEW r, r = Copy(a),
         NEW f, f = [pc |-> pc, copy |-> r]
  PROVE  frame' = [frame EXCEPT ![a] = f]
<1>1. frame[a] \in [pc : Pc, copy : Row] BY DEF FramesInv
<1>2. [frame[a] EXCEPT !.pc = pc] = [pc |-> pc, copy |-> frame[a].copy] BY <1>1
<1>3. frame' = [frame EXCEPT ![a] = [frame[a] EXCEPT !.pc = pc]] BY DEF GoTo
<1> QED BY <1>2, <1>3 DEF Copy

\* A call persists the run it has,
LEMMA PersistTurn ==
  ASSUME RunInv, TurnInv, Serial, NEW a \in Actors,
         Save(a) \/ Complete(a) \/ Park(a) \/ Return(a) \/ PlanWrite(a)
                 \/ CancelWrite(a)
  PROVE  TurnInv' /\ Continues(row', row)
<1>1. PICK r : r = Copy(a) OBVIOUS
<1>2. /\ r \in Row /\ row \in Row /\ InPlan(r) /\ InPlan(row)
      /\ (frame[a].pc = "save" => HasStep(r))
      /\ (frame[a].pc # "idle" => Continues(r, row) /\ r.status # "cancelled")
      /\ (frame[a].pc \notin {"idle", "log"} => row.status # "cancelled")
  BY <1>1, HasTurn
<1>3. frame[a].pc \notin {"idle", "log"}
  BY DEF Save, Complete, Park, Return, PlanWrite, CancelWrite
<1>4. Continues(r, row) /\ r.status # "cancelled" /\ row.status # "cancelled"
  BY <1>2, <1>3
<1>6. CASE Save(a)
  <2>1. HasStep(r) /\ row' = Advanced(r) BY <1>1, <1>2, <1>6 DEF Save
  <2>2. /\ Advanced(r).status = r.status /\ InPlan(Advanced(r))
        /\ Continues(Advanced(r), row)
    BY <1>2, <1>4, <2>1, AdvancedInTurn
  <2>3. PICK f : f = [pc |-> "loop", copy |-> Advanced(r)] OBVIOUS
  <2>4. frame' = [frame EXCEPT ![a] = f] BY <1>1, <1>6, <2>3 DEF Save, Continue
  <2>5. Advanced(r) \in Row BY <1>2 DEF Advanced, Row
  <2>6. f.pc = "loop" /\ f.copy = row' BY <2>1, <2>3
  <2> QED BY <1>3, <1>4, <2>1, <2>2, <2>4, <2>5, <2>6, WritingTurn
<1>7. CASE Complete(a)
  <2>1. row' = [r EXCEPT !.status = "completed"] BY <1>1, <1>7 DEF Complete
  <2>2. /\ row'.status = "completed" /\ row'.cursor = r.cursor
        /\ row'.steps = r.steps /\ row' \in Row
    BY <1>2, <2>1 DEF Row
  <2>3. PICK f : f = [pc |-> "return", copy |-> [r EXCEPT !.status = "completed"]]
    OBVIOUS
  <2>4. frame' = [frame EXCEPT ![a] = f]
    BY <2>1, <2>3, <1>7 DEF Complete, Continue
  <2>5. f.pc = "return" /\ f.copy = row' BY <2>1, <2>3
  <2>6. InPlan(row') /\ Continues(row', row)
    BY <1>2, <1>4, <2>2 DEF InPlan, Continues
  <2> QED BY <1>3, <2>2, <2>4, <2>5, <2>6, WritingTurn
<1>8. CASE Park(a) \/ Return(a)
  <2>1. row' = r BY <1>1, <1>8 DEF Park, Return
  <2>3. ASSUME NEW pc \in {"return", "log"}, GoTo(a, pc)
        PROVE  TurnInv' /\ Continues(row', row)
    <3>1. PICK f : f = [pc |-> pc, copy |-> r] OBVIOUS
    <3>2. frame' = [frame EXCEPT ![a] = f] BY <1>1, <2>3, <3>1, WentTo DEF RunInv
    <3>3. f.pc = pc /\ f.copy = r BY <3>1
    <3> QED BY <1>2, <1>3, <1>4, <2>1, <2>3, <3>2, <3>3, WritingTurn
  <2>4. CASE Finish(a)
    <3>1. frame' = [frame EXCEPT ![a] = Idle] BY <2>4 DEF Finish
    <3>2. InPlan(row') /\ InTurn(Idle)'
      <4>1. Idle.pc = "idle" /\ Idle.copy = PlannedRow(0) BY DEF Idle
      <4>2. InPlan(PlannedRow(0)) BY DEF InPlan, PlannedRow
      <4> QED BY <1>2, <2>1, <4>1, <4>2 DEF InTurn, InPlan
    <3>3. TurnInv'
      <4>1. PICK f : f = Idle OBVIOUS
      <4> QED BY <1>3, <3>1, <3>2, <4>1, TakesTurn
    <3> QED BY <1>4, <2>1, <3>3
  <2>5. Park(a) => GoTo(a, "return") BY DEF Park
  <2>6. Return(a) => GoTo(a, "log") \/ Finish(a) BY DEF Return
  <2> QED BY <1>8, <2>3, <2>4, <2>5, <2>6
<1>9. CASE PlanWrite(a)
  <2>1. row' = [row EXCEPT !.steps = r.steps, !.cursor = r.cursor]
    BY <1>1, <1>9 DEF PlanWrite
  <2>2. /\ row'.status = row.status /\ row'.cursor = r.cursor
        /\ row'.steps = r.steps /\ row' \in Row
    BY <1>2, <2>1 DEF Row
  <2>3. PICK c : c = [r EXCEPT !.status = "running"] OBVIOUS
  <2>4. c.status = "running" /\ c.cursor = r.cursor /\ c.steps = r.steps
    BY <1>2, <2>3 DEF Row
  <2>5. PICK f : f = [pc |-> "loop", copy |-> c] OBVIOUS
  <2>6. frame' = [frame EXCEPT ![a] = f]
    BY <1>1, <1>9, <2>3, <2>5 DEF PlanWrite, Continue
  <2>7. f.pc = "loop" /\ f.copy = c BY <2>5
  <2>8. InPlan(row') /\ InPlan(c) /\ Continues(row', row)
    BY <1>2, <1>4, <2>2, <2>4 DEF InPlan, Continues
  <2> QED BY <1>3, <1>4, <2>2, <2>4, <2>6, <2>7, <2>8, WritingTurn
<1>10. CASE CancelWrite(a)
  <2>1. row' = [row EXCEPT !.status = "cancelled"] BY <1>10 DEF CancelWrite
  <2>2. row'.cursor = row.cursor /\ row'.steps = row.steps /\ row' \in Row
    BY <1>2, <2>1 DEF Row
  <2>3. PICK f : f = [pc |-> "log", copy |-> r] OBVIOUS
  <2>4. frame' = [frame EXCEPT ![a] = f]
    BY <1>1, <1>10, <2>3, WentTo DEF RunInv, CancelWrite
  <2>5. f.pc = "log" /\ f.copy = r BY <2>3
  <2>6. Continues(row', row) /\ InPlan(row')
    BY <1>2, <2>2 DEF Continues, InPlan, Row
  <2>7. Continues(r, row') BY <1>4, <2>2 DEF Continues
  <2>8. InTurn(f)' BY <1>2, <1>4, <2>5, <2>7 DEF InTurn, InPlan, HasStep, Continues
  <2> QED BY <1>3, <2>4, <2>6, <2>8, TakesTurn
<1> QED BY <1>6, <1>7, <1>8, <1>9, <1>10

\* ends,
LEMMA EndTurn ==
  ASSUME RunInv, TurnInv, Serial, NEW a \in Actors,
         LogSteering(a) \/ Abort(a) \/ SaveThrows(a)
  PROVE  TurnInv'
<1>1. UNCHANGED row /\ frame[a].pc # "idle"
  BY DEF LogSteering, Abort, SaveThrows
<1>2. InPlan(row') BY <1>1, HasTurn
<1>3. CASE LogSteering(a) \/ Abort(a)
  <2>1. PICK f : f = Idle OBVIOUS
  <2>2. frame' = [frame EXCEPT ![a] = f]
    BY <1>3, <2>1 DEF LogSteering, Abort, Finish
  <2>3. f.pc = "idle" /\ f.copy = PlannedRow(0) BY <2>1 DEF Idle
  <2>4. InPlan(PlannedRow(0)) BY DEF InPlan, PlannedRow
  <2>5. InTurn(f)' BY <2>3, <2>4 DEF InTurn
  <2> QED BY <1>1, <1>2, <2>2, <2>5, TakesTurn
<1>4. CASE SaveThrows(a)
  <2>1. PICK r : r = Copy(a) OBVIOUS
  <2>2. /\ r \in Row /\ row \in Row /\ InPlan(r) /\ InPlan(row) /\ HasStep(r)
        /\ Continues(r, row) /\ row.status # "cancelled"
    BY <1>4, <2>1, HasTurn DEF SaveThrows
  <2>3. PICK c : c = Fail(r) OBVIOUS
  <2>4. Touched(c, r) /\ c.status = "failed" BY <2>2, <2>3, FailTouches
  <2>5. c \in Row
    <3>1. Sound(r, consent) BY <2>1, InHand DEF RunInv
    <3> QED BY <2>3, <3>1, FailSound DEF Sound
  <2>6. HasStep(c) /\ Continues(c, row) BY <2>2, <2>4, TouchedInTurn
  <2>7. PICK d : d = Advanced(c) OBVIOUS
  <2>8. d.status = "failed" /\ InPlan(d) /\ Continues(d, row)
    BY <2>2, <2>4, <2>5, <2>6, <2>7, AdvancedInTurn
  <2>9. PICK f : f = [pc |-> "park", copy |-> d] OBVIOUS
  <2>10. frame' = [frame EXCEPT ![a] = f]
    BY <1>4, <2>1, <2>3, <2>7, <2>9 DEF SaveThrows, Continue
  <2>11. f.pc = "park" /\ f.copy = d BY <2>9
  <2>12. InTurn(f)'
    BY <1>1, <2>2, <2>8, <2>11 DEF InTurn, InPlan, HasStep, Continues
  <2> QED BY <1>1, <1>2, <2>10, <2>12, TakesTurn
<1> QED BY <1>3, <1>4

\* and another takes the row up when nobody has the run.
LEMMA LoadTurn ==
  ASSUME RunInv, TurnInv, Serial, NEW a \in Actors,
         Approve(a) \/ Skip(a) \/ Cancel(a)
  PROVE  TurnInv'
<1>1. PICK r : r = row OBVIOUS
<1>2. r \in Row /\ InPlan(r) BY <1>1, HasTurn
<1>3. /\ UNCHANGED row /\ Quiet /\ r.status = "awaiting_checkpoint"
  BY <1>1 DEF Approve, Skip, Cancel, Load, Steerable, Serial
<1>4. Continues(r, r) BY <1>2 DEF Continues, Row
<1>5. PICK pc, c :
        /\ Continue(a, pc, c) /\ pc \in {"approve", "skip", "cancel"}
        /\ InPlan(c) /\ Continues(c, r) /\ c.status = "awaiting_checkpoint"
  <2>1. CASE Approve(a)
    <3>1. PICK c : c = [r EXCEPT !.steps[r.cursor].approved = TRUE,
                                 !.steps[r.cursor].status = "pending"]
      OBVIOUS
    <3>2. HasStep(r) /\ Continue(a, "approve", c)
      BY <1>1, <2>1, <3>1 DEF Approve, Load
    <3>3. Touched(c, r) /\ c.status = r.status
      BY <1>2, <3>1, <3>2, ApproveTouches
    <3>4. InPlan(c) /\ Continues(c, r) BY <1>2, <1>4, <3>3, TouchedInTurn
    <3> QED BY <1>3, <3>2, <3>3, <3>4
  <2>2. CASE Skip(a)
    <3>1. PICK m : m = Mark(r, "skipped") OBVIOUS
    <3>2. HasStep(r) /\ Continue(a, "skip", Advanced(m))
      BY <1>1, <2>2, <3>1 DEF Skip, Load
    <3>3. Touched(m, r) /\ m.status = r.status
      BY <1>2, <3>1, <3>2, MarkTouches DEF StepStatus
    <3>4. m \in Row
      <4>1. Sound(r, consent) BY <1>1 DEF RunInv
      <4> QED BY <3>1, <4>1, MarkSound DEF Sound, StepStatus
    <3>5. HasStep(m) /\ Continues(m, r)
      BY <1>2, <1>4, <3>2, <3>3, TouchedInTurn
    <3>6. /\ InPlan(Advanced(m)) /\ Continues(Advanced(m), r)
          /\ Advanced(m).status = m.status
      BY <1>2, <3>4, <3>5, AdvancedInTurn
    <3> QED BY <1>3, <3>2, <3>3, <3>6
  <2>3. CASE Cancel(a)
    BY <1>1, <1>2, <1>3, <1>4, <2>3 DEF Cancel, Load
  <2> QED BY <2>1, <2>2, <2>3
<1>6. PICK f : f = [pc |-> pc, copy |-> c] OBVIOUS
<1>7. frame' = [frame EXCEPT ![a] = f] BY <1>5, <1>6 DEF Continue
<1>8. f.pc = pc /\ f.copy = c BY <1>6
<1>9. InTurn(f)'
  BY <1>1, <1>3, <1>5, <1>8 DEF InTurn, InPlan, HasStep, Continues
<1>10. InPlan(row') BY <1>1, <1>2, <1>3
<1> QED BY <1>3, <1>7, <1>9, <1>10, TakesTurn

\* No step changes how calls may overlap, or whether they fail.
LEMMA SameTerms ==
  ASSUME RunInv, [Next]_vars
  PROVE  env'.overlap = env.overlap /\ env'.fail = env.fail
<1>1. env \in Environment BY DEF RunInv, CountsOK
<1>2. env' = env \/ env' = [env EXCEPT !.calls = @ - 1]
  BY DEF Next, Harness, Steering, Trouble, Execute, Exhaust, Checkpoint, Refuse,
         Emit, Save, Complete, Park, Return, PlanWrite, CancelWrite, LogSteering,
         CapabilityThrows, EmitThrows, SaveThrows, Abort, Approve, Skip, Cancel,
         Load, vars
<1> QED BY <1>1, <1>2 DEF Environment

\* Calls keep taking turns, and each of them goes forward.
LEMMA TurnStep == RunInv /\ TurnInv /\ [Next]_vars => TurnInv'
<1> SUFFICES ASSUME RunInv, TurnInv, [Next]_vars, Serial' PROVE TurnInv'
  BY DEF TurnInv
<1>1. Serial BY SameTerms DEF Serial
<1>2. CASE UNCHANGED vars
  BY <1>1, <1>2 DEF vars, TurnInv, OneCall, InPlan, InTurn, HasStep, Continues
<1>3. ASSUME NEW a \in Actors, Harness(a) \/ Steering(a) \/ Trouble(a)
                               \/ Approve(a) \/ Skip(a) \/ Cancel(a)
      PROVE  TurnInv'
  BY <1>1, <1>3, ExecuteTurn, CopyTurn, PersistTurn, EndTurn, LoadTurn
     DEF Harness, Steering, Trouble
<1> QED BY <1>2, <1>3 DEF Next

\* The runner has the first turn, on the plan from its first step.
LEMMA InitTurn == Init => TurnInv
<1> SUFFICES ASSUME Init PROVE TurnInv OBVIOUS
<1>1. PICK k \in 1..Len(Plan) :
        /\ row = PlannedRow(k)
        /\ frame = [a \in Actors |->
                      IF a = Runner
                      THEN [pc |-> "loop",
                            copy |-> [PlannedRow(k) EXCEPT !.status = "running"]]
                      ELSE Idle]
  BY DEF Init
<1>2. k \in Nat BY <1>1, AgentAssumption
<1>3. PICK c : c = [PlannedRow(k) EXCEPT !.status = "running"] OBVIOUS
<1>4. /\ row.cursor = 1 /\ row.status = "planning"
      /\ c.cursor = 1 /\ c.status = "running" /\ c.steps = row.steps
      /\ Len(row.steps) = k
  BY <1>1, <1>2, <1>3 DEF PlannedRow
<1>5. InPlan(row) /\ InPlan(c) /\ Continues(c, row)
  BY <1>2, <1>4 DEF InPlan, Continues
<1>6. InPlan(PlannedRow(0)) BY DEF InPlan, PlannedRow
<1>7. /\ frame[Runner] = [pc |-> "loop", copy |-> c]
      /\ \A a \in Actors : a # Runner => frame[a] = Idle
  BY <1>1, <1>3 DEF Actors
<1>8. Idle.pc = "idle" /\ Idle.copy = PlannedRow(0) BY DEF Idle
<1>9. OneCall BY <1>7, <1>8 DEF OneCall
<1>10. ASSUME NEW a \in Actors PROVE InTurn(frame[a])
  <2>1. CASE a = Runner
    <3>1. frame[a].pc = "loop" /\ frame[a].copy = c BY <1>7, <2>1
    <3> QED BY <1>4, <1>5, <3>1 DEF InTurn
  <2>2. CASE a # Runner
    <3>1. frame[a].pc = "idle" /\ frame[a].copy = PlannedRow(0)
      BY <1>7, <1>8, <2>2
    <3> QED BY <1>6, <3>1 DEF InTurn
  <2> QED BY <2>1, <2>2
<1> QED BY <1>5, <1>9, <1>10 DEF TurnInv

LEMMA TurnInvariant == Spec => [](RunInv /\ TurnInv)
<1>1. Init => RunInv /\ TurnInv BY InitSound, InitTurn
<1>2. (RunInv /\ TurnInv) /\ [Next]_vars => (RunInv /\ TurnInv)'
  BY StepSound, TurnStep
<1> QED BY <1>1, <1>2, PTL DEF Spec

\* A write to the row is that of the call whose turn it is.
LEMMA RowWrites ==
  ASSUME RunInv, TurnInv, Serial, [Next]_vars
  PROVE  /\ Continues(row', row)
         /\ row.status = "cancelled" => row' = row
<1>1. row \in Row BY HasTurn, Zenon DEF RunInv, Sound
<1>2. Continues(row, row) BY <1>1 DEF Continues, Row
<1>3. CASE UNCHANGED row
  BY <1>2, <1>3
<1>4. ASSUME NEW a \in Actors,
             Save(a) \/ Complete(a) \/ Park(a) \/ Return(a) \/ PlanWrite(a)
                     \/ CancelWrite(a)
      PROVE  Continues(row', row) /\ row.status # "cancelled"
  <2>1. frame[a].pc \notin {"idle", "log"}
    BY <1>4 DEF Save, Complete, Park, Return, PlanWrite, CancelWrite
  <2>2. row.status # "cancelled" BY <2>1, HasTurn
  <2> QED BY <1>4, <2>2, PersistTurn
<1>5. UNCHANGED row \/ \E a \in Actors :
        Save(a) \/ Complete(a) \/ Park(a) \/ Return(a) \/ PlanWrite(a)
                \/ CancelWrite(a)
  BY DEF Next, Harness, Steering, Trouble, Execute, Exhaust, Checkpoint, Refuse,
         Emit, LogSteering, CapabilityThrows, EmitThrows, SaveThrows, Abort,
         Approve, Skip, Cancel, Load, vars
<1> QED BY <1>3, <1>4, <1>5

\* With one call at a time the persisted run never goes back to a step it had
\* passed, and keeps the steps behind its cursor, whatever the plan is, through
\* parking, resuming and revisions, and wherever a call fails or dies.
THEOREM CursorGoesForward == Spec => CursorForward
<1>1. ASSUME RunInv, TurnInv, [Next]_vars, Serial
      PROVE  /\ row'.cursor >= row.cursor
             /\ \A n \in 1..(row.cursor - 1) : row'.steps[n] = row.steps[n]
  BY <1>1, RowWrites DEF Continues
<1>2. RunInv /\ TurnInv /\ [Next]_vars =>
        [Serial => /\ row'.cursor >= row.cursor
                   /\ \A n \in 1..(row.cursor - 1) :
                        row'.steps[n] = row.steps[n]]_row
  BY <1>1
<1> QED BY <1>2, TurnInvariant, PTL DEF Spec, CursorForward

\* And a cancelled run stays cancelled, whatever fails.
THEOREM CancelledForGood == Spec => CancelSticks
<1>1. RunInv /\ TurnInv /\ [Next]_vars =>
        [Serial /\ row.status = "cancelled" => row'.status = "cancelled"]_row
  BY RowWrites
<1> QED BY <1>1, TurnInvariant, PTL DEF Spec, CancelSticks
-----------------------------------------------------------------------------
(* Calls that do not fail either: where each step's effect is.             *)

\* The first n steps of the plan r.
Upto(r, n) == {r.steps[i].id : i \in 1..n}

\* In the plan r, whose first n steps are over: each step is there once, an
\* inserted one with the step that asked for it over, and every step of begun,
\* those that took effect or were skipped, is over.
Traced(r, n, begun) ==
  /\ \A i, j \in 1..Len(r.steps) : r.steps[i].id = r.steps[j].id => i = j
  /\ \A i \in 1..Len(r.steps) :
       r.steps[i].id[2] > 0 => <<r.steps[i].id[1], 0>> \in Upto(r, n)
  /\ begun \subseteq Upto(r, n)

Over(f) == IF f.pc \in {"emit", "save"} THEN f.copy.cursor ELSE f.copy.cursor - 1

\* The run is in the hands of the call under way, or in its row.
InHands(f) == f.pc \notin {"idle", "cancel", "log"}

BegunSteps == {id \in Ids : ran[id] > 0 \/ id \in skips}

TraceInv ==
  Orderly =>
    /\ \A a \in Actors : InHands(frame[a]) =>
         Traced(frame[a].copy, Over(frame[a]), BegunSteps)
    /\ (\A a \in Actors : ~InHands(frame[a])) =>
         Traced(row, row.cursor - 1, BegunSteps)
    /\ EffectsOnce
    /\ \A id \in skips : ran[id] = 0

\* What a touch leaves of a plan.
LEMMA TouchedTraced ==
  ASSUME NEW r \in Row, NEW c, Touched(c, r), NEW n \in Int, n <= Len(r.steps),
         NEW B, Traced(r, n, B)
  PROVE  Traced(c, n, B)
<1>1. Len(c.steps) = Len(r.steps) /\ Len(r.steps) \in Nat
      /\ \A i \in 1..Len(r.steps) : c.steps[i].id = r.steps[i].id
  BY DEF Touched, Row
<1>2. \A i \in 1..n : i \in 1..Len(r.steps) BY <1>1
<1>3. Upto(c, n) = Upto(r, n) BY <1>1, <1>2 DEF Upto
<1> QED BY <1>1, <1>3 DEF Traced

\* The step under the cursor has not begun.
LEMMA NowNotBegun ==
  ASSUME NEW r \in Row, HasStep(r), NEW B, Traced(r, r.cursor - 1, B)
  PROVE  Now(r).id \notin B
<1>1. r.cursor \in 1..Len(r.steps) /\ Len(r.steps) \in Nat BY DEF Row, HasStep
<1>2. SUFFICES ASSUME Now(r).id \in Upto(r, r.cursor - 1) PROVE FALSE
  BY DEF Traced
<1>3. PICK i \in 1..(r.cursor - 1) : Now(r).id = r.steps[i].id BY <1>2 DEF Upto
<1>4. i \in 1..Len(r.steps) /\ i # r.cursor BY <1>1, <1>3
<1>5. r.steps[r.cursor].id = r.steps[i].id BY <1>3 DEF Now
<1> QED BY <1>1, <1>4, <1>5 DEF Traced

\* Once it is over it may have.
LEMMA NowOver ==
  ASSUME NEW r \in Row, HasStep(r), NEW B, Traced(r, r.cursor - 1, B)
  PROVE  /\ Traced(r, r.cursor, B \cup {Now(r).id})
         /\ Upto(r, r.cursor - 1) \subseteq Upto(r, r.cursor)
         /\ Now(r).id \in Upto(r, r.cursor)
<1>1. r.cursor \in 1..Len(r.steps) /\ Len(r.steps) \in Nat BY DEF Row, HasStep
<1>2. Upto(r, r.cursor - 1) \subseteq Upto(r, r.cursor) BY <1>1 DEF Upto
<1>3. Now(r).id \in Upto(r, r.cursor) BY <1>1 DEF Upto, Now
<1> QED BY <1>2, <1>3 DEF Traced

\* Only a step of the plan asks for steps.
LEMMA RevisionsPlanned ==
  ASSUME NEW id \in Ids, Kinds[id] = "revise"
  PROVE  id = <<id[1], 0>>
<1>1. Len(Extra) \in Nat BY AgentAssumption
<1>2. id = <<id[1], id[2]>> /\ id[2] \in 0..Len(Extra) BY DEF Ids
<1>3. ASSUME id[2] # 0 PROVE FALSE
  <2>1. Kinds[id] = Extra[id[2]] BY <1>3 DEF Kinds
  <2>2. id[2] \in 1..Len(Extra) BY <1>1, <1>2, <1>3
  <2>3. Extra[id[2]] # "revise" BY <2>2, AgentAssumption
  <2> QED BY <2>1, <2>3
<1> QED BY <1>2, <1>3

\* And what it asked for is new in a plan it is under the cursor of.
LEMMA AskedAreNew ==
  ASSUME NEW r \in Row, HasStep(r), NEW B, Traced(r, r.cursor - 1, B),
         Kind(r) = "revise", NEW i \in 1..Len(r.steps), NEW n \in Nat, n > 0
  PROVE  r.steps[i].id # <<Now(r).id[1], n>>
<1>1. SUFFICES ASSUME r.steps[i].id = <<Now(r).id[1], n>> PROVE FALSE OBVIOUS
<1>2. Now(r).id = <<Now(r).id[1], 0>>
  BY NowIsStep, RevisionsPlanned DEF Kind
<1>3. r.steps[i].id[2] = n /\ r.steps[i].id[1] = Now(r).id[1] BY <1>1
<1>4. <<r.steps[i].id[1], 0>> \in Upto(r, r.cursor - 1) BY <1>3 DEF Traced
<1>5. Now(r).id \in Upto(r, r.cursor - 1) BY <1>2, <1>3, <1>4
<1>6. Traced(r, r.cursor - 1, {Now(r).id}) BY <1>5 DEF Traced
<1> QED BY <1>6, NowNotBegun

\* So a revised plan has each of its steps once still.
LEMMA RevisedTraced ==
  ASSUME NEW r \in Row, HasStep(r), NEW B, Traced(r, r.cursor - 1, B)
  PROVE  Traced(Revised(r), r.cursor, B \cup {Now(r).id})
<1>1. PICK s : s = r.steps OBVIOUS
<1>2. PICK k : k = r.cursor OBVIOUS
<1>3. PICK q : q = Revised(r).steps OBVIOUS
<1>4. PICK e : e = Asked(r) OBVIOUS
<1>5. PICK l : l = Len(s) OBVIOUS
<1>6. PICK id : id = Now(r).id OBVIOUS
<1>7. /\ s \in Seq(Step) /\ l \in Nat /\ k \in 1..l /\ e \in Nat
      /\ Len(q) = l + e
  BY <1>1, <1>2, <1>3, <1>4, <1>5, RevisedPlan DEF HasStep, Row
<1>8. /\ \A n \in 1..k : q[n] = s[n]
      /\ \A n \in 1..e : q[k + n].id = <<id[1], n>>
      /\ \A n \in (k + 1)..l : q[n + e] = s[n]
  BY <1>1, <1>2, <1>3, <1>4, <1>5, <1>6, RevisedPlan
<1>9. /\ \A i, j \in 1..l : s[i].id = s[j].id => i = j
      /\ \A i \in 1..l : s[i].id[2] > 0 => <<s[i].id[1], 0>> \in Upto(r, k - 1)
  BY <1>1, <1>2, <1>5 DEF Traced
<1>10. e > 0 => Kind(r) = "revise" BY <1>4 DEF Asked
<1>11. \A n \in 1..e : \A i \in 1..l : s[i].id # <<id[1], n>>
  <2> SUFFICES ASSUME NEW n \in 1..e, NEW i \in 1..l
               PROVE  s[i].id # <<id[1], n>>
    OBVIOUS
  <2>1. n \in Nat /\ n > 0 /\ Kind(r) = "revise" BY <1>7, <1>10
  <2>2. i \in 1..Len(r.steps) BY <1>1, <1>5
  <2>3. r.steps[i].id # <<Now(r).id[1], n>> BY <2>1, <2>2, AskedAreNew
  <2> QED BY <1>1, <1>6, <2>3
<1> DEFINE Old(i) == i \in 1..k \/ i \in (k + e + 1)..(l + e)
           From(i) == IF i \in 1..k THEN i ELSE i - e
<1>12. \A i \in 1..(l + e) : Old(i) \/ i \in (k + 1)..(k + e) BY <1>7
<1>13. ASSUME NEW i \in 1..(l + e), Old(i)
       PROVE  From(i) \in 1..l /\ q[i] = s[From(i)]
  <2>1. CASE i \in 1..k BY <1>7, <1>8, <2>1
  <2>2. CASE i \in (k + e + 1)..(l + e)
    <3>1. /\ i - e \in (k + 1)..l /\ (i - e) + e = i /\ From(i) = i - e
          /\ i - e \in 1..l
      BY <1>7, <2>2
    <3>2. q[(i - e) + e] = s[i - e] BY <1>8, <3>1
    <3> QED BY <3>1, <3>2
  <2> QED BY <1>13, <2>1, <2>2
<1>14. ASSUME NEW i \in (k + 1)..(k + e)
       PROVE  i - k \in 1..e /\ q[i].id = <<id[1], i - k>>
  <2>1. i - k \in 1..e /\ k + (i - k) = i BY <1>7
  <2>2. q[k + (i - k)].id = <<id[1], i - k>> BY <1>8, <2>1
  <2> QED BY <2>1, <2>2
<1>15. \A i, j \in 1..(l + e) : Old(i) /\ Old(j) /\ From(i) = From(j) => i = j
  BY <1>7
<1> HIDE DEF Old, From
<1>16. ASSUME NEW i \in 1..(l + e), NEW j \in 1..(l + e), q[i].id = q[j].id
       PROVE  i = j
  <2>1. CASE Old(i) /\ Old(j)
    <3>1. s[From(i)].id = s[From(j)].id BY <1>13, <1>16, <2>1
    <3>2. From(i) \in 1..l /\ From(j) \in 1..l BY <1>13, <2>1
    <3>3. From(i) = From(j) BY <1>9, <3>1, <3>2
    <3> QED BY <1>15, <2>1, <3>3
  <2>2. CASE i \in (k + 1)..(k + e) /\ j \in (k + 1)..(k + e)
    <3>1. i - k = j - k BY <1>14, <1>16, <2>2
    <3> QED BY <1>7, <2>2, <3>1
  <2>3. ASSUME NEW x \in 1..(l + e), NEW y \in (k + 1)..(k + e), Old(x),
               q[x].id = q[y].id
        PROVE  FALSE
    <3>1. From(x) \in 1..l /\ s[From(x)].id = q[x].id BY <1>13, <2>3
    <3>2. y - k \in 1..e /\ q[y].id = <<id[1], y - k>> BY <1>14
    <3> QED BY <1>11, <2>3, <3>1, <3>2
  <2> QED BY <1>12, <1>16, <2>1, <2>2, <2>3
<1>17. PICK c : c = Revised(r) OBVIOUS
<1>18. Upto(c, k) = Upto(r, k) BY <1>1, <1>3, <1>8, <1>17 DEF Upto
<1>19. /\ Upto(r, k - 1) \subseteq Upto(r, k) /\ id \in Upto(r, k)
       /\ B \cup {id} \subseteq Upto(r, k)
  BY <1>2, <1>6, NowOver DEF Traced
<1>20. ASSUME NEW i \in 1..(l + e), q[i].id[2] > 0
       PROVE  <<q[i].id[1], 0>> \in Upto(r, k)
  <2>1. CASE Old(i)
    <3>1. From(i) \in 1..l /\ s[From(i)].id = q[i].id BY <1>13, <2>1
    <3> QED BY <1>9, <1>19, <1>20, <3>1
  <2>2. CASE i \in (k + 1)..(k + e)
    <3>1. e > 0 BY <1>7, <2>2
    <3>2. id = <<id[1], 0>>
      BY <1>6, <1>10, <3>1, NowIsStep, RevisionsPlanned DEF Kind
    <3>3. q[i].id[1] = id[1] BY <1>14, <2>2
    <3> QED BY <1>19, <3>2, <3>3
  <2> QED BY <1>12, <2>1, <2>2
<1> QED BY <1>2, <1>3, <1>6, <1>7, <1>16, <1>17, <1>18, <1>19, <1>20 DEF Traced

\* Who acts has the run in hand, or nobody has and it is in its row.
LEMMA HeldTrace ==
  ASSUME RunInv, TurnInv, TraceInv, Orderly, NEW a \in Actors,
         frame[a].pc # "idle" \/ Quiet
  PROVE  /\ InHands(frame[a]) => Traced(Copy(a), Over(frame[a]), BegunSteps)
         /\ ~InHands(frame[a]) => Traced(row, row.cursor - 1, BegunSteps)
         /\ EffectsOnce /\ \A id \in skips : ran[id] = 0
<1>1. \A b \in Actors : b # a => frame[b].pc = "idle"
  BY DEF TurnInv, OneCall, Quiet, Orderly
<1>2. ~InHands(frame[a]) => \A b \in Actors : ~InHands(frame[b])
  BY <1>1 DEF InHands
<1> QED BY <1>2 DEF TraceInv, Copy

\* It hands on what it has of it.
LEMMA TakesTrace ==
  ASSUME RunInv, TurnInv, Orderly, NEW a \in Actors, NEW f,
         frame' = [frame EXCEPT ![a] = f], frame[a].pc # "idle" \/ Quiet,
         InHands(f) => Traced(f.copy, Over(f), BegunSteps'),
         ~InHands(f) => Traced(row', row'.cursor - 1, BegunSteps'),
         EffectsOnce', \A id \in skips' : ran'[id] = 0
  PROVE  TraceInv'
<1>1. frame'[a] = f /\ \A b \in Actors : b # a => frame'[b] = frame[b]
  BY DEF RunInv, FramesInv
<1>2. \A b \in Actors : b # a => ~InHands(frame'[b])
  BY <1>1 DEF TurnInv, OneCall, Quiet, Orderly, InHands
<1>3. \A b \in Actors : InHands(frame'[b]) =>
        Traced(frame'[b].copy, Over(frame'[b]), BegunSteps')
  BY <1>1, <1>2
<1>4. (\A b \in Actors : ~InHands(frame'[b])) =>
        Traced(row', row'.cursor - 1, BegunSteps')
  BY <1>1
<1> QED BY <1>3, <1>4 DEF TraceInv, InHands, Over

\* A touch of the copy in hand hands it on,
LEMMA TouchingTrace ==
  ASSUME RunInv, TurnInv, TraceInv, Orderly, NEW a \in Actors, NEW pc, NEW c,
         Continue(a, pc, c), Touched(c, Copy(a)), UNCHANGED <<ran, skips>>,
         InHands(frame[a]), pc \notin {"idle", "cancel", "log"},
         pc \in {"emit", "save"} <=> frame[a].pc \in {"emit", "save"}
  PROVE  TraceInv'
<1>1. PICK r : r = Copy(a) OBVIOUS
<1>2. frame[a].pc # "idle" BY DEF InHands
<1>3. r \in Row /\ InPlan(r) /\ (frame[a].pc \in {"emit", "save"} => HasStep(r))
  BY <1>1, HasTurn DEF Orderly
<1>4. PICK n : n = Over(frame[a]) OBVIOUS
<1>5. Traced(r, n, BegunSteps) /\ EffectsOnce /\ \A id \in skips : ran[id] = 0
  BY <1>1, <1>2, <1>4, HeldTrace
<1>6. n \in Int /\ n <= Len(r.steps)
  <2>1. Copy(a) = frame[a].copy BY DEF Copy
  <2> QED BY <1>1, <1>3, <1>4, <2>1 DEF Over, InPlan, HasStep, Row
<1>7. Traced(c, n, BegunSteps) BY <1>1, <1>3, <1>5, <1>6, TouchedTraced
<1>8. PICK f : f = [pc |-> pc, copy |-> c] OBVIOUS
<1>9. f.pc = pc /\ f.copy = c BY <1>8
<1>10. Over(f) = n
  BY <1>1, <1>4, <1>9 DEF Over, Touched, Copy
<1>11. BegunSteps' = BegunSteps BY DEF BegunSteps
<1>12. EffectsOnce' /\ \A id \in skips' : ran'[id] = 0 BY <1>5 DEF EffectsOnce
<1>13. frame' = [frame EXCEPT ![a] = f] BY <1>8 DEF Continue
<1>14. InHands(f) /\ Traced(f.copy, Over(f), BegunSteps')
  BY <1>7, <1>9, <1>10, <1>11 DEF InHands
<1> QED BY <1>2, <1>12, <1>13, <1>14, TakesTrace

\* so the harness does when it marks a step, spends a call or starts over.
LEMMA CopyTrace ==
  ASSUME RunInv, TurnInv, TraceInv, Orderly, NEW a \in Actors,
         Exhaust(a) \/ Checkpoint(a) \/ Refuse(a) \/ Emit(a) \/ Complete(a)
                    \/ PlanWrite(a)
  PROVE  TraceInv'
<1>1. PICK r : r = Copy(a) OBVIOUS
<1>2. r \in Row /\ (frame[a].pc = "emit" => HasStep(r))
  BY <1>1, HasTurn DEF Orderly
<1>3. UNCHANGED <<ran, skips>> /\ InHands(frame[a])
  BY DEF Exhaust, Checkpoint, Refuse, Emit, Complete, PlanWrite, Looping, ghosts,
         InHands
<1>4. ASSUME NEW s \in RunStatus,
             \/ Exhaust(a) /\ s = "exhausted"
             \/ Complete(a) /\ s = "completed"
             \/ PlanWrite(a) /\ s = "running"
      PROVE  TraceInv'
  <2>1. PICK c : c = [r EXCEPT !.status = s] OBVIOUS
  <2>2. PICK pc \in {"park", "return", "loop"} : Continue(a, pc, c)
    BY <1>1, <1>4, <2>1 DEF Exhaust, Complete, PlanWrite
  <2>3. Touched(c, r) BY <1>2, <2>1, StatusTouches
  <2>4. frame[a].pc \notin {"emit", "save"}
    BY <1>4 DEF Exhaust, Complete, PlanWrite, Looping
  <2> QED BY <1>1, <1>3, <2>2, <2>3, <2>4, TouchingTrace
<1>5. CASE Checkpoint(a)
  <2>1. HasStep(r) BY <1>1, <1>5 DEF Checkpoint, Looping
  <2>2. PICK m : m = Mark(r, "awaiting_human") OBVIOUS
  <2>3. PICK c : c = [m EXCEPT !.status = "awaiting_checkpoint"] OBVIOUS
  <2>4. Continue(a, "park", c) /\ frame[a].pc = "loop"
    BY <1>1, <1>5, <2>2, <2>3 DEF Checkpoint, Looping
  <2>5. Touched(m, r) BY <1>2, <2>1, <2>2, MarkTouches DEF StepStatus
  <2>6. m \in Row
    <3>1. Sound(r, consent) BY <1>1, InHand DEF RunInv
    <3> QED BY <2>2, <3>1, MarkSound DEF Sound, StepStatus
  <2>7. c.steps = m.steps /\ c.cursor = m.cursor BY <2>3, <2>6 DEF Row
  <2>8. Touched(c, r) BY <2>5, <2>7 DEF Touched
  <2> QED BY <1>1, <1>3, <2>4, <2>8, TouchingTrace
<1>6. CASE Refuse(a)
  <2>1. HasStep(r) /\ Continue(a, "park", Fail(r)) /\ frame[a].pc = "loop"
    BY <1>1, <1>6 DEF Refuse, Looping
  <2>2. Touched(Fail(r), r) BY <1>2, <2>1, FailTouches
  <2> QED BY <1>1, <1>3, <2>1, <2>2, TouchingTrace
<1>7. CASE Emit(a)
  <2>1. Continue(a, "save", Spent(r)) /\ frame[a].pc = "emit"
    BY <1>1, <1>7 DEF Emit
  <2>2. Touched(Spent(r), r) BY <1>2, SpentTouches
  <2> QED BY <1>1, <1>3, <2>1, <2>2, TouchingTrace
<1> QED BY <1>4, <1>5, <1>6, <1>7 DEF RunStatus

\* A capability takes effect that has not before.
LEMMA ExecuteTrace ==
  ASSUME RunInv, TurnInv, TraceInv, Orderly, NEW a \in Actors, Execute(a)
  PROVE  TraceInv'
<1>1. PICK r : r = Copy(a) OBVIOUS
<1>2. PICK m : m = Mark(r, "done") OBVIOUS
<1>3. PICK i : i = Now(r).id OBVIOUS
<1>4. PICK f : f = [pc |-> "emit", copy |-> Revised(m)] OBVIOUS
<1>5. /\ r \in Row /\ HasStep(r) /\ frame[a].pc = "loop"
      /\ r.cursor \in 1..Len(r.steps) /\ Len(r.steps) \in Nat
  BY <1>1, HasTurn DEF Execute, Looping, HasStep, Row, Orderly
<1>6. Traced(r, r.cursor - 1, BegunSteps) /\ EffectsOnce
      /\ \A id \in skips : ran[id] = 0
  BY <1>1, <1>5, HeldTrace DEF InHands, Over, Copy
<1>7. m \in Row
  <2>1. Sound(r, consent) BY <1>1, InHand DEF RunInv
  <2> QED BY <1>2, <2>1, MarkSound DEF Sound, StepStatus
<1>8. Touched(m, r) BY <1>2, <1>5, MarkTouches DEF StepStatus
<1>9. HasStep(m) /\ m.cursor = r.cursor /\ Now(m).id = i
  BY <1>3, <1>5, <1>8 DEF Touched, HasStep, Now
<1>10. Traced(m, m.cursor - 1, BegunSteps)
  <2>1. r.cursor - 1 \in Int /\ r.cursor - 1 <= Len(r.steps) BY <1>5
  <2> QED BY <1>5, <1>6, <1>8, <1>9, <2>1, TouchedTraced
<1>11. Traced(Revised(m), m.cursor, BegunSteps \cup {i})
  BY <1>7, <1>9, <1>10, RevisedTraced
<1>12. i \in Ids /\ i \notin BegunSteps
  BY <1>3, <1>5, <1>6, NowIsStep, NowNotBegun
<1>13. ran' = [ran EXCEPT ![i] = @ + 1] /\ UNCHANGED skips
  BY <1>1, <1>3 DEF Execute
<1>14. ran \in [Ids -> Nat] /\ ran[i] = 0 /\ i \notin skips
  BY <1>12 DEF RunInv, CountsOK, BegunSteps
<1>15. \A id \in Ids : ran'[id] = IF id = i THEN 1 ELSE ran[id]
  BY <1>12, <1>13, <1>14
<1>16. BegunSteps' = BegunSteps \cup {i}
  BY <1>12, <1>13, <1>15 DEF BegunSteps
<1>17. EffectsOnce' BY <1>6, <1>15 DEF EffectsOnce
<1>18. \A id \in skips' : ran'[id] = 0
  BY <1>6, <1>13, <1>14, <1>15 DEF RunInv, CountsOK
<1>19. frame' = [frame EXCEPT ![a] = f]
  BY <1>1, <1>2, <1>4 DEF Execute, Continue
<1>20. f.pc = "emit" /\ f.copy = Revised(m) /\ Revised(m).cursor = m.cursor
  BY <1>4, <1>7, <1>9, RevisedPlan
<1>21. InHands(f) /\ Traced(f.copy, Over(f), BegunSteps')
  BY <1>11, <1>16, <1>20 DEF InHands, Over
<1> QED BY <1>5, <1>17, <1>18, <1>19, <1>21, TakesTrace

\* Where the cursor is does not matter to what is over.
LEMMA SameStepsTraced ==
  ASSUME NEW r, NEW c, c.steps = r.steps, NEW n, NEW B, Traced(r, n, B)
  PROVE  Traced(c, n, B)
<1>1. Upto(c, n) = Upto(r, n) BY DEF Upto
<1> QED BY <1>1 DEF Traced

\* A call that persists what it has leaves it to the row, or goes on with it.
LEMMA PersistTrace ==
  ASSUME RunInv, TurnInv, TraceInv, Orderly, NEW a \in Actors,
         Save(a) \/ Park(a) \/ Return(a) \/ CancelWrite(a) \/ LogSteering(a)
  PROVE  TraceInv'
<1>1. PICK r : r = Copy(a) OBVIOUS
<1>2. /\ r \in Row /\ row \in Row /\ frame[a].pc # "idle"
      /\ UNCHANGED <<ran, skips>>
  BY <1>1, HasTurn DEF Save, Park, Return, CancelWrite, LogSteering, ghosts, Orderly
<1>3. /\ InHands(frame[a]) => Traced(r, Over(frame[a]), BegunSteps)
      /\ ~InHands(frame[a]) => Traced(row, row.cursor - 1, BegunSteps)
      /\ EffectsOnce /\ \A id \in skips : ran[id] = 0
  BY <1>1, <1>2, HeldTrace
<1>4. /\ EffectsOnce' /\ \A id \in skips' : ran'[id] = 0
      /\ BegunSteps' = BegunSteps
  BY <1>2, <1>3 DEF EffectsOnce, BegunSteps
<1>5. CASE Save(a)
  <2>1. PICK c : c = Advanced(r) OBVIOUS
  <2>2. c.steps = r.steps /\ c.cursor = r.cursor + 1
    BY <1>2, <2>1 DEF Advanced, Row
  <2>3. Traced(r, r.cursor, BegunSteps)
    BY <1>1, <1>3, <1>5 DEF Save, InHands, Over, Copy
  <2>4. Traced(c, c.cursor - 1, BegunSteps)
    <3>1. c.cursor - 1 = r.cursor BY <1>2, <2>2 DEF Row
    <3> QED BY <2>2, <2>3, <3>1, SameStepsTraced
  <2>5. PICK f : f = [pc |-> "loop", copy |-> c] OBVIOUS
  <2>6. f.pc = "loop" /\ f.copy = c BY <2>5
  <2>7. frame' = [frame EXCEPT ![a] = f]
    BY <1>1, <1>5, <2>1, <2>5 DEF Save, Continue
  <2>8. InHands(f) /\ Traced(f.copy, Over(f), BegunSteps')
    BY <1>4, <2>4, <2>6 DEF InHands, Over
  <2> QED BY <1>2, <1>4, <2>7, <2>8, TakesTrace
<1>6. CASE Park(a)
  <2>1. PICK f : f = [pc |-> "return", copy |-> r] OBVIOUS
  <2>2. f.pc = "return" /\ f.copy = r BY <2>1
  <2>3. frame' = [frame EXCEPT ![a] = f]
    BY <1>1, <1>6, <2>1, WentTo DEF RunInv, Park
  <2>4. Traced(r, r.cursor - 1, BegunSteps)
    BY <1>1, <1>3, <1>6 DEF Park, InHands, Over, Copy
  <2>5. InHands(f) /\ Traced(f.copy, Over(f), BegunSteps')
    BY <1>4, <2>2, <2>4 DEF InHands, Over
  <2> QED BY <1>2, <1>4, <2>3, <2>5, TakesTrace
<1>7. CASE Return(a) \/ CancelWrite(a) \/ LogSteering(a)
  <2>1. Traced(row', row'.cursor - 1, BegunSteps')
    <3>1. CASE Return(a)
      BY <1>1, <1>3, <1>4, <3>1 DEF Return, InHands, Over, Copy
    <3>2. CASE CancelWrite(a)
      <4>1. row' = [row EXCEPT !.status = "cancelled"] BY <3>2 DEF CancelWrite
      <4>2. row'.steps = row.steps /\ row'.cursor = row.cursor
        BY <1>2, <4>1 DEF Row
      <4>3. Traced(row, row.cursor - 1, BegunSteps)
        BY <1>3, <3>2 DEF CancelWrite, InHands
      <4> QED BY <1>4, <4>2, <4>3, SameStepsTraced
    <3>3. CASE LogSteering(a)
      BY <1>3, <1>4, <3>3 DEF LogSteering, InHands
    <3> QED BY <1>7, <3>1, <3>2, <3>3
  <2>2. PICK f : frame' = [frame EXCEPT ![a] = f] /\ ~InHands(f)
    <3>1. CASE GoTo(a, "log")
      <4>1. PICK f : f = [pc |-> "log", copy |-> r] OBVIOUS
      <4>2. frame' = [frame EXCEPT ![a] = f] BY <1>1, <3>1, <4>1, WentTo DEF RunInv
      <4>3. f.pc = "log" BY <4>1
      <4> QED BY <4>2, <4>3 DEF InHands
    <3>2. CASE Finish(a)
      <4>1. PICK f : f = Idle OBVIOUS
      <4>2. frame' = [frame EXCEPT ![a] = f] BY <3>2, <4>1 DEF Finish
      <4>3. f.pc = "idle" BY <4>1 DEF Idle
      <4> QED BY <4>2, <4>3 DEF InHands
    <3> QED BY <1>7, <3>1, <3>2 DEF Return, CancelWrite, LogSteering
  <2> QED BY <1>2, <1>4, <2>1, <2>2, TakesTrace
<1> QED BY <1>5, <1>6, <1>7

\* A steering call takes the run from its row.
LEMMA LoadTrace ==
  ASSUME RunInv, TurnInv, TraceInv, Orderly, NEW a \in Actors,
         Approve(a) \/ Skip(a) \/ Cancel(a)
  PROVE  TraceInv'
<1>1. PICK r : r = row OBVIOUS
<1>2. /\ Quiet /\ frame[a].pc = "idle" /\ UNCHANGED <<row, ran>>
  BY DEF Approve, Skip, Cancel, Load, Orderly, Serial
<1>3. r \in Row /\ InPlan(r) BY <1>1, HasTurn DEF Orderly
<1>4. /\ Traced(r, r.cursor - 1, BegunSteps)
      /\ EffectsOnce /\ \A id \in skips : ran[id] = 0
  BY <1>1, <1>2, HeldTrace DEF InHands
<1>5. r.cursor - 1 \in Int /\ r.cursor - 1 <= Len(r.steps)
  BY <1>3 DEF InPlan, Row
<1>6. EffectsOnce' BY <1>2, <1>4 DEF EffectsOnce
<1>7. CASE Approve(a)
  <2>1. PICK c : c = [r EXCEPT !.steps[r.cursor].approved = TRUE,
                               !.steps[r.cursor].status = "pending"]
    OBVIOUS
  <2>2. HasStep(r) /\ Continue(a, "approve", c) /\ UNCHANGED skips
    BY <1>1, <1>7, <2>1 DEF Approve, Load
  <2>3. Touched(c, r) BY <1>3, <2>1, <2>2, ApproveTouches
  <2>4. c.cursor = r.cursor /\ Traced(c, c.cursor - 1, BegunSteps)
    BY <1>3, <1>4, <1>5, <2>3, TouchedTraced DEF Touched
  <2>5. PICK f : f = [pc |-> "approve", copy |-> c] OBVIOUS
  <2>6. f.pc = "approve" /\ f.copy = c BY <2>5
  <2>7. frame' = [frame EXCEPT ![a] = f] BY <2>2, <2>5 DEF Continue
  <2>8. BegunSteps' = BegunSteps BY <1>2, <2>2 DEF BegunSteps
  <2>9. InHands(f) /\ Traced(f.copy, Over(f), BegunSteps')
    BY <2>4, <2>6, <2>8 DEF InHands, Over
  <2> QED BY <1>2, <1>4, <1>6, <2>2, <2>7, <2>9, TakesTrace
<1>8. CASE Skip(a)
  <2>1. PICK m : m = Mark(r, "skipped") OBVIOUS
  <2>2. PICK c : c = Advanced(m) OBVIOUS
  <2>3. PICK i : i = Now(r).id OBVIOUS
  <2>4. HasStep(r) /\ Continue(a, "skip", c) /\ skips' = skips \cup {i}
    BY <1>1, <1>8, <2>1, <2>2, <2>3 DEF Skip, Load
  <2>5. Touched(m, r) BY <1>3, <2>1, <2>4, MarkTouches DEF StepStatus
  <2>6. m \in Row
    <3>1. Sound(r, consent) BY <1>1 DEF RunInv
    <3> QED BY <2>1, <3>1, MarkSound DEF Sound, StepStatus
  <2>7. HasStep(m) /\ m.cursor = r.cursor /\ Now(m).id = i
    BY <1>3, <2>3, <2>4, <2>5 DEF Touched, HasStep, Now, Row
  <2>8. Traced(m, m.cursor - 1, BegunSteps)
    BY <1>3, <1>4, <1>5, <2>5, <2>7, TouchedTraced
  <2>9. Traced(m, m.cursor, BegunSteps \cup {i}) BY <2>6, <2>7, <2>8, NowOver
  <2>10. /\ c.steps = m.steps /\ c.cursor - 1 = m.cursor
    BY <2>2, <2>6 DEF Advanced, Row
  <2>11. Traced(c, c.cursor - 1, BegunSteps \cup {i})
    BY <2>9, <2>10, SameStepsTraced
  <2>12. i \in Ids /\ i \notin BegunSteps
    BY <1>3, <1>4, <2>3, <2>4, NowIsStep, NowNotBegun
  <2>13. BegunSteps' = BegunSteps \cup {i}
    BY <1>2, <2>4, <2>12 DEF BegunSteps
  <2>14. ran[i] = 0 BY <2>12 DEF BegunSteps, RunInv, CountsOK
  <2>15. \A id \in skips' : ran'[id] = 0 BY <1>2, <1>4, <2>4, <2>14
  <2>16. PICK f : f = [pc |-> "skip", copy |-> c] OBVIOUS
  <2>17. f.pc = "skip" /\ f.copy = c BY <2>16
  <2>18. frame' = [frame EXCEPT ![a] = f] BY <2>4, <2>16 DEF Continue
  <2>19. InHands(f) /\ Traced(f.copy, Over(f), BegunSteps')
    BY <2>11, <2>13, <2>17 DEF InHands, Over
  <2> QED BY <1>2, <1>6, <2>15, <2>18, <2>19, TakesTrace
<1>9. CASE Cancel(a)
  <2>1. PICK f : f = [pc |-> "cancel", copy |-> r] OBVIOUS
  <2>2. frame' = [frame EXCEPT ![a] = f] /\ UNCHANGED skips
    BY <1>1, <1>9, <2>1 DEF Cancel, Load, Continue
  <2>3. ~InHands(f) BY <2>1 DEF InHands
  <2>4. BegunSteps' = BegunSteps BY <1>2, <2>2 DEF BegunSteps
  <2>5. Traced(row', row'.cursor - 1, BegunSteps') BY <1>1, <1>2, <1>4, <2>4
  <2> QED BY <1>2, <1>4, <1>6, <2>2, <2>3, <2>5, TakesTrace
<1> QED BY <1>7, <1>8, <1>9

\* Every step keeps track of the effects.
LEMMA TraceStep == RunInv /\ TurnInv /\ TraceInv /\ [Next]_vars => TraceInv'
<1> SUFFICES ASSUME RunInv, TurnInv, TraceInv, [Next]_vars, Orderly'
             PROVE  TraceInv'
  BY DEF TraceInv
<1>1. Orderly BY SameTerms DEF Orderly, Serial, Faultless
<1>2. CASE UNCHANGED vars
  BY <1>1, <1>2 DEF vars, ghosts, TraceInv, InHands, Over, BegunSteps, EffectsOnce
<1>3. ASSUME NEW a \in Actors, Harness(a) \/ Steering(a)
                               \/ Approve(a) \/ Skip(a) \/ Cancel(a)
      PROVE  TraceInv'
  BY <1>1, <1>3, ExecuteTrace, CopyTrace, PersistTrace, LoadTrace
     DEF Harness, Steering
<1>4. \A a \in Actors : ~Trouble(a)
  BY <1>1 DEF Orderly, Faultless, Trouble, CapabilityThrows, EmitThrows, SaveThrows,
              Abort
<1> QED BY <1>2, <1>3, <1>4 DEF Next

\* A plan starts with each of its steps once and none of them begun.
LEMMA InitTrace == Init => TraceInv
<1> SUFFICES ASSUME Init PROVE TraceInv OBVIOUS
<1>1. PICK k \in 1..Len(Plan) :
        /\ row = PlannedRow(k)
        /\ frame = [a \in Actors |->
                      IF a = Runner
                      THEN [pc |-> "loop",
                            copy |-> [PlannedRow(k) EXCEPT !.status = "running"]]
                      ELSE Idle]
  BY DEF Init
<1>2. k \in Nat BY <1>1, AgentAssumption
<1>3. PICK c : c = [PlannedRow(k) EXCEPT !.status = "running"] OBVIOUS
<1>4. /\ c.cursor = 1 /\ c.steps = [n \in 1..k |-> Fresh(<<n, 0>>)]
      /\ Len(c.steps) = k
  BY <1>2, <1>3 DEF PlannedRow
<1>5. \A n \in 1..k : c.steps[n].id = <<n, 0>> BY <1>4 DEF Fresh
<1>6. BegunSteps = {} /\ EffectsOnce /\ \A id \in skips : ran[id] = 0
  BY DEF Init, BegunSteps, EffectsOnce
<1>7. Traced(c, 0, BegunSteps)
  BY <1>2, <1>4, <1>5, <1>6 DEF Traced
<1>8. frame[Runner] = [pc |-> "loop", copy |-> c]
      /\ \A a \in Actors : a # Runner => frame[a].pc = "idle"
  BY <1>1, <1>3 DEF Actors, Idle
<1>9. /\ frame[Runner].pc = "loop" /\ frame[Runner].copy = c /\ Runner \in Actors
      /\ Over(frame[Runner]) = 0
  BY <1>4, <1>8 DEF Over, Actors
<1> QED BY <1>6, <1>7, <1>8, <1>9 DEF TraceInv, InHands

LEMMA TraceInvariant == Spec => [](RunInv /\ TurnInv /\ TraceInv)
<1>1. Init => RunInv /\ TurnInv /\ TraceInv BY InitSound, InitTurn, InitTrace
<1>2. (RunInv /\ TurnInv /\ TraceInv) /\ [Next]_vars
        => (RunInv /\ TurnInv /\ TraceInv)'
  BY StepSound, TurnStep, TraceStep
<1> QED BY <1>1, <1>2, PTL DEF Spec

\* With one call at a time and no failure a step takes effect once at most,
\* whatever the plan and its revisions are, however often it is parked, approved
\* and resumed.
THEOREM StepsRunOnce == Spec => []RunsOnce
<1>1. TraceInv => RunsOnce BY DEF TraceInv, RunsOnce
<1> QED BY <1>1, TraceInvariant, PTL

\* And a step that a human skipped takes none.
THEOREM SkippedStaysOut == Spec => []SkippedNeverRuns
<1>1. TraceInv => SkippedNeverRuns BY DEF TraceInv, SkippedNeverRuns
<1> QED BY <1>1, TraceInvariant, PTL
=============================================================================
