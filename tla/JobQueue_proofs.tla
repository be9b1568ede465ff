--------------------------- MODULE JobQueue_proofs --------------------------
(* Proofs about JobQueue, for any number of processes and jobs.            *)
EXTENDS JobQueue, TLAPS

-----------------------------------------------------------------------------
(* The inductive invariant.                                                *)

\* An enqueue that is under way belongs to one process and has no row yet.
EnqueueInv ==
  /\ \A i \in Instances : \A j \in inflight[i] :
       /\ jobs[j].status = "absent"
       /\ \E n \in DOMAIN asked : asked[n] = j
       /\ \A k \in Instances \ {i} : j \notin inflight[k]
  /\ \A j \in Jobs :
       (\A n \in DOMAIN asked : asked[n] # j) => jobs[j].status = "absent"

\* What a worker that holds a row knows of it.
HolderInv ==
  \A i \in Instances : Holding(i) =>
    /\ worker[i].job \in Jobs
    /\ jobs[worker[i].job].status # "absent"
    /\ worker[i].attempts <= jobs[worker[i].job].attempts
    /\ worker[i].pc = "complete" => worker[i].job \in worked
    /\ worker[i].pc = "reject" => worker[i].job \notin Handled

QueueInv ==
  /\ TypeOK
  /\ EnqueueInv
  /\ HolderInv
  /\ ExclusiveUnlessReset
  /\ DoneWasWorked
  /\ FailedIsEarned

\* The initial state satisfies the invariant: no row, no worker.
LEMMA InitInv == Init => QueueInv
  BY QueueAssumption
  DEF Init, QueueInv, TypeOK, EnqueueInv, HolderInv, ExclusiveUnlessReset,
      DoneWasWorked, FailedIsEarned, Job, Worker, Resting, Holding

-----------------------------------------------------------------------------
(* Type correctness.                                                       *)

Statuses == {"absent", "queued", "running", "done", "failed"}

\* What the writes of the repository make of a row has its type.
LEMMA RowTypes ==
  ASSUME jobs \in [Jobs -> Job], NEW j \in Jobs,
         \/ InsertRow(j) \/ TakeRow(j) \/ RetryRow(j)
         \/ \E s \in Statuses : MarkRow(j, s)
  PROVE  jobs' \in [Jobs -> Job]
<1>1. CASE InsertRow(j) BY <1>1 DEF InsertRow, Job
<1>2. CASE TakeRow(j) BY <1>2 DEF TakeRow, Job
<1>3. CASE RetryRow(j) BY <1>3 DEF RetryRow, Job
<1>4. CASE \E s \in Statuses : MarkRow(j, s)
  <2>1. PICK s \in Statuses : MarkRow(j, s) BY <1>4
  <2> QED BY <2>1 DEF MarkRow, Job, Statuses
<1> QED BY <1>1, <1>2, <1>3, <1>4

\* So has a worker after a step of its own.
LEMMA WorkerTypes ==
  ASSUME worker \in [Instances -> Worker], NEW i \in Instances,
         \/ \E pc \in {"down", "idle", "claim"} : GoTo(i, Resting(pc))
         \/ \E pc \in {"complete", "settle"} : GoTo(i, [worker[i] EXCEPT !.pc = pc])
         \/ /\ jobs \in [Jobs -> Job]
            /\ \E j \in Jobs : GoTo(i, Taker(j))
  PROVE  worker' \in [Instances -> Worker]
<1>1. CASE \E pc \in {"down", "idle", "claim"} : GoTo(i, Resting(pc))
  BY <1>1 DEF GoTo, Resting, Worker
<1>2. CASE \E pc \in {"complete", "settle"} : GoTo(i, [worker[i] EXCEPT !.pc = pc])
  BY <1>2 DEF GoTo, Worker
<1>3. CASE jobs \in [Jobs -> Job] /\ \E j \in Jobs : GoTo(i, Taker(j))
  <2>1. PICK j \in Jobs : GoTo(i, Taker(j)) BY <1>3
  <2>2. jobs[j].attempts + 1 \in Nat BY <1>3 DEF Job
  <2>3. Taker(j) \in Worker BY <2>2 DEF Taker, Worker
  <2> QED BY <2>1, <2>3 DEF GoTo
<1> QED BY <1>1, <1>2, <1>3

\* A worker settles the row it holds.
LEMMA SettleRowTypes ==
  ASSUME TypeOK, HolderInv, NEW i \in Instances, worker[i].pc = "settle",
         SettleRow(i)
  PROVE  jobs' \in [Jobs -> Job]
<1>1. worker[i].job \in Jobs BY DEF HolderInv, Holding
<1> QED BY <1>1, RowTypes DEF SettleRow, Statuses, TypeOK

\* Type correctness is preserved by every step.
LEMMA TypeStep ==
  ASSUME TypeOK, EnqueueInv, HolderInv, [Next]_vars
  PROVE  TypeOK'
<1> USE DEF TypeOK
<1>1. ASSUME NEW i \in Instances, NEW j \in Jobs, Enqueue(i, j) PROVE TypeOK'
  BY <1>1 DEF Enqueue, countVars
<1>2. ASSUME NEW i \in Instances, NEW j \in Jobs, Persist(i, j) PROVE TypeOK'
  <2>1. jobs' \in [Jobs -> Job] BY <1>2, RowTypes DEF Persist
  <2> QED BY <1>2, <2>1 DEF Persist, countVars
<1>3. ASSUME NEW i \in Instances, NEW j \in Jobs, PersistFails(i, j)
      PROVE  TypeOK'
  <2>1. jobs' \in [Jobs -> Job] BY <1>3, RowTypes DEF PersistFails
  <2> QED BY <1>3, <2>1 DEF PersistFails, DbError
<1>4. ASSUME NEW i \in Instances,
             Nudge(i) \/ Poll(i) \/ NothingToClaim(i) \/ Boot(i)
      PROVE  TypeOK'
  <2>1. worker' \in [Instances -> Worker]
    BY <1>4, WorkerTypes DEF Nudge, Poll, NothingToClaim, Boot, StartDrain
  <2>2. nudge' \in [Instances -> BOOLEAN]
    BY <1>4 DEF Nudge, Poll, NothingToClaim, Boot, processVars
  <2> QED BY <1>4, <2>1, <2>2
      DEF Nudge, Poll, NothingToClaim, Boot, processVars, countVars
<1>5. ASSUME NEW i \in Instances, Claim(i) PROVE TypeOK'
  <2>1. PICK j \in Jobs : TakeRow(j) /\ GoTo(i, Taker(j)) BY <1>5 DEF Claim
  <2>2. jobs' \in [Jobs -> Job] BY <2>1, RowTypes
  <2>3. worker' \in [Instances -> Worker] BY <2>1, WorkerTypes
  <2> QED BY <1>5, <2>2, <2>3 DEF Claim, processVars, countVars
<1>6. ASSUME NEW i \in Instances, HandlerReturns(i) \/ HandlerThrows(i)
      PROVE  TypeOK'
  <2>1. worker' \in [Instances -> Worker]
    BY <1>6, WorkerTypes DEF HandlerReturns, HandlerThrows
  <2>2. worked' \in SUBSET Jobs
    BY <1>6 DEF HandlerReturns, HandlerThrows, HolderInv, Holding
  <2> QED BY <1>6, <2>1, <2>2
      DEF HandlerReturns, HandlerThrows, processVars, countVars
<1>7. ASSUME NEW i \in Instances, Complete(i) \/ Settle(i) \/ Reject(i)
      PROVE  TypeOK'
  <2>1. worker[i].job \in Jobs
    BY <1>7 DEF Complete, Settle, Reject, HolderInv, Holding
  <2>2. jobs' \in [Jobs -> Job]
    BY <1>7, <2>1, RowTypes, SettleRowTypes DEF Complete, Settle, Reject, Statuses
  <2>3. worker' \in [Instances -> Worker]
    BY <1>7, WorkerTypes DEF Complete, Settle, Reject, StartDrain
  <2> QED BY <1>7, <2>2, <2>3 DEF Complete, Settle, Reject, processVars, countVars
<1>8. ASSUME NEW i \in Instances, CompleteFails(i) PROVE TypeOK'
  <2>1. worker[i].job \in Jobs BY <1>8 DEF CompleteFails, HolderInv, Holding
  <2>2. jobs' \in [Jobs -> Job]
    BY <1>8, <2>1, RowTypes DEF CompleteFails, Statuses
  <2>3. worker' \in [Instances -> Worker] BY <1>8, WorkerTypes DEF CompleteFails
  <2> QED BY <1>8, <2>2, <2>3 DEF CompleteFails, DbError, processVars
<1>9. ASSUME NEW i \in Instances, TickFails(i) PROVE TypeOK'
  <2>1. jobs' \in [Jobs -> Job]
    <3>1. CASE worker[i].pc = "claim" /\ \E j \in Jobs : Foremost(j) /\ TakeRow(j)
      BY <3>1, RowTypes
    <3>2. CASE worker[i].pc = "settle" /\ SettleRow(i)
      BY <3>2, SettleRowTypes
    <3>3. CASE worker[i].pc = "reject" /\ MarkRow(worker[i].job, "failed")
      <4>1. worker[i].job \in Jobs BY <3>3 DEF HolderInv, Holding
      <4> QED BY <3>3, <4>1, RowTypes DEF Statuses
    <3> QED BY <1>9, <3>1, <3>2, <3>3 DEF TickFails
  <2>2. worker' \in [Instances -> Worker] BY <1>9, WorkerTypes DEF TickFails
  <2> QED BY <1>9, <2>1, <2>2 DEF TickFails, DbError, processVars
<1>10. ASSUME NEW i \in Instances, Recover(i) PROVE TypeOK'
  <2>1. ASSUME NEW j \in Jobs PROVE jobs'[j] \in Job
    BY <1>10 DEF Job, Recover
  <2>2. jobs' \in [Jobs -> Job] BY <1>10, <2>1 DEF Recover
  <2>3. reset' \in SUBSET Jobs /\ polling' \in [Instances -> BOOLEAN]
    BY <1>10 DEF Recover, StartPolling
  <2> QED BY <1>10, <2>2, <2>3 DEF Recover, countVars
<1>11. ASSUME NEW i \in Instances, RecoverFails(i) PROVE TypeOK'
  BY <1>11 DEF RecoverFails, DbError, StartPolling
<1>12. ASSUME NEW i \in Instances, Crash(i) PROVE TypeOK'
  <2>1. worker' \in [Instances -> Worker] BY <1>12, WorkerTypes DEF Crash
  <2>2. /\ inflight' \in [Instances -> SUBSET Jobs]
        /\ nudge' \in [Instances -> BOOLEAN]
        /\ polling' \in [Instances -> BOOLEAN]
    BY <1>12 DEF Crash
  <2>3. crashes' \in Nat BY <1>12 DEF Crash
  <2>4. UNCHANGED <<jobs, asked, worked, reset, errors, env>> BY <1>12 DEF Crash
  <2> QED BY <2>1, <2>2, <2>3, <2>4
<1>13. ASSUME NEW j \in Jobs, Due(j) PROVE TypeOK'
  <2>1. jobs' \in [Jobs -> Job] BY <1>13 DEF Due, Job
  <2> QED BY <1>13, <2>1 DEF Due, processVars, countVars
<1>14. CASE UNCHANGED vars
  BY <1>14 DEF vars, processVars, countVars
<1> QED
  BY <1>1, <1>2, <1>3, <1>4, <1>5, <1>6, <1>7, <1>8, <1>9, <1>10, <1>11, <1>12,
     <1>13, <1>14
  DEF Next, Process, Trouble, Work
-----------------------------------------------------------------------------
(* What the actions do to the rows and their workers is one of five kinds  *)
(* of step; the invariants are proved kind by kind.                        *)

Calm    == UNCHANGED <<crashes, errors>>
Failure == \/ crashes' = crashes + 1 /\ errors' = errors
           \/ errors' = errors + 1 /\ crashes' = crashes

OthersRest(i) == \A k \in Instances \ {i} : worker'[k] = worker[k]
RestOfTable(j) == \A k \in Jobs \ {j} : jobs'[k] = jobs[k]

\* Worker i takes no new row.
TakesNone(i) ==
  Holding(i)' =>
    /\ Holding(i)
    /\ worker'[i].job = worker[i].job
    /\ worker'[i].attempts = worker[i].attempts
    /\ worker'[i].pc = "complete" => \/ worker[i].pc = "complete"
                                     \/ worker[i].job \in worked'
    /\ worker'[i].pc = "reject" => worker[i].pc = "reject"
    /\ worker[i].pc = "settle" => worker'[i].pc = "settle"

\* Process i leaves the table alone.
Quiet(i) ==
  /\ UNCHANGED <<jobs, reset, env>>
  /\ worked \subseteq worked'
  /\ \/ \E j \in Jobs : Enqueue(i, j)
     \/ asked' = asked /\ \A k \in Instances : inflight'[k] \subseteq inflight[k]
  /\ OthersRest(i) /\ TakesNone(i)
  /\ Failure \/ (Calm /\ (Holding(i) => Holding(i)'))

\* The row of j comes in.
Inserts(i, j) ==
  /\ j \in inflight[i]
  /\ jobs'[j].status = "queued" /\ jobs'[j].attempts = 0
  /\ RestOfTable(j)
  /\ inflight' = [inflight EXCEPT ![i] = @ \ {j}]
  /\ UNCHANGED <<asked, worker, worked, reset, env>>
  /\ Calm \/ Failure

\* Process i claims the row of j, and may not be told.
Takes(i, j) ==
  /\ jobs[j].status = "queued" /\ jobs'[j].status = "running"
  /\ jobs'[j].attempts = jobs[j].attempts + 1
  /\ RestOfTable(j)
  /\ Up(i) /\ ~Holding(i)
  /\ \/ Calm /\ worker'[i] = Taker(j)
     \/ Failure /\ ~Holding(i)'
  /\ OthersRest(i)
  /\ UNCHANGED <<asked, inflight, worked, reset, env>>

\* Worker i writes how its row j came out and lets go of it, or, not being told
\* that the row is done, goes on to settle it.
Writes(i, j) ==
  /\ Holding(i) /\ worker[i].job = j
  /\ jobs'[j].status \in {"queued", "done", "failed"}
  /\ jobs'[j].status = "queued" => worker[i].attempts < MaxAttempts
  /\ jobs'[j].status = "done" => worker[i].pc = "complete"
  /\ jobs'[j].status = "failed" => \/ worker[i].pc = "reject"
                                   \/ worker[i].attempts >= MaxAttempts
  /\ jobs'[j].attempts = jobs[j].attempts
  /\ RestOfTable(j)
  /\ \/ ~Holding(i)'
     \/ jobs'[j].status = "done" /\ worker'[i] = [worker[i] EXCEPT !.pc = "settle"]
  /\ OthersRest(i)
  /\ UNCHANGED <<asked, inflight, worked, reset, env>>
  /\ Calm \/ Failure

\* Running rows may be queued again, retries become due.
Requeues ==
  /\ \A j \in Jobs :
       /\ jobs'[j].attempts = jobs[j].attempts
       /\ jobs[j].status \in {"done", "failed"} => jobs'[j] = jobs[j]
       /\ \/ jobs'[j].status = jobs[j].status
          \/ /\ jobs[j].status = "running" /\ jobs'[j].status = "queued"
             /\ \A i \in Instances : Holding(i) /\ worker[i].job = j => j \in reset'
       /\ j \in reset' \ reset => jobs[j].status = "running"
  /\ reset \subseteq reset' /\ reset' \subseteq Jobs
  /\ UNCHANGED <<asked, inflight, worker, worked, env>>
  /\ Calm

\* Every step of the model is one of these.
Step == \/ \E i \in Instances : Quiet(i)
        \/ \E i \in Instances, j \in Jobs :
             Inserts(i, j) \/ Takes(i, j) \/ Writes(i, j)
        \/ Requeues

\* The sorts of what the invariants look at.
Sorted ==
  /\ inflight \in [Instances -> SUBSET Jobs]
  /\ \A j \in Jobs : jobs[j].attempts \in Nat /\ jobs[j].status \in Statuses
  /\ \A i \in Instances : worker[i].attempts \in Nat
  /\ reset \subseteq Jobs
  /\ crashes \in Nat /\ errors \in Nat
  /\ MaxAttempts \in Nat

\* They follow from type correctness.
LEMMA Sorting == ASSUME TypeOK PROVE Sorted
  BY QueueAssumption DEF TypeOK, Job, Worker, Sorted, Statuses

\* A worker that moves on.
LEMMA Moves ==
  ASSUME TypeOK, NEW i \in Instances, NEW w, GoTo(i, w)
  PROVE  worker'[i] = w /\ OthersRest(i)
  BY DEF TypeOK, GoTo, OthersRest

\* The write of a row's verdict.
LEMMA Marked ==
  ASSUME TypeOK, NEW j \in Jobs, NEW s \in Statuses, MarkRow(j, s)
  PROVE  /\ jobs'[j].status = s
         /\ jobs'[j].attempts = jobs[j].attempts
         /\ RestOfTable(j)
  BY DEF TypeOK, Job, MarkRow, RestOfTable

\* The write that settles a job whose handler threw.
LEMMA SettledRow ==
  ASSUME TypeOK, NEW i \in Instances, worker[i].job \in Jobs, SettleRow(i)
  PROVE  LET j == worker[i].job IN
           /\ jobs'[j].status \in {"queued", "failed"}
           /\ jobs'[j].status = "queued" => worker[i].attempts < MaxAttempts
           /\ jobs'[j].status = "failed" => worker[i].attempts >= MaxAttempts
           /\ jobs'[j].attempts = jobs[j].attempts
           /\ RestOfTable(j)
<1>1. CASE worker[i].attempts >= MaxAttempts
  BY <1>1, Marked DEF SettleRow, Statuses
<1>2. CASE ~(worker[i].attempts >= MaxAttempts)
  <2>1. worker[i].attempts < MaxAttempts
    BY <1>2, Sorting DEF Sorted
  <2> QED BY <1>2, <2>1 DEF SettleRow, RetryRow, RestOfTable, TypeOK, Job
<1> QED BY <1>1, <1>2

\* The write of a claim.
LEMMA TakenRow ==
  ASSUME TypeOK, NEW j \in Jobs, Foremost(j), TakeRow(j)
  PROVE  /\ jobs[j].status = "queued" /\ jobs'[j].status = "running"
         /\ jobs'[j].attempts = jobs[j].attempts + 1
         /\ RestOfTable(j)
  BY DEF TypeOK, Job, Foremost, Runnable, TakeRow, RestOfTable

\* Which actions are quiet,
LEMMA QuietSteps ==
  ASSUME TypeOK, NEW i \in Instances,
         \/ \E j \in Jobs : Enqueue(i, j)
         \/ Nudge(i) \/ Poll(i) \/ NothingToClaim(i) \/ Boot(i) \/ Crash(i)
         \/ HandlerReturns(i) \/ HandlerThrows(i) \/ RecoverFails(i)
  PROVE  Quiet(i)
<1>1. CASE \E j \in Jobs : Enqueue(i, j)
  BY <1>1 DEF Enqueue, Quiet, countVars, OthersRest, TakesNone, Holding, Calm
<1>2. CASE Nudge(i) \/ Poll(i) \/ NothingToClaim(i) \/ Boot(i)
  <2>1. /\ UNCHANGED <<jobs, asked, inflight, worked, reset, env>>
        /\ Calm
    BY <1>2 DEF Nudge, Poll, NothingToClaim, Boot, processVars, countVars, Calm
  <2>2. UNCHANGED worker \/ (OthersRest(i) /\ ~Holding(i)' /\ ~Holding(i))
    <3>1. UNCHANGED worker
          \/ (~Holding(i) /\ \E pc \in {"claim", "idle"} : GoTo(i, Resting(pc)))
      BY <1>2 DEF Nudge, Poll, NothingToClaim, Boot, StartDrain, Holding, Up
    <3> QED BY <3>1, Moves DEF Resting, Holding
  <2> QED BY <2>1, <2>2 DEF Quiet, OthersRest, TakesNone, Holding
<1>3. CASE Crash(i)
  <2>1. OthersRest(i) /\ ~Holding(i)'
    BY <1>3, Moves DEF Crash, Resting, Holding
  <2>2. \A k \in Instances : inflight'[k] \subseteq inflight[k]
    BY <1>3 DEF Crash, TypeOK
  <2>3. /\ UNCHANGED <<jobs, asked, worked, reset, env>>
        /\ Failure
    BY <1>3 DEF Crash, Failure
  <2> QED BY <2>1, <2>2, <2>3 DEF Quiet, TakesNone
<1>4. CASE HandlerReturns(i) \/ HandlerThrows(i)
  <2>1. /\ UNCHANGED <<jobs, asked, inflight, reset, env>>
        /\ worked \subseteq worked'
        /\ worked' = worked \cup {worker[i].job} \/ HandlerThrows(i)
        /\ Calm
    BY <1>4 DEF HandlerReturns, HandlerThrows, processVars, countVars, Calm
  <2>2. PICK pc \in {"complete", "settle"} :
          /\ GoTo(i, [worker[i] EXCEPT !.pc = pc])
          /\ pc = "complete" => HandlerReturns(i)
    BY <1>4 DEF HandlerReturns, HandlerThrows
  <2>3. worker[i].pc = "handle" BY <1>4 DEF HandlerReturns, HandlerThrows
  <2>4. /\ OthersRest(i)
        /\ worker'[i].pc = pc
        /\ worker'[i].job = worker[i].job
        /\ worker'[i].attempts = worker[i].attempts
    BY <2>2, Moves DEF TypeOK, Worker
  <2>5. pc = "complete" => worker[i].job \in worked'
    BY <2>2 DEF HandlerReturns
  <2>6. TakesNone(i) /\ (Holding(i) => Holding(i)')
    BY <2>2, <2>3, <2>4, <2>5 DEF TakesNone, Holding
  <2> QED BY <2>1, <2>4, <2>6 DEF Quiet
<1>5. CASE RecoverFails(i)
  BY <1>5 DEF RecoverFails, DbError, Quiet, OthersRest, TakesNone, Holding, Failure
<1> QED BY <1>1, <1>2, <1>3, <1>4, <1>5

\* which insert,
LEMMA InsertSteps ==
  ASSUME TypeOK, EnqueueInv, NEW i \in Instances, NEW j \in Jobs,
         Persist(i, j) \/ PersistFails(i, j)
  PROVE  Quiet(i) \/ Inserts(i, j)
<1>1. CASE InsertRow(j) /\ (Persist(i, j) \/ PersistFails(i, j))
  BY <1>1
  DEF Persist, PersistFails, InsertRow, Inserts, DbError, countVars, Calm,
      Failure, RestOfTable, TypeOK, Job
<1>2. CASE UNCHANGED jobs /\ PersistFails(i, j)
  <2>1. \A k \in Instances : inflight'[k] \subseteq inflight[k]
    BY <1>2 DEF PersistFails, TypeOK
  <2> QED BY <1>2, <2>1
      DEF PersistFails, DbError, Quiet, OthersRest, TakesNone, Holding, Failure
<1> QED BY <1>1, <1>2 DEF Persist, PersistFails

\* which claim,
LEMMA ClaimSteps ==
  ASSUME TypeOK, NEW i \in Instances, Claim(i)
  PROVE  \E j \in Jobs : Takes(i, j)
<1>1. PICK j \in Jobs : Foremost(j) /\ TakeRow(j) /\ GoTo(i, Taker(j))
  BY DEF Claim
<1>2. worker'[i] = Taker(j) /\ OthersRest(i) BY <1>1, Moves
<1>3. /\ Up(i) /\ ~Holding(i) /\ Calm
      /\ UNCHANGED <<asked, inflight, worked, reset, env>>
  BY DEF Claim, Up, Holding, Calm, processVars, countVars
<1> QED BY <1>1, <1>2, <1>3, TakenRow DEF Takes

\* which write a verdict,
LEMMA WriteSteps ==
  ASSUME TypeOK, HolderInv, NEW i \in Instances,
         \/ Complete(i) \/ Settle(i) \/ Reject(i)
  PROVE  \E j \in Jobs : Writes(i, j)
<1>1. PICK j \in Jobs : j = worker[i].job /\ Holding(i)
  BY DEF Complete, Settle, Reject, HolderInv, Holding
<1>2. OthersRest(i) /\ ~Holding(i)'
  BY Moves DEF Complete, Settle, Reject, StartDrain, Resting, Holding
<1>3. Calm /\ UNCHANGED <<asked, inflight, worked, reset, env>>
  BY DEF Complete, Settle, Reject, Calm, processVars, countVars
<1>4. CASE Complete(i)
  <2>1. MarkRow(j, "done") /\ worker[i].pc = "complete"
    BY <1>1, <1>4 DEF Complete
  <2> QED BY <1>1, <1>2, <1>3, <2>1, Marked DEF Writes, Statuses
<1>5. CASE Settle(i)
  <2>1. SettleRow(i) BY <1>5 DEF Settle
  <2>2. /\ jobs'[j].status \in {"queued", "failed"}
        /\ jobs'[j].status = "queued" => worker[i].attempts < MaxAttempts
        /\ jobs'[j].status = "failed" => worker[i].attempts >= MaxAttempts
        /\ jobs'[j].attempts = jobs[j].attempts
        /\ RestOfTable(j)
    BY <1>1, <2>1, SettledRow
  <2> QED BY <1>1, <1>2, <1>3, <2>2 DEF Writes
<1>6. CASE Reject(i)
  <2>1. MarkRow(j, "failed") /\ worker[i].pc = "reject"
    BY <1>1, <1>6 DEF Reject
  <2> QED BY <1>1, <1>2, <1>3, <2>1, Marked DEF Writes, Statuses
<1> QED BY <1>4, <1>5, <1>6

\* what a database error does to the worker,
LEMMA ErrorSteps ==
  ASSUME TypeOK, HolderInv, NEW i \in Instances,
         CompleteFails(i) \/ TickFails(i)
  PROVE  Quiet(i) \/ \E j \in Jobs : Takes(i, j) \/ Writes(i, j)
<1>1. Failure /\ UNCHANGED <<asked, inflight, worked, reset, env>>
  BY DEF CompleteFails, TickFails, DbError, Failure, processVars
<1>2. CASE CompleteFails(i)
  <2>1. PICK j \in Jobs : j = worker[i].job /\ Holding(i)
    BY <1>2 DEF CompleteFails, HolderInv, Holding
  <2>2. OthersRest(i) /\ worker'[i] = [worker[i] EXCEPT !.pc = "settle"]
    BY <1>2, Moves DEF CompleteFails
  <2>3. worker[i].pc = "complete" BY <1>2 DEF CompleteFails
  <2>4. CASE UNCHANGED jobs
    <3>1. TakesNone(i)
      BY <2>1, <2>2, <2>3 DEF TakesNone, TypeOK, Worker
    <3> QED BY <1>1, <2>2, <2>4, <3>1 DEF Quiet
  <2>5. CASE MarkRow(j, "done")
    <3> QED BY <1>1, <2>1, <2>2, <2>3, <2>5, Marked DEF Writes, Statuses
  <2> QED BY <1>2, <2>1, <2>4, <2>5 DEF CompleteFails
<1>3. CASE TickFails(i)
  <2>1. OthersRest(i) /\ ~Holding(i)'
    BY <1>3, Moves DEF TickFails, Resting, Holding
  <2>2. CASE UNCHANGED jobs
    BY <1>1, <2>1, <2>2 DEF Quiet, TakesNone
  <2>3. CASE worker[i].pc = "claim" /\ \E j \in Jobs : Foremost(j) /\ TakeRow(j)
    <3>1. PICK j \in Jobs : Foremost(j) /\ TakeRow(j) BY <2>3
    <3>2. Up(i) /\ ~Holding(i) BY <2>3 DEF Up, Holding
    <3>3. Takes(i, j) BY <1>1, <2>1, <3>1, <3>2, TakenRow DEF Takes
    <3> QED BY <3>3
  <2>4. CASE worker[i].pc = "settle" /\ SettleRow(i)
    <3>1. PICK j \in Jobs : j = worker[i].job /\ Holding(i)
      BY <2>4 DEF HolderInv, Holding
    <3>2. /\ jobs'[j].status \in {"queued", "failed"}
          /\ jobs'[j].status = "queued" => worker[i].attempts < MaxAttempts
          /\ jobs'[j].status = "failed" => worker[i].attempts >= MaxAttempts
          /\ jobs'[j].attempts = jobs[j].attempts
          /\ RestOfTable(j)
      BY <2>4, <3>1, SettledRow
    <3>3. Writes(i, j) BY <1>1, <2>1, <3>1, <3>2 DEF Writes
    <3> QED BY <3>3
  <2>5. CASE worker[i].pc = "reject" /\ MarkRow(worker[i].job, "failed")
    <3>1. PICK j \in Jobs : j = worker[i].job /\ Holding(i)
      BY <2>5 DEF HolderInv, Holding
    <3>2. Writes(i, j)
      BY <1>1, <2>1, <2>5, <3>1, Marked DEF Writes, Statuses
    <3> QED BY <3>2
  <2> QED BY <1>3, <2>2, <2>3, <2>4, <2>5 DEF TickFails
<1> QED BY <1>2, <1>3

\* and what queues rows again, or does nothing at all.
LEMMA RequeueSteps ==
  ASSUME TypeOK,
         \/ \E i \in Instances : Recover(i)
         \/ \E j \in Jobs : Due(j)
         \/ UNCHANGED vars
  PROVE  Requeues
<1>1. ASSUME NEW i \in Instances, Recover(i) PROVE Requeues
  <2>1. UNCHANGED <<asked, inflight, worker, worked, env>> /\ Calm
    BY <1>1 DEF Recover, countVars, Calm
  <2>2. reset' = reset \cup {j \in {l \in Jobs : jobs[l].status = "running"} :
                   \E k \in Instances : Holding(k) /\ worker[k].job = j}
    BY <1>1 DEF Recover
  <2>3. \A j \in Jobs :
          jobs'[j] = IF jobs[j].status = "running"
                     THEN [jobs[j] EXCEPT !.status = "queued"] ELSE jobs[j]
    BY <1>1 DEF Recover
  <2>4. ASSUME NEW j \in Jobs
        PROVE  /\ jobs'[j].attempts = jobs[j].attempts
               /\ jobs[j].status \in {"done", "failed"} => jobs'[j] = jobs[j]
               /\ \/ jobs'[j].status = jobs[j].status
                  \/ jobs[j].status = "running" /\ jobs'[j].status = "queued"
    BY <2>3 DEF TypeOK, Job
  <2>5. ASSUME NEW j \in Jobs
        PROVE  /\ jobs[j].status = "running" =>
                    \A k \in Instances : Holding(k) /\ worker[k].job = j => j \in reset'
               /\ j \in reset' \ reset => jobs[j].status = "running"
    BY <2>2
  <2>6. reset' \subseteq Jobs BY <2>2 DEF TypeOK
  <2> QED BY <2>1, <2>2, <2>4, <2>5, <2>6 DEF Requeues
<1>2. ASSUME NEW j \in Jobs, Due(j) PROVE Requeues
  <2>1. /\ \A k \in Jobs \ {j} : jobs'[k] = jobs[k]
        /\ jobs[j].status = "queued" /\ jobs'[j].status = "queued"
        /\ jobs'[j].attempts = jobs[j].attempts
    BY <1>2 DEF Due, TypeOK, Job
  <2>2. UNCHANGED <<asked, inflight, worker, worked, reset, env>> /\ Calm
    BY <1>2 DEF Due, processVars, countVars, Calm
  <2> QED BY <2>1, <2>2 DEF Requeues, TypeOK
<1>3. CASE UNCHANGED vars
  BY <1>3 DEF vars, processVars, countVars, Requeues, Calm, TypeOK
<1> QED BY <1>1, <1>2, <1>3

\* So every step is of one of the kinds.
LEMMA Kinds == ASSUME TypeOK, EnqueueInv, HolderInv, [Next]_vars PROVE Step
  BY QuietSteps, InsertSteps, ClaimSteps, WriteSteps, ErrorSteps, RequeueSteps
  DEF Next, Process, Trouble, Work, Step
-----------------------------------------------------------------------------
(* The invariants, kind by kind.                                           *)

\* Inserts stay unanswered by one process, rowless until then.
LEMMA EnqueueStep ==
  ASSUME TypeOK, EnqueueInv, HolderInv, Step
  PROVE  EnqueueInv'
<1>t. Sorted BY Sorting
<1>1. ASSUME NEW i \in Instances, NEW j \in Jobs, Enqueue(i, j)
      PROVE  EnqueueInv'
  <2>1. /\ asked' = Append(asked, j) /\ jobs' = jobs
        /\ inflight' = [inflight EXCEPT ![i] = inflight[i] \cup {j}]
        /\ \A n \in DOMAIN asked : asked[n] # j
    BY <1>1 DEF Enqueue
  <2>2. /\ asked'[Len(asked) + 1] = j
        /\ Len(asked) + 1 \in DOMAIN asked'
        /\ \A n \in DOMAIN asked : n \in DOMAIN asked' /\ asked'[n] = asked[n]
    BY <2>1 DEF TypeOK
  <2>3. \A k \in Instances : j \notin inflight[k]
    BY <2>1 DEF EnqueueInv
  <2>4. \A k \in Jobs : (\A n \in DOMAIN asked' : asked'[n] # k) =>
                          jobs'[k].status = "absent"
    BY <2>1, <2>2 DEF EnqueueInv
  <2>5. ASSUME NEW k \in Instances, NEW l \in inflight'[k]
        PROVE  /\ jobs'[l].status = "absent"
               /\ \E n \in DOMAIN asked' : asked'[n] = l
               /\ \A h \in Instances \ {k} : l \notin inflight'[h]
    <3>1. CASE l = j
      <4>1. k = i
        BY <2>1, <2>3, <3>1
      <4>2. jobs[j].status = "absent"
        BY <2>1 DEF EnqueueInv
      <4>3. QED BY <2>1, <2>2, <2>3, <3>1, <4>1, <4>2
    <3>2. CASE l # j
      <4>1. l \in inflight[k]
        BY <2>1, <3>2
      <4>2. QED BY <2>1, <2>2, <3>2, <4>1 DEF EnqueueInv
    <3>3. QED BY <3>1, <3>2
  <2>6. QED BY <2>4, <2>5 DEF EnqueueInv
<1>2. ASSUME NEW i \in Instances, Quiet(i) PROVE EnqueueInv'
  <2>1. CASE \E j \in Jobs : Enqueue(i, j) BY <1>1, <2>1
  <2>2. CASE asked' = asked /\ \A k \in Instances : inflight'[k] \subseteq inflight[k]
    BY <1>2, <2>2 DEF Quiet, EnqueueInv
  <2> QED BY <1>2, <2>1, <2>2 DEF Quiet
<1>3. ASSUME NEW i \in Instances, NEW j \in Jobs, Inserts(i, j) PROVE EnqueueInv'
  BY <1>t, <1>3 DEF Inserts, RestOfTable, EnqueueInv, Sorted
<1>4. ASSUME NEW i \in Instances, NEW j \in Jobs, Takes(i, j) \/ Writes(i, j)
      PROVE  EnqueueInv'
  <2>1. UNCHANGED <<asked, inflight>> /\ RestOfTable(j)
    BY <1>4 DEF Takes, Writes
  <2>2. jobs[j].status # "absent"
    BY <1>4 DEF Takes, Writes, HolderInv
  <2> QED BY <1>t, <2>1, <2>2 DEF RestOfTable, EnqueueInv, Sorted
<1>5. CASE Requeues
  BY <1>t, <1>5 DEF Requeues, EnqueueInv, Sorted
<1> QED BY <1>2, <1>3, <1>4, <1>5 DEF Step

\* A worker never loses sight of the row it holds.
LEMMA HolderStep ==
  ASSUME TypeOK, EnqueueInv, HolderInv, Step
  PROVE  HolderInv'
<1>t. Sorted BY Sorting
<1>1. ASSUME NEW i \in Instances, Quiet(i) PROVE HolderInv'
  <2>1. ASSUME NEW k \in Instances PROVE TakesNone(k)
    BY <1>1 DEF Quiet, OthersRest, TakesNone, Holding
  <2> QED BY <1>1, <2>1 DEF Quiet, TakesNone, HolderInv, Holding
<1>2. ASSUME NEW i \in Instances, NEW j \in Jobs, Inserts(i, j) PROVE HolderInv'
  <2>1. \A k \in Instances : Holding(k) => worker[k].job # j
    BY <1>2 DEF Inserts, EnqueueInv, HolderInv
  <2> QED BY <1>2, <2>1 DEF Inserts, RestOfTable, HolderInv, Holding
<1>3. ASSUME NEW i \in Instances, NEW j \in Jobs, Takes(i, j) PROVE HolderInv'
  <2>1. ASSUME NEW k \in Instances, Holding(k)'
        PROVE  \/ k = i /\ worker'[i] = Taker(j)
               \/ k # i /\ worker'[k] = worker[k] /\ Holding(k)
    BY <1>3, <2>1 DEF Takes, OthersRest, Holding
  <2>2. \A l \in Jobs : jobs[l].status # "absent" =>
          jobs'[l].status # "absent" /\ jobs'[l].attempts >= jobs[l].attempts
    BY <1>t, <1>3 DEF Takes, RestOfTable, Sorted
  <2>3. jobs'[j].attempts = jobs[j].attempts + 1 /\ jobs'[j].status = "running"
        /\ worked' = worked
    BY <1>3 DEF Takes
  <2>4. ASSUME NEW k \in Instances, Holding(k)', k = i /\ worker'[i] = Taker(j)
        PROVE  /\ worker'[k].job \in Jobs
               /\ jobs'[worker'[k].job].status # "absent"
               /\ worker'[k].attempts <= jobs'[worker'[k].job].attempts
               /\ worker'[k].pc = "complete" => worker'[k].job \in worked'
               /\ worker'[k].pc = "reject" => worker'[k].job \notin Handled
    BY <1>t, <2>3, <2>4 DEF Taker, Sorted
  <2>5. ASSUME NEW k \in Instances, worker'[k] = worker[k], Holding(k)
        PROVE  /\ worker'[k].job \in Jobs
               /\ jobs'[worker'[k].job].status # "absent"
               /\ worker'[k].attempts <= jobs'[worker'[k].job].attempts
               /\ worker'[k].pc = "complete" => worker'[k].job \in worked'
               /\ worker'[k].pc = "reject" => worker'[k].job \notin Handled
    <3>1. PICK l \in Jobs : l = worker[k].job BY <2>5 DEF HolderInv
    <3>2. jobs'[l].attempts >= jobs[l].attempts /\ jobs'[l].status # "absent"
      BY <2>2, <2>5, <3>1 DEF HolderInv
    <3>3. jobs'[l].attempts \in Nat /\ jobs[l].attempts \in Nat
          /\ worker[k].attempts \in Nat
      BY <1>t, <1>3 DEF Takes, RestOfTable, Sorted
    <3> QED BY <2>3, <2>5, <3>1, <3>2, <3>3 DEF HolderInv
  <2> QED BY <2>1, <2>4, <2>5 DEF HolderInv
<1>4. ASSUME NEW i \in Instances, NEW j \in Jobs, Writes(i, j) PROVE HolderInv'
  <2>1. ASSUME NEW k \in Instances, Holding(k)'
        PROVE  /\ Holding(k)
               /\ worker'[k].job = worker[k].job
               /\ worker'[k].attempts = worker[k].attempts
               /\ \/ worker'[k].pc = worker[k].pc
                  \/ worker'[k].pc = "settle"
    BY <1>4, <2>1 DEF Writes, OthersRest, Holding, TypeOK, Worker
  <2>2. \A l \in Jobs : jobs[l].status # "absent" =>
          jobs'[l].status # "absent" /\ jobs'[l].attempts = jobs[l].attempts
    BY <1>4 DEF Writes, RestOfTable
  <2>3. worked' = worked BY <1>4 DEF Writes
  <2> QED BY <2>1, <2>2, <2>3 DEF HolderInv
<1>5. CASE Requeues
  BY <1>t, <1>5 DEF Requeues, HolderInv, Holding, Sorted
<1> QED BY <1>1, <1>2, <1>3, <1>4, <1>5 DEF Step

\* Exclusion is preserved by every step.
LEMMA ExclusiveStep ==
  ASSUME TypeOK, EnqueueInv, HolderInv, ExclusiveUnlessReset, Step
  PROVE  ExclusiveUnlessReset'
<1>1. ASSUME NEW i \in Instances, Quiet(i) PROVE ExclusiveUnlessReset'
  <2>1. ASSUME NEW k \in Instances PROVE TakesNone(k)
    BY <1>1 DEF Quiet, OthersRest, TakesNone, Holding
  <2>2. UNCHANGED <<jobs, reset>> BY <1>1 DEF Quiet
  <2> QED BY <2>1, <2>2 DEF TakesNone, ExclusiveUnlessReset, Unanswered
<1>2. ASSUME NEW i \in Instances, NEW j \in Jobs, Inserts(i, j)
      PROVE  ExclusiveUnlessReset'
  <2>1. \A k \in Instances : Holding(k) => worker[k].job \in Jobs \ {j}
    BY <1>2 DEF Inserts, EnqueueInv, HolderInv
  <2> QED BY <1>2, <2>1
      DEF Inserts, RestOfTable, ExclusiveUnlessReset, Unanswered, Holding
<1>3. ASSUME NEW i \in Instances, NEW j \in Jobs, Takes(i, j)
      PROVE  ExclusiveUnlessReset'
  <2>1. /\ jobs[j].status = "queued" /\ jobs'[j].status = "running"
        /\ \A l \in Jobs \ {j} : jobs'[l] = jobs[l]
        /\ \A k \in Instances \ {i} : worker'[k] = worker[k]
        /\ ~Holding(i)
        /\ Holding(i)' => worker'[i].job = j
        /\ reset' = reset
    BY <1>3 DEF Takes, RestOfTable, OthersRest, Taker
  <2>2. \A k \in Instances : Holding(k) => worker[k].job \in Jobs
    BY DEF HolderInv
  <2>3. ASSUME NEW k \in Instances, Holding(k), worker[k].job = j
        PROVE  j \in reset
    BY <2>1, <2>3 DEF ExclusiveUnlessReset, Unanswered
  <2>4. ASSUME NEW k \in Instances, Holding(k)', worker'[k].job \notin reset, k = i
        PROVE  jobs'[worker'[k].job].status = "running"
               /\ \A h \in Instances \ {k} : Holding(h)' => worker'[h].job # worker'[k].job
    BY <2>1, <2>3, <2>4 DEF Holding
  <2>5. ASSUME NEW k \in Instances, Holding(k)', worker'[k].job \notin reset, k # i
        PROVE  /\ jobs'[worker'[k].job].status = "running" \/ Unanswered(k)'
               /\ \A h \in Instances \ {k} : Holding(h)' => worker'[h].job # worker'[k].job
    <3>1. worker'[k] = worker[k] /\ Holding(k) BY <2>1, <2>5 DEF Holding
    <3>2. worker[k].job \in Jobs \ {j} BY <2>2, <2>3, <2>5, <3>1
    <3>3. jobs'[worker[k].job] = jobs[worker[k].job] BY <2>1, <3>2
    <3> QED BY <2>1, <2>5, <3>1, <3>2, <3>3
        DEF ExclusiveUnlessReset, Unanswered, Holding
  <2> QED BY <2>1, <2>4, <2>5 DEF ExclusiveUnlessReset
<1>4. ASSUME NEW i \in Instances, NEW j \in Jobs, Writes(i, j)
      PROVE  ExclusiveUnlessReset'
  <2>1. /\ \A l \in Jobs \ {j} : jobs'[l] = jobs[l]
        /\ \A k \in Instances \ {i} : worker'[k] = worker[k]
        /\ Holding(i) /\ worker[i].job = j
        /\ reset' = reset
    BY <1>4 DEF Writes, RestOfTable, OthersRest
  <2>2. Holding(i)' => worker'[i].job = j /\ Unanswered(i)'
    BY <1>4 DEF Writes, TypeOK, Worker, Unanswered
  <2>3. \A k \in Instances : Holding(k) => worker[k].job \in Jobs
    BY DEF HolderInv
  <2>4. ASSUME NEW k \in Instances \ {i}, Holding(k), worker[k].job \notin reset
        PROVE  worker[k].job # j
    BY <2>1, <2>4 DEF ExclusiveUnlessReset
  <2>5. ASSUME NEW k \in Instances, Holding(k)', worker'[k].job \notin reset, k = i
        PROVE  /\ jobs'[worker'[k].job].status = "running" \/ Unanswered(k)'
               /\ \A h \in Instances \ {k} : Holding(h)' => worker'[h].job # worker'[k].job
    BY <2>1, <2>2, <2>4, <2>5 DEF Holding
  <2>6. ASSUME NEW k \in Instances, Holding(k)', worker'[k].job \notin reset, k # i
        PROVE  /\ jobs'[worker'[k].job].status = "running" \/ Unanswered(k)'
               /\ \A h \in Instances \ {k} : Holding(h)' => worker'[h].job # worker'[k].job
    <3>1. worker'[k] = worker[k] /\ Holding(k) BY <2>1, <2>6 DEF Holding
    <3>2. worker[k].job \in Jobs \ {j} BY <2>3, <2>4, <2>6, <3>1
    <3>3. jobs'[worker[k].job] = jobs[worker[k].job] BY <2>1, <3>2
    <3> QED BY <2>1, <2>2, <2>6, <3>1, <3>2, <3>3
        DEF ExclusiveUnlessReset, Unanswered, Holding
  <2> QED BY <2>1, <2>5, <2>6 DEF ExclusiveUnlessReset
<1>5. CASE Requeues
  <2>1. UNCHANGED worker /\ reset \subseteq reset'
    BY <1>5 DEF Requeues
  <2>2. ASSUME NEW k \in Instances, Holding(k), worker[k].job \notin reset'
        PROVE  jobs'[worker[k].job].status = jobs[worker[k].job].status
    BY <1>5, <2>2 DEF Requeues, HolderInv
  <2> QED BY <2>1, <2>2 DEF ExclusiveUnlessReset, Unanswered, Holding
<1> QED BY <1>1, <1>2, <1>3, <1>4, <1>5 DEF Step

\* Done jobs have been worked on after every step.
LEMMA DoneStep ==
  ASSUME TypeOK, HolderInv, DoneWasWorked, Step
  PROVE  DoneWasWorked'
<1>1. worked \subseteq worked'
  BY DEF Step, Quiet, Inserts, Takes, Writes, Requeues
<1>2. ASSUME NEW l \in Jobs, jobs'[l].status = "done"
      PROVE  jobs[l].status = "done" \/ l \in worked
  BY <1>2
  DEF Step, Quiet, Inserts, Takes, Writes, Requeues, RestOfTable, HolderInv
<1> QED BY <1>1, <1>2 DEF DoneWasWorked

\* Failed jobs have used up their attempts after every step.
LEMMA FailedStep ==
  ASSUME TypeOK, HolderInv, FailedIsEarned, Step
  PROVE  FailedIsEarned'
<1>t. Sorted BY Sorting
<1>1. ASSUME NEW l \in Handled, jobs'[l].status = "failed"
      PROVE  jobs'[l].attempts >= MaxAttempts
  <2>1. l \in Jobs BY QueueAssumption
  <2>2. CASE \E i \in Instances : Writes(i, l)
    BY <1>t, <1>1, <2>1, <2>2 DEF Writes, HolderInv, Sorted
  <2>3. CASE ~ \E i \in Instances : Writes(i, l)
    <3>1. jobs'[l].status = jobs[l].status /\ jobs'[l].attempts = jobs[l].attempts
      BY <1>1, <2>1, <2>3
      DEF Step, Quiet, Inserts, Takes, Writes, Requeues, RestOfTable
    <3> QED BY <1>1, <3>1 DEF FailedIsEarned
  <2> QED BY <2>2, <2>3
<1> QED BY <1>1 DEF FailedIsEarned

-----------------------------------------------------------------------------
(* Theorems.                                                               *)

\* The invariant holds in every reachable state.
LEMMA Invariant == Spec => []QueueInv
<1>1. Init => QueueInv
  BY InitInv
<1>2. QueueInv /\ [Next]_vars => QueueInv'
  BY Kinds, TypeStep, EnqueueStep, HolderStep, ExclusiveStep, DoneStep, FailedStep
  DEF QueueInv
<1>3. QED BY <1>1, <1>2, PTL DEF Spec

\* The job table, the workers and the counters keep their types, for any
\* number of processes and jobs.
THEOREM QueueTypeCorrect == Spec => []TypeOK
<1>1. QueueInv => TypeOK
  BY DEF QueueInv
<1>2. QED BY <1>1, Invariant, PTL

\* However many processes share the table, a row that boot recovery did not
\* take from a live worker is held by one worker at most.
THEOREM Exclusion == Spec => []ExclusiveUnlessReset
<1>1. QueueInv => ExclusiveUnlessReset
  BY DEF QueueInv
<1>2. QED BY <1>1, Invariant, PTL

\* A job is only ever marked done after its handler returned, whatever crashes
\* and errors come.
THEOREM DoneEarned == Spec => []DoneWasWorked
<1>1. QueueInv => DoneWasWorked
  BY DEF QueueInv
<1>2. QED BY <1>1, Invariant, PTL

\* And one with a handler is only ever marked failed with its attempts used up.
THEOREM FailureEarned == Spec => []FailedIsEarned
<1>1. QueueInv => FailedIsEarned
  BY DEF QueueInv
<1>2. QED BY <1>1, Invariant, PTL

-----------------------------------------------------------------------------
(* Verdicts.  What a worker holds has no final verdict, unless the row may *)
(* be in the hands of a second one.                                        *)

PendingInv ==
  \A i \in Instances : Holding(i) /\ worker[i].job \notin Contested =>
    jobs[worker[i].job].status \in {"queued", "running"} \/ Unanswered(i)

\* Only the environment's processes ever run.
UpInv == \A i \in Instances : Up(i) => i \in env.processes

\* Boot starts no other.
LEMMA UpStep == ASSUME TypeOK, UpInv, [Next]_vars PROVE UpInv'
<1> DEFINE Own(i) == /\ \A k \in Instances \ {i} : worker'[k] = worker[k]
                     /\ Up(i) \/ i \in env.processes \/ worker'[i] = worker[i]
                     /\ env' = env
<1>1. ASSUME NEW i \in Instances, Own(i) PROVE UpInv'
  BY <1>1 DEF UpInv, Up
<1> HIDE DEF Own
<1>2. ASSUME NEW i \in Instances, NEW w, GoTo(i, w), env' = env,
             Up(i) \/ i \in env.processes
      PROVE  Own(i)
  BY <1>2 DEF Own, GoTo, TypeOK
<1>3. ASSUME worker' = worker, env' = env PROVE UpInv'
  BY <1>3 DEF UpInv, Up
<1>4. ASSUME NEW i \in Instances,
             Process(i) \/ Trouble(i)
             \/ \E j \in Jobs : Enqueue(i, j) \/ Persist(i, j)
      PROVE  UpInv'
  <2>1. CASE Boot(i) \/ Work(i)
    BY <1>1, <1>2, <2>1
    DEF Boot, Work, Claim, NothingToClaim, HandlerReturns, HandlerThrows, Complete,
        Settle, Reject, StartDrain, Up, countVars
  <2>2. CASE Recover(i) \/ Nudge(i) \/ Poll(i)
    BY <1>1, <1>2, <1>3, <2>2 DEF Recover, Nudge, Poll, StartDrain, Up, countVars
  <2>3. CASE Trouble(i)
    BY <1>1, <1>2, <1>3, <2>3
    DEF Trouble, CompleteFails, TickFails, RecoverFails, Crash, PersistFails,
        DbError, Up
  <2>4. CASE \E j \in Jobs : Enqueue(i, j) \/ Persist(i, j)
    BY <1>3, <2>4 DEF Enqueue, Persist, countVars
  <2> QED BY <1>4, <2>1, <2>2, <2>3, <2>4 DEF Process
<1>5. ASSUME NEW j \in Jobs, Due(j) PROVE UpInv'
  BY <1>3, <1>5 DEF Due, countVars
<1>6. CASE UNCHANGED vars
  BY <1>3, <1>6 DEF vars, countVars
<1> QED BY <1>4, <1>5, <1>6 DEF Next

\* The environment stays, and what was contested stays contested.
LEMMA Steady ==
  ASSUME Step
  PROVE  /\ env' = env /\ Single' = Single
         /\ reset \subseteq reset' /\ Contested \subseteq Contested'
<1>1. env' = env /\ reset \subseteq reset'
  BY DEF Step, Quiet, Inserts, Takes, Writes, Requeues
<1> QED BY <1>1 DEF Single, Contested

\* Two workers on one row: recovery took it from one of them.
LEMMA TwoHolders ==
  ASSUME ExclusiveUnlessReset, UpInv,
         NEW i \in Instances, NEW k \in Instances, i # k,
         Holding(i), Holding(k), worker[i].job = worker[k].job
  PROVE  worker[i].job \in Contested
<1>1. i \in env.processes /\ k \in env.processes BY DEF UpInv, Up, Holding
<1>2. ~Single BY <1>1 DEF Single
<1>3. worker[i].job \in reset BY DEF ExclusiveUnlessReset
<1> QED BY <1>2, <1>3 DEF Contested

\* A row stays without a verdict until its worker writes one.
LEMMA PendingStep ==
  ASSUME QueueInv, UpInv, PendingInv, Step
  PROVE  PendingInv'
<1> USE DEF QueueInv
<1>s. Contested \subseteq Contested' BY Steady
<1>1. ASSUME NEW i \in Instances, Quiet(i) PROVE PendingInv'
  <2>1. ASSUME NEW k \in Instances PROVE TakesNone(k)
    BY <1>1 DEF Quiet, OthersRest, TakesNone, Holding
  <2>2. UNCHANGED jobs BY <1>1 DEF Quiet
  <2> QED BY <1>s, <2>1, <2>2 DEF TakesNone, PendingInv, Unanswered
<1>2. ASSUME NEW i \in Instances, NEW j \in Jobs, Inserts(i, j) PROVE PendingInv'
  <2>1. \A k \in Instances : Holding(k) => worker[k].job \in Jobs \ {j}
    BY <1>2 DEF Inserts, EnqueueInv, HolderInv
  <2> QED BY <1>2, <1>s, <2>1
      DEF Inserts, RestOfTable, PendingInv, Unanswered, Holding
<1>3. ASSUME NEW i \in Instances, NEW j \in Jobs, Takes(i, j) PROVE PendingInv'
  <2>1. /\ jobs'[j].status = "running"
        /\ \A l \in Jobs \ {j} : jobs'[l] = jobs[l]
        /\ \A k \in Instances \ {i} : worker'[k] = worker[k]
        /\ Holding(i)' => worker'[i].job = j
    BY <1>3 DEF Takes, RestOfTable, OthersRest, Taker
  <2>2. \A k \in Instances : Holding(k) => worker[k].job \in Jobs
    BY DEF HolderInv
  <2> QED BY <1>s, <2>1, <2>2 DEF PendingInv, Unanswered, Holding
<1>4. ASSUME NEW i \in Instances, NEW j \in Jobs, Writes(i, j) PROVE PendingInv'
  <2>1. /\ \A l \in Jobs \ {j} : jobs'[l] = jobs[l]
        /\ \A k \in Instances \ {i} : worker'[k] = worker[k]
        /\ Holding(i) /\ worker[i].job = j
    BY <1>4 DEF Writes, RestOfTable, OthersRest
  <2>2. Holding(i)' => Unanswered(i)'
    BY <1>4 DEF Writes, TypeOK, Worker, Unanswered
  <2>3. ASSUME NEW k \in Instances \ {i}, Holding(k), worker[k].job \notin Contested
        PROVE  worker[k].job \in Jobs \ {j}
    BY <2>1, <2>3, TwoHolders DEF HolderInv
  <2> QED BY <1>s, <2>1, <2>2, <2>3 DEF PendingInv, Unanswered, Holding
<1>5. CASE Requeues
  <2>1. UNCHANGED worker BY <1>5 DEF Requeues
  <2>2. ASSUME NEW k \in Instances, Holding(k)
        PROVE  LET j == worker[k].job IN
               \/ jobs'[j].status = jobs[j].status \/ jobs'[j].status = "queued"
    BY <1>5, <2>2 DEF Requeues, HolderInv
  <2> QED BY <1>s, <2>1, <2>2 DEF PendingInv, Unanswered, Holding
<1> QED BY <1>1, <1>2, <1>3, <1>4, <1>5 DEF Step

\* The invariants of this part together.
VerdictInv == QueueInv /\ UpInv /\ PendingInv

\* They hold in every reachable state.
LEMMA VerdictInvariant == Spec => []VerdictInv
<1>1. Init => UpInv /\ PendingInv
  BY DEF Init, Resting, UpInv, Up, PendingInv, Holding
<1>2. VerdictInv /\ [Next]_vars => UpInv' /\ PendingInv'
  BY Kinds, UpStep, PendingStep DEF VerdictInv, QueueInv
<1> QED BY <1>1, <1>2, Invariant, PTL DEF Spec, VerdictInv

\* A final verdict is only ever overwritten on a contested row, or by a worker
\* that missed the answer to its completeJob.
LEMMA VerdictStep ==
  ASSUME VerdictInv, [Next]_vars,
         NEW l \in Jobs, l \notin Contested, ~InDoubt(l),
         jobs[l].status \in {"done", "failed"}
  PROVE  jobs'[l] = jobs[l]
<1> USE DEF VerdictInv, QueueInv
<1>1. Step BY Kinds
<1>2. ASSUME NEW i \in Instances, Writes(i, l) PROVE FALSE
  BY <1>2 DEF Writes, PendingInv, InDoubt
<1>3. ASSUME NEW i \in Instances, Inserts(i, l) \/ Takes(i, l) PROVE FALSE
  BY <1>3 DEF Inserts, Takes, EnqueueInv
<1> QED BY <1>1, <1>2, <1>3
    DEF Step, Quiet, Inserts, Takes, Writes, Requeues, RestOfTable

\* Done and failed are final, unless recovery took the row from a live worker or
\* the worker that wrote done was not answered.
THEOREM VerdictsFinal == Spec => VerdictStands
<1>1. VerdictInv /\ [Next]_vars =>
        [\A j \in Jobs \ Contested :
           jobs[j].status \in {"done", "failed"} /\ ~InDoubt(j)
             => jobs'[j] = jobs[j]]_jobs
  BY VerdictStep
<1>2. QED BY <1>1, VerdictInvariant, PTL DEF Spec, VerdictStands

-----------------------------------------------------------------------------
(* The table is a ledger.                                                  *)

Verdicts == [j \in Jobs |-> Verdict(j)]

\* A verdict is what the row says, unless it is contested or in doubt.
Says(j) ==
  /\ j \in Contested => Verdict(j) = "contested"
  /\ j \notin Contested =>
       /\ jobs[j].status = "absent" => Verdict(j) = "none"
       /\ jobs[j].status \in {"queued", "running"} => Verdict(j) = "pending"
       /\ jobs[j].status = "done" =>
            Verdict(j) = IF InDoubt(j) THEN "pending" ELSE "done"
       /\ jobs[j].status = "failed" => Verdict(j) = "failed"

\* It is so by the definitions.
LEMMA VerdictIs == ASSUME NEW j PROVE Says(j)
<1>1. InDoubt(j) => jobs[j].status = "done" BY DEF InDoubt, Unanswered
<1>2. CASE j \in Contested BY <1>2 DEF Verdict, Says
<1>3. CASE j \notin Contested
  <2>1. CASE jobs[j].status = "absent" BY <1>1, <1>3, <2>1 DEF Verdict, Says
  <2>2. CASE jobs[j].status \in {"queued", "running"}
    BY <1>1, <1>3, <2>2 DEF Verdict, Says
  <2>3. CASE jobs[j].status = "done" BY <1>1, <1>3, <2>3 DEF Verdict, Says
  <2>4. CASE jobs[j].status = "failed" BY <1>1, <1>3, <2>4 DEF Verdict, Says
  <2> QED BY <1>3, <2>1, <2>2, <2>3, <2>4 DEF Says
<1> QED BY <1>2, <1>3

\* And so it is after a step.
LEMMA VerdictWillBe == ASSUME NEW j PROVE Says(j)'
<1>1. InDoubt(j)' => jobs'[j].status = "done" BY DEF InDoubt, Unanswered
<1>2. CASE j \in Contested' BY <1>2 DEF Verdict, Says
<1>3. CASE j \notin Contested'
  <2>1. CASE jobs'[j].status = "absent" BY <1>1, <1>3, <2>1 DEF Verdict, Says
  <2>2. CASE jobs'[j].status \in {"queued", "running"}
    BY <1>1, <1>3, <2>2 DEF Verdict, Says
  <2>3. CASE jobs'[j].status = "done" BY <1>1, <1>3, <2>3 DEF Verdict, Says
  <2>4. CASE jobs'[j].status = "failed" BY <1>1, <1>3, <2>4 DEF Verdict, Says
  <2> QED BY <1>3, <2>1, <2>2, <2>3, <2>4 DEF Says
<1> QED BY <1>2, <1>3

\* A step that changes one verdict at most, from pending to done or failed, is
\* one of the ledger.
LEMMA Decides ==
  ASSUME NEW j \in Jobs,
         \A k \in Jobs \ {j} : Verdict(k)' = Verdict(k),
         \/ Verdict(j)' = Verdict(j)
         \/ Verdict(j) = "pending" /\ Verdict(j)' \in {"done", "failed"}
  PROVE  [Ledger!Next]_Verdicts
<1>1. CASE Verdict(j)' = Verdict(j)
  <2>1. UNCHANGED Verdicts BY <1>1 DEF Verdicts
  <2> QED BY <2>1
<1>2. CASE Verdict(j) = "pending" /\ Verdict(j)' \in {"done", "failed"}
  <2>1. Verdicts' = [Verdicts EXCEPT ![j] = Verdict(j)'] BY DEF Verdicts
  <2>2. Verdicts[j] = "pending" BY <1>2 DEF Verdicts
  <2>3. Ledger!Decide(j) BY <1>2, <2>1, <2>2 DEF Ledger!Decide, Verdicts
  <2> QED BY <2>3 DEF Ledger!Next
<1> QED BY <1>1, <1>2

\* Every step is a step of the ledger or none.
LEMMA LedgerStep ==
  ASSUME VerdictInv, Step
  PROVE  [Ledger!Next]_Verdicts
<1> USE DEF VerdictInv, QueueInv
<1>t. Sorted BY Sorting
<1>1. ASSUME NEW i \in Instances, Quiet(i) PROVE [Ledger!Next]_Verdicts
  <2>1. UNCHANGED <<jobs, Contested>> /\ OthersRest(i) /\ TakesNone(i)
    BY <1>1 DEF Quiet, Contested, Single
  <2>2. ASSUME NEW l \in Jobs, l \notin Contested, InDoubt(l)' PROVE InDoubt(l)
    <3>1. PICK k \in Instances : Unanswered(k)' /\ worker'[k].job = l
      BY <2>2 DEF InDoubt
    <3>2. CASE k = i
      BY <2>1, <2>2, <3>1, <3>2
      DEF TakesNone, Unanswered, Holding, PendingInv, InDoubt
    <3>3. CASE k # i
      BY <2>1, <3>1, <3>3 DEF OthersRest, Unanswered, InDoubt
    <3> QED BY <3>2, <3>3
  <2>3. ASSUME NEW l \in Jobs, InDoubt(l), ~InDoubt(l)' PROVE l = worker[i].job
    BY <2>1, <2>3 DEF OthersRest, Unanswered, InDoubt
  <2>4. ASSUME NEW l \in Jobs
        PROVE  \/ Verdict(l)' = Verdict(l)
               \/ /\ l = worker[i].job
                  /\ Verdict(l) = "pending" /\ Verdict(l)' = "done"
    <3>1. CASE l \in Contested \/ jobs[l].status # "done"
      BY <1>t, <2>1, <3>1, VerdictIs, VerdictWillBe
        DEF Says, Sorted, Statuses
    <3>2. CASE l \notin Contested /\ jobs[l].status = "done"
      <4>1. Verdict(l) = IF InDoubt(l) THEN "pending" ELSE "done"
        BY <3>2, VerdictIs, VerdictWillBe DEF Says
      <4>2. Verdict(l)' = IF InDoubt(l)' THEN "pending" ELSE "done"
        BY <2>1, <3>2, VerdictIs, VerdictWillBe DEF Says
      <4> QED BY <2>2, <2>3, <3>2, <4>1, <4>2
    <3> QED BY <3>1, <3>2
  <2>5. CASE worker[i].job \in Jobs BY <2>4, <2>5, Decides
  <2>6. CASE worker[i].job \notin Jobs
    <3>1. UNCHANGED Verdicts BY <2>4, <2>6 DEF Verdicts
    <3> QED BY <3>1
  <2> QED BY <2>5, <2>6
<1>2. ASSUME NEW i \in Instances, NEW j \in Jobs, Inserts(i, j)
      PROVE  [Ledger!Next]_Verdicts
  <2>1. /\ jobs[j].status = "absent" /\ jobs'[j].status = "queued"
        /\ \A l \in Jobs \ {j} : jobs'[l] = jobs[l]
        /\ UNCHANGED <<worker, Contested>>
    BY <1>2 DEF Inserts, EnqueueInv, RestOfTable, Contested, Single
  <2>2. ASSUME NEW l \in Jobs \ {j} PROVE Verdict(l)' = Verdict(l)
    <3>1. InDoubt(l)' = InDoubt(l) BY <2>1 DEF InDoubt, Unanswered
    <3> QED BY <1>t, <2>1, <3>1, VerdictIs, VerdictWillBe
        DEF Says, Sorted, Statuses
  <2>3. CASE j \in Contested
    <3>1. Verdict(j)' = Verdict(j) BY <2>1, <2>3, VerdictIs, VerdictWillBe DEF Says
    <3> QED BY <2>2, <3>1, Decides
  <2>4. CASE j \notin Contested
    <3>1. Verdict(j) = "none" /\ Verdict(j)' = "pending"
      BY <2>1, <2>4, VerdictIs, VerdictWillBe DEF Says
    <3>2. Verdicts[j] = "none" /\ Verdicts' = [Verdicts EXCEPT ![j] = "pending"]
      BY <2>2, <3>1 DEF Verdicts
    <3>3. Ledger!Accept(j) BY <3>2 DEF Ledger!Accept, Verdicts
    <3> QED BY <3>3 DEF Ledger!Next
  <2> QED BY <2>3, <2>4
<1>3. ASSUME NEW i \in Instances, NEW j \in Jobs, Takes(i, j)
      PROVE  [Ledger!Next]_Verdicts
  <2>1. /\ jobs[j].status = "queued" /\ jobs'[j].status = "running"
        /\ \A l \in Jobs \ {j} : jobs'[l] = jobs[l]
        /\ UNCHANGED Contested /\ OthersRest(i)
        /\ worker[i].pc # "settle" /\ worker'[i].pc # "settle"
    BY <1>3 DEF Takes, RestOfTable, Contested, Single, Holding, Taker
  <2>2. ASSUME NEW l \in Jobs \ {j} PROVE Verdict(l)' = Verdict(l)
    <3>1. InDoubt(l)' = InDoubt(l) BY <2>1 DEF InDoubt, Unanswered, OthersRest
    <3> QED BY <1>t, <2>1, <3>1, VerdictIs, VerdictWillBe
        DEF Says, Sorted, Statuses
  <2>3. Verdict(j)' = Verdict(j) BY <2>1, VerdictIs, VerdictWillBe DEF Says
  <2> QED BY <2>2, <2>3, Decides
<1>4. ASSUME NEW i \in Instances, NEW j \in Jobs, Writes(i, j)
      PROVE  [Ledger!Next]_Verdicts
  <2>1. /\ jobs'[j].status \in {"queued", "done", "failed"}
        /\ \A l \in Jobs \ {j} : jobs'[l] = jobs[l]
        /\ UNCHANGED Contested /\ OthersRest(i)
        /\ Holding(i) /\ worker[i].job = j
    BY <1>4 DEF Writes, RestOfTable, Contested, Single
  <2>2. worker'[i].pc = "settle" => worker'[i].job = j
    BY <1>4 DEF Writes, Holding, TypeOK, Worker
  <2>3. ASSUME NEW l \in Jobs \ {j} PROVE Verdict(l)' = Verdict(l)
    <3>1. InDoubt(l)' = InDoubt(l)
      BY <2>1, <2>2 DEF InDoubt, Unanswered, OthersRest
    <3> QED BY <1>t, <2>1, <3>1, VerdictIs, VerdictWillBe
        DEF Says, Sorted, Statuses
  <2>4. CASE j \in Contested
    <3>1. Verdict(j)' = Verdict(j) BY <2>1, <2>4, VerdictIs, VerdictWillBe DEF Says
    <3> QED BY <2>3, <3>1, Decides
  <2>5. CASE j \notin Contested
    <3>1. jobs[j].status \in {"queued", "running"} \/ (jobs[j].status = "done" /\ InDoubt(j))
      BY <2>1, <2>5 DEF PendingInv, InDoubt, Unanswered
    <3>2. Verdict(j) = "pending" BY <2>5, <3>1, VerdictIs, VerdictWillBe DEF Says
    <3>3. Verdict(j)' \in {"pending", "done", "failed"}
      BY <2>1, <2>5, VerdictIs, VerdictWillBe DEF Says
    <3> QED BY <2>3, <3>2, <3>3, Decides
  <2> QED BY <2>4, <2>5
<1>5. CASE Requeues
  <2> DEFINE opened == Contested' \ Contested
  <2>1. opened \subseteq reset' \ reset /\ opened \subseteq Jobs
        /\ Contested \subseteq Contested'
    <3>1. reset' \subseteq Jobs /\ Single' = Single BY <1>5, Steady DEF Requeues, Step
    <3> QED BY <3>1, Steady DEF Contested
  <2>2. ASSUME NEW j \in opened
        PROVE  Verdict(j) = "pending" /\ Verdict(j)' = "contested"
    <3>1. j \in Jobs /\ jobs[j].status = "running" BY <1>5, <2>1 DEF Requeues
    <3> QED BY <3>1, VerdictIs, VerdictWillBe DEF Says
  <2>3. ASSUME NEW j \in Jobs \ opened PROVE Verdict(j)' = Verdict(j)
    <3>1. jobs'[j].status = jobs[j].status
          \/ (jobs[j].status = "running" /\ jobs'[j].status = "queued")
      BY <1>5 DEF Requeues
    <3>2. jobs[j].status = "done" => InDoubt(j)' = InDoubt(j)
      BY <1>5, <3>1 DEF Requeues, InDoubt, Unanswered
    <3>3. j \in Contested <=> j \in Contested' BY <2>1
    <3> QED BY <1>t, <3>1, <3>2, <3>3, VerdictIs, VerdictWillBe
        DEF Says, Sorted, Statuses
  <2>4. Verdicts' = [j \in Jobs |-> IF j \in opened THEN "contested" ELSE Verdicts[j]]
    BY <2>2, <2>3 DEF Verdicts
  <2>5. \A j \in opened : Verdicts[j] = "pending" BY <2>1, <2>2 DEF Verdicts
  <2>6. Ledger!Contest(opened)
    BY <2>4, <2>5 DEF Ledger!Contest, Verdicts
  <2> QED BY <2>1, <2>6 DEF Ledger!Next
<1> QED BY <1>1, <1>2, <1>3, <1>4, <1>5 DEF Step

\* However many processes share the table, and through every crash and database
\* error, a job that recovery has not opened to a second worker gets one verdict
\* and keeps it: the queue implements the ledger.
THEOREM LedgerImplemented == Spec => LedgerKept
<1>1. Init => Ledger!Init
  <2> SUFFICES ASSUME Init PROVE Ledger!Init OBVIOUS
  <2>1. Contested = {} BY DEF Init, Contested
  <2>2. \A j \in Jobs : Verdict(j) = "none" BY <2>1, VerdictIs DEF Says, Init
  <2> QED BY <2>2 DEF Ledger!Init
<1>2. VerdictInv /\ [Next]_vars => [Ledger!Next]_Verdicts
  BY Kinds, LedgerStep DEF VerdictInv, QueueInv
<1>3. QED
  BY <1>1, <1>2, VerdictInvariant, PTL DEF Spec, LedgerKept, Ledger!Spec, Verdicts

-----------------------------------------------------------------------------
(* What a job may cost.  A row in nobody's hands has a try to spare, and   *)
(* each crash and each error, which may take that try, raises the limit by *)
(* one.                                                                    *)

Limit == MaxAttempts + crashes + errors

Held(j) == \E i \in Instances : Holding(i) /\ worker[i].job = j

WithinBudget(j) ==
  /\ jobs[j].attempts <= Limit
  /\ jobs[j].status \in {"queued", "running"} =>
       Held(j) \/ jobs[j].attempts < Limit

\* A worker knows the attempts of its row.
KnowsAttempts(i) ==
  Holding(i) /\ worker[i].job \notin Contested =>
    jobs[worker[i].job].attempts <= worker[i].attempts

BudgetInv == /\ \A j \in Jobs \ Contested : WithinBudget(j)
             /\ \A i \in Instances : KnowsAttempts(i)

\* The limit leaves room for a first try, and only failures raise it.
LEMMA Limits ==
  ASSUME TypeOK
  PROVE  /\ Limit \in Nat /\ Limit >= MaxAttempts /\ Limit > 0
         /\ Calm => Limit' = Limit
         /\ Failure => Limit' = Limit + 1
  BY QueueAssumption DEF TypeOK, Limit, Calm, Failure

\* A row stays within its limit if it is left as it is, and stays in the hands
\* it is in or a failure has raised the limit.
LEMMA StaysWithin ==
  ASSUME TypeOK, NEW j \in Jobs, WithinBudget(j),
         jobs'[j].attempts = jobs[j].attempts,
         jobs'[j].status \in {"queued", "running"} =>
           jobs[j].status \in {"queued", "running"},
         Failure \/ (Calm /\ (Held(j) => Held(j)'))
  PROVE  WithinBudget(j)'
<1>1. PICK n \in Nat : n = jobs[j].attempts BY DEF TypeOK, Job
<1>2. PICK l \in Nat : l = Limit BY Limits
<1>3. PICK m : m = Limit' OBVIOUS
<1>4. n <= l /\ (jobs[j].status \in {"queued", "running"} => Held(j) \/ n < l)
  BY <1>1, <1>2 DEF WithinBudget
<1>5. CASE Calm /\ (Held(j) => Held(j)')
  <2>1. m = l BY <1>2, <1>3, <1>5, Limits
  <2> QED BY <1>1, <1>3, <1>4, <1>5, <2>1 DEF WithinBudget
<1>6. CASE Failure
  <2>1. m = l + 1 BY <1>2, <1>3, <1>6, Limits
  <2>2. n < m /\ n <= m BY <1>4, <2>1
  <2> QED BY <1>1, <1>3, <2>2 DEF WithinBudget
<1> QED BY <1>5, <1>6

\* A worker that keeps its row, or lets go of it, knows no less than before.
LEMMA StillKnows ==
  ASSUME HolderInv, NEW i \in Instances, KnowsAttempts(i),
         Contested \subseteq Contested',
         Holding(i)' => /\ Holding(i)
                        /\ worker'[i].job = worker[i].job
                        /\ worker'[i].attempts = worker[i].attempts,
         Holding(i) /\ worker[i].job \notin Contested =>
           jobs'[worker[i].job].attempts = jobs[worker[i].job].attempts
  PROVE  KnowsAttempts(i)'
BY DEF KnowsAttempts, HolderInv

\* A row that is claimed was in nobody's hands.
LEMMA FreeWhenTaken ==
  ASSUME VerdictInv, NEW i \in Instances, NEW j \in Jobs \ Contested, Takes(i, j)
  PROVE  ~Held(j)
<1> SUFFICES ASSUME NEW k \in Instances, Holding(k), worker[k].job = j
             PROVE  FALSE
  BY DEF Held
<1>1. k # i /\ jobs[j].status = "queued" BY DEF Takes
<1>2. j \in reset
  BY <1>1 DEF VerdictInv, QueueInv, ExclusiveUnlessReset, Unanswered
<1>3. i \in env.processes /\ k \in env.processes
  BY DEF Takes, VerdictInv, UpInv, Up, Holding
<1> QED BY <1>1, <1>2, <1>3 DEF Contested, Single

\* Every step keeps the budget.
LEMMA BudgetStep ==
  ASSUME VerdictInv, BudgetInv, Step
  PROVE  BudgetInv'
<1> USE DEF VerdictInv, QueueInv
<1>s. Contested \subseteq Contested' BY Steady
<1>1. ASSUME NEW i \in Instances, Quiet(i) PROVE BudgetInv'
  <2>1. ASSUME NEW k \in Instances PROVE TakesNone(k)
    BY <1>1 DEF Quiet, OthersRest, TakesNone, Holding
  <2>2. ASSUME NEW l \in Jobs \ Contested' PROVE WithinBudget(l)'
    <3>1. Failure \/ (Calm /\ (Held(l) => Held(l)'))
      BY <1>1, <2>1 DEF Quiet, OthersRest, TakesNone, Held, Holding
    <3>2. jobs'[l] = jobs[l] BY <1>1 DEF Quiet
    <3>3. l \in Jobs /\ WithinBudget(l) BY <1>s DEF BudgetInv
    <3> QED BY <3>1, <3>2, <3>3, StaysWithin
  <2>3. ASSUME NEW k \in Instances PROVE KnowsAttempts(k)'
    <3>1. UNCHANGED jobs BY <1>1 DEF Quiet
    <3> QED BY <1>s, <2>1, <3>1, StillKnows DEF TakesNone, BudgetInv
  <2> QED BY <2>2, <2>3 DEF BudgetInv
<1>2. ASSUME NEW i \in Instances, NEW j \in Jobs, Inserts(i, j) PROVE BudgetInv'
  <2>1. /\ jobs[j].status = "absent" /\ jobs'[j].attempts = 0
        /\ RestOfTable(j) /\ UNCHANGED worker
        /\ Calm \/ Failure
    BY <1>2 DEF Inserts, EnqueueInv
  <2>2. PICK l \in Nat : l = Limit /\ l > 0 BY Limits
  <2>3. Limit' > 0 /\ Limit' \in Nat BY <2>1, <2>2, Limits
  <2>4. WithinBudget(j)' BY <2>1, <2>3 DEF WithinBudget
  <2>5. ASSUME NEW k \in Jobs \ Contested', k # j PROVE WithinBudget(k)'
    <3>1. Held(k)' = Held(k) BY <2>1 DEF Held, Holding
    <3>2. k \in Jobs /\ WithinBudget(k) BY <1>s DEF BudgetInv
    <3>3. jobs'[k] = jobs[k] BY <2>1, <2>5 DEF RestOfTable
    <3> QED BY <2>1, <3>1, <3>2, <3>3, StaysWithin
  <2>6. ASSUME NEW k \in Instances PROVE KnowsAttempts(k)'
    <3>1. Holding(k)' = Holding(k) BY <2>1 DEF Holding
    <3>2. Holding(k) => worker[k].job \in Jobs \ {j} BY <2>1 DEF HolderInv
    <3> QED BY <1>s, <2>1, <3>1, <3>2, StillKnows DEF BudgetInv, RestOfTable
  <2> QED BY <2>4, <2>5, <2>6 DEF BudgetInv
<1>3. ASSUME NEW i \in Instances, NEW j \in Jobs, Takes(i, j) PROVE BudgetInv'
  <2>1. /\ jobs[j].status = "queued"
        /\ jobs'[j].attempts = jobs[j].attempts + 1
        /\ RestOfTable(j) /\ OthersRest(i) /\ ~Holding(i)
        /\ \/ Calm /\ worker'[i] = Taker(j)
           \/ Failure /\ ~Holding(i)'
    BY <1>3 DEF Takes
  <2>2. PICK n \in Nat : n = jobs[j].attempts BY DEF TypeOK, Job
  <2>3. PICK l \in Nat : l = Limit BY Limits
  <2>4. ASSUME j \notin Contested' PROVE WithinBudget(j)'
    <3>1. j \in Jobs \ Contested BY <1>s, <2>4
    <3>2. n < l
      BY <1>3, <2>1, <2>2, <2>3, <3>1, FreeWhenTaken DEF BudgetInv, WithinBudget
    <3>3. CASE Calm /\ worker'[i] = Taker(j)
      <4>1. Held(j)' BY <3>3 DEF Taker, Held, Holding
      <4>2. Limit' = l /\ n + 1 <= l BY <2>3, <3>2, <3>3, Limits
      <4> QED BY <2>1, <2>2, <4>1, <4>2 DEF WithinBudget
    <3>4. CASE Failure
      <4>1. Limit' = l + 1 BY <2>3, <3>4, Limits
      <4>2. n + 1 <= l + 1 /\ n + 1 < l + 1 BY <3>2
      <4> QED BY <2>1, <2>2, <4>1, <4>2 DEF WithinBudget
    <3> QED BY <2>1, <3>3, <3>4
  <2>5. ASSUME NEW k \in Jobs \ Contested', k # j PROVE WithinBudget(k)'
    <3>1. Held(k) => Held(k)' BY <2>1 DEF Held, Holding, OthersRest
    <3>2. k \in Jobs /\ WithinBudget(k) BY <1>s DEF BudgetInv
    <3>3. jobs'[k] = jobs[k] BY <2>1, <2>5 DEF RestOfTable
    <3> QED BY <2>1, <3>1, <3>2, <3>3, StaysWithin
  <2>6. ASSUME NEW k \in Instances, k # i PROVE KnowsAttempts(k)'
    <3>1. worker'[k] = worker[k] BY <2>1, <2>6 DEF OthersRest
    <3>2. Holding(k) /\ worker[k].job \notin Contested => worker[k].job \in Jobs \ {j}
      BY <1>3, FreeWhenTaken DEF HolderInv, Held
    <3> QED BY <1>s, <2>1, <3>1, <3>2, StillKnows
        DEF BudgetInv, RestOfTable, Holding
  <2>7. KnowsAttempts(i)'
    <3>1. CASE worker'[i] = Taker(j)
      <4>1. worker'[i].job = j /\ worker'[i].attempts = n + 1
        BY <2>2, <3>1 DEF Taker
      <4> QED BY <2>1, <2>2, <4>1 DEF KnowsAttempts
    <3>2. CASE ~Holding(i)' BY <3>2 DEF KnowsAttempts
    <3> QED BY <2>1, <3>1, <3>2
  <2> QED BY <2>4, <2>5, <2>6, <2>7 DEF BudgetInv
<1>4. ASSUME NEW i \in Instances, NEW j \in Jobs, Writes(i, j) PROVE BudgetInv'
  <2>1. /\ Holding(i) /\ worker[i].job = j
        /\ jobs'[j].status \in {"queued", "done", "failed"}
        /\ jobs'[j].status = "queued" => worker[i].attempts < MaxAttempts
        /\ jobs'[j].attempts = jobs[j].attempts
        /\ RestOfTable(j) /\ OthersRest(i)
        /\ Calm \/ Failure
    BY <1>4 DEF Writes
  <2>2. ASSUME j \notin Contested' PROVE WithinBudget(j)'
    <3>1. j \in Jobs \ Contested BY <1>s, <2>2
    <3>2. PICK n \in Nat : n = jobs[j].attempts BY DEF TypeOK, Job
    <3>3. PICK w \in Nat : w = worker[i].attempts BY DEF TypeOK, Worker
    <3>4. PICK l \in Nat : l = Limit /\ l >= MaxAttempts BY Limits
    <3>5. PICK m \in Nat : m = Limit' /\ m >= l BY <2>1, <3>4, Limits
    <3>6. n <= l /\ n <= w
      BY <2>1, <3>1, <3>2, <3>3, <3>4 DEF BudgetInv, WithinBudget, KnowsAttempts
    <3>7. n <= m BY <3>5, <3>6
    <3>8. jobs'[j].status = "queued" => n < m
      BY <2>1, <3>3, <3>4, <3>5, <3>6, QueueAssumption
    <3> QED BY <2>1, <3>2, <3>5, <3>7, <3>8 DEF WithinBudget
  <2>3. ASSUME NEW k \in Jobs \ Contested', k # j PROVE WithinBudget(k)'
    <3>1. Held(k) => Held(k)' BY <2>1, <2>3 DEF Held, Holding, OthersRest
    <3>2. k \in Jobs /\ WithinBudget(k) BY <1>s DEF BudgetInv
    <3>3. jobs'[k] = jobs[k] BY <2>1, <2>3 DEF RestOfTable
    <3> QED BY <2>1, <3>1, <3>2, <3>3, StaysWithin
  <2>4. ASSUME NEW k \in Instances PROVE KnowsAttempts(k)'
    <3>1. Holding(k)' => /\ Holding(k)
                         /\ worker'[k].job = worker[k].job
                         /\ worker'[k].attempts = worker[k].attempts
      BY <1>4 DEF Writes, OthersRest, Holding, TypeOK, Worker
    <3>2. Holding(k) => jobs'[worker[k].job].attempts = jobs[worker[k].job].attempts
      BY <2>1 DEF RestOfTable, HolderInv
    <3> QED BY <1>s, <3>1, <3>2, StillKnows DEF BudgetInv
  <2> QED BY <2>2, <2>3, <2>4 DEF BudgetInv
<1>5. CASE Requeues
  <2>1. UNCHANGED worker /\ Calm BY <1>5 DEF Requeues
  <2>2. ASSUME NEW l \in Jobs \ Contested' PROVE WithinBudget(l)'
    <3>1. Held(l)' = Held(l) BY <2>1 DEF Held, Holding
    <3>2. l \in Jobs /\ WithinBudget(l) BY <1>s DEF BudgetInv
    <3>3. /\ jobs'[l].attempts = jobs[l].attempts
          /\ jobs'[l].status \in {"queued", "running"} =>
               jobs[l].status \in {"queued", "running"}
      BY <1>5, <3>2 DEF Requeues
    <3> QED BY <2>1, <3>1, <3>2, <3>3, StaysWithin
  <2>3. ASSUME NEW k \in Instances PROVE KnowsAttempts(k)'
    <3>1. Holding(k) => jobs'[worker[k].job].attempts = jobs[worker[k].job].attempts
      BY <1>5 DEF Requeues, HolderInv
    <3>2. Holding(k)' = Holding(k) BY <2>1 DEF Holding
    <3> QED BY <1>s, <2>1, <3>1, <3>2, StillKnows DEF BudgetInv
  <2> QED BY <2>2, <2>3 DEF BudgetInv
<1> QED BY <1>1, <1>2, <1>3, <1>4, <1>5 DEF Step

\* However many processes there are, a job that recovery has not opened to a
\* second worker is tried at most as often as it may be, and once more for each
\* crash and each database error.
THEOREM RetriesBounded == Spec => []RetryBudget
<1>1. Init => BudgetInv
  <2> SUFFICES ASSUME Init PROVE BudgetInv OBVIOUS
  <2>1. Limit \in Nat /\ Limit > 0 BY InitInv, Limits DEF QueueInv
  <2>2. \A j \in Jobs : jobs[j].attempts = 0 /\ jobs[j].status = "absent"
    BY DEF Init
  <2>3. \A i \in Instances : ~Holding(i) BY DEF Init, Holding, Resting
  <2> QED BY <2>1, <2>2, <2>3 DEF BudgetInv, WithinBudget, KnowsAttempts
<1>2. VerdictInv /\ BudgetInv /\ [Next]_vars => BudgetInv'
  BY Kinds, BudgetStep DEF VerdictInv, QueueInv
<1>3. BudgetInv => RetryBudget
  BY DEF BudgetInv, WithinBudget, Limit, RetryBudget
<1>4. QED BY <1>1, <1>2, <1>3, VerdictInvariant, PTL DEF Spec
=============================================================================
