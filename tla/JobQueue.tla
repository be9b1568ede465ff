------------------------------ MODULE JobQueue ------------------------------
(***************************************************************************)
(* The durable job queue, src/jobs/queue.ts over the jobs table: every     *)
(* server process (instance) enqueues by inserting a row and runs one      *)
(* worker that claims, runs and settles rows.  Processes crash and boot    *)
(* again; a booting process re-queues every row it finds running.  Each    *)
(* awaited database call is one action.  It may throw instead, and a call  *)
(* that throws may have written all the same: its answer was lost.         *)
(*                                                                         *)
(* Left out: what the handlers do, the error texts, and the length of the  *)
(* poll and retry delays (a delay is an action that may come at any time). *)
(***************************************************************************)
EXTENDS Naturals, Sequences

CONSTANTS
  Instances,    \* server processes
  Jobs,         \* the jobs that may be enqueued
  Handled,      \* those whose kind has a registered handler
  MaxAttempts,  \* maxAttempts of a row (3 in persist)
  Environments  \* what may come, one of them chosen for good

Environment ==
  [processes : SUBSET Instances,  \* those that are ever started
   jobs : SUBSET Jobs,            \* those that are ever enqueued
   crashes : Nat,                 \* bound: crashes of processes in all
   errors : Nat]                  \* bound: failing database calls in all

ASSUME QueueAssumption ==
  /\ Handled \subseteq Jobs
  /\ MaxAttempts \in Nat \ {0}
  /\ Environments \subseteq Environment

VARIABLES
  jobs,      \* the jobs table
  asked,     \* the jobs enqueued so far, oldest first (their createdAt)
  inflight,  \* per process: enqueues whose insert has not been answered
  nudge,     \* per process: an insert succeeded and tick is about to be called
  polling,   \* per process: recoverAndStart has run and the poll timer is on
  worker,    \* per process: what tick and run are doing
  worked,    \* history: jobs whose handler has returned at least once
  reset,     \* history: jobs re-queued while a live worker was on them
  crashes,   \* crashes so far
  errors,    \* failed database calls so far
  env        \* the environment

processVars == <<inflight, nudge, polling>>
countVars   == <<crashes, errors, env>>
vars        == <<jobs, asked, processVars, worker, worked, reset, countVars>>

Job    == [status : {"absent", "queued", "running", "done", "failed"},
           attempts : Nat,
           due : BOOLEAN]                     \* runAfter has passed
Worker == [pc : {"down", "idle", "claim", "handle", "complete", "settle",
                 "reject"},
           job : Jobs \cup {"none"},          \* the row it claimed
           attempts : Nat]                    \* attempts of that row, as read

Resting(pc) == [pc |-> pc, job |-> "none", attempts |-> 0]

Init ==
  /\ jobs = [j \in Jobs |-> [status |-> "absent", attempts |-> 0, due |-> FALSE]]
  /\ asked = <<>>
  /\ inflight = [i \in Instances |-> {}]
  /\ nudge = [i \in Instances |-> FALSE]
  /\ polling = [i \in Instances |-> FALSE]
  /\ worker = [i \in Instances |-> Resting("down")]
  /\ worked = {}
  /\ reset = {}
  /\ crashes = 0
  /\ errors = 0
  /\ env \in Environments

-----------------------------------------------------------------------------
Up(i)      == worker[i].pc # "down"
Holding(i) == worker[i].pc \in {"handle", "complete", "settle", "reject"}

GoTo(i, w) == worker' = [worker EXCEPT ![i] = w]

\* A database call throws.
DbError ==
  /\ errors < env.errors
  /\ errors' = errors + 1
  /\ UNCHANGED <<crashes, env>>

\* enqueue is fire-and-forget: the caller goes on before the row exists.
Enqueue(i, j) ==
  /\ Up(i)
  /\ j \in env.jobs
  /\ \A n \in DOMAIN asked : asked[n] # j
  /\ asked' = Append(asked, j)
  /\ inflight' = [inflight EXCEPT ![i] = @ \cup {j}]
  /\ UNCHANGED <<jobs, nudge, polling, worker, worked, reset, countVars>>

InsertRow(j) == jobs' = [jobs EXCEPT ![j] = [status |-> "queued",
                                            attempts |-> 0, due |-> TRUE]]

Persist(i, j) ==
  /\ j \in inflight[i]
  /\ InsertRow(j)
  /\ inflight' = [inflight EXCEPT ![i] = @ \ {j}]
  /\ nudge' = [nudge EXCEPT ![i] = TRUE]
  /\ UNCHANGED <<asked, polling, worker, worked, reset, countVars>>

\* The catch in enqueue logs and forgets the job; no nudge, row or not.
PersistFails(i, j) ==
  /\ j \in inflight[i]
  /\ DbError
  /\ InsertRow(j) \/ UNCHANGED jobs
  /\ inflight' = [inflight EXCEPT ![i] = @ \ {j}]
  /\ UNCHANGED <<asked, nudge, polling, worker, worked, reset>>

-----------------------------------------------------------------------------
(* tick and run.                                                           *)

StartDrain(i) == GoTo(i, Resting("claim"))

\* tick from enqueue; a worker that is already draining drops the nudge.
Nudge(i) ==
  /\ nudge[i]
  /\ nudge' = [nudge EXCEPT ![i] = FALSE]
  /\ IF worker[i].pc = "idle" THEN StartDrain(i) ELSE UNCHANGED worker
  /\ UNCHANGED <<jobs, asked, inflight, polling, worked, reset, countVars>>

\* tick from the poll timer, which is on once recoverAndStart has run.
Poll(i) ==
  /\ polling[i]
  /\ worker[i].pc = "idle"
  /\ StartDrain(i)
  /\ UNCHANGED <<jobs, asked, processVars, worked, reset, countVars>>

Runnable(j) == jobs[j].status = "queued" /\ jobs[j].due

\* The oldest runnable row.
Foremost(j) == \E n \in DOMAIN asked :
                 /\ asked[n] = j
                 /\ Runnable(j)
                 /\ \A m \in 1..(n - 1) : ~Runnable(asked[m])

\* Mutant of TakeRow: the claimed row is not marked running.
TakeUnmarked(j) == jobs' = [jobs EXCEPT ![j].attempts = @ + 1]

TakeRow(j) ==
  jobs' = [jobs EXCEPT ![j].status = "running", ![j].attempts = @ + 1]

\* The worker that is answered with row j.
Taker(j) == [pc |-> IF j \in Handled THEN "handle" ELSE "reject",
             job |-> j, attempts |-> jobs[j].attempts + 1]

\* claimNextJob: one transaction.
Claim(i) ==
  /\ worker[i].pc = "claim"
  /\ \E j \in Jobs : Foremost(j) /\ TakeRow(j) /\ GoTo(i, Taker(j))
  /\ UNCHANGED <<asked, processVars, worked, reset, countVars>>

NothingToClaim(i) ==
  /\ worker[i].pc = "claim"
  /\ \A n \in DOMAIN asked : ~Runnable(asked[n])
  /\ GoTo(i, Resting("idle"))
  /\ UNCHANGED <<jobs, asked, processVars, worked, reset, countVars>>

HandlerReturns(i) ==
  /\ worker[i].pc = "handle"
  /\ worked' = worked \cup {worker[i].job}
  /\ GoTo(i, [worker[i] EXCEPT !.pc = "complete"])
  /\ UNCHANGED <<jobs, asked, processVars, reset, countVars>>

HandlerThrows(i) ==
  /\ worker[i].pc = "handle"
  /\ GoTo(i, [worker[i] EXCEPT !.pc = "settle"])
  /\ UNCHANGED <<jobs, asked, processVars, worked, reset, countVars>>

MarkRow(j, status) == jobs' = [jobs EXCEPT ![j].status = status]

Complete(i) ==
  /\ worker[i].pc = "complete"
  /\ MarkRow(worker[i].job, "done")
  /\ StartDrain(i)
  /\ UNCHANGED <<asked, processVars, worked, reset, countVars>>

\* completeJob is inside the try: its error is treated as the handler's, also
\* when the row says done by then.
CompleteFails(i) ==
  /\ worker[i].pc = "complete"
  /\ DbError
  /\ MarkRow(worker[i].job, "done") \/ UNCHANGED jobs
  /\ GoTo(i, [worker[i] EXCEPT !.pc = "settle"])
  /\ UNCHANGED <<asked, processVars, worked, reset>>

RetryRow(j) == jobs' = [jobs EXCEPT ![j].status = "queued", ![j].due = FALSE]

\* Mutants of SettleRow: one try too few, one too many.
SettleRowEarly(i) ==
  IF worker[i].attempts + 1 >= MaxAttempts THEN MarkRow(worker[i].job, "failed")
                                           ELSE RetryRow(worker[i].job)
SettleRowLate(i) ==
  IF worker[i].attempts > MaxAttempts THEN MarkRow(worker[i].job, "failed")
                                      ELSE RetryRow(worker[i].job)

\* retryJob, or markJobFailed once the attempts are used up.
SettleRow(i) ==
  IF worker[i].attempts >= MaxAttempts THEN MarkRow(worker[i].job, "failed")
                                       ELSE RetryRow(worker[i].job)

Settle(i) ==
  /\ worker[i].pc = "settle"
  /\ SettleRow(i)
  /\ StartDrain(i)
  /\ UNCHANGED <<asked, processVars, worked, reset, countVars>>

\* No handler for the kind: failed at once.
Reject(i) ==
  /\ worker[i].pc = "reject"
  /\ MarkRow(worker[i].job, "failed")
  /\ StartDrain(i)
  /\ UNCHANGED <<asked, processVars, worked, reset, countVars>>

\* claimNextJob, retryJob or markJobFailed throws: tick logs and stops.  A row
\* claimed without an answer is left running with nobody on it.
TickFails(i) ==
  /\ DbError
  /\ \/ worker[i].pc = "claim" /\ \E j \in Jobs : Foremost(j) /\ TakeRow(j)
     \/ worker[i].pc = "settle" /\ SettleRow(i)
     \/ worker[i].pc = "reject" /\ MarkRow(worker[i].job, "failed")
     \/ worker[i].pc \in {"claim", "settle", "reject"} /\ UNCHANGED jobs
  /\ GoTo(i, Resting("idle"))
  /\ UNCHANGED <<asked, processVars, worked, reset>>

\* The retry's runAfter passes.
Due(j) ==
  /\ jobs[j].status = "queued"
  /\ ~jobs[j].due
  /\ jobs' = [jobs EXCEPT ![j].due = TRUE]
  /\ UNCHANGED <<asked, processVars, worker, worked, reset, countVars>>

-----------------------------------------------------------------------------
(* Boot, recovery, crash.                                                  *)

\* registerJobs; recoverAndStart is started and not awaited.
Boot(i) ==
  /\ ~Up(i)
  /\ i \in env.processes
  /\ GoTo(i, Resting("idle"))
  /\ UNCHANGED <<jobs, asked, processVars, worked, reset, countVars>>

StartPolling(i) == polling' = [polling EXCEPT ![i] = TRUE]

\* Mutants of Recover: failed rows are taken too; nothing is taken.
RecoverFailed(i) ==
  /\ Up(i)
  /\ ~polling[i]
  /\ jobs' = [j \in Jobs |-> IF jobs[j].status \in {"running", "failed"}
                             THEN [jobs[j] EXCEPT !.status = "queued"]
                             ELSE jobs[j]]
  /\ StartPolling(i)
  /\ UNCHANGED <<asked, inflight, nudge, worker, worked, reset, countVars>>

RecoverNothing(i) ==
  /\ Up(i)
  /\ ~polling[i]
  /\ StartPolling(i)
  /\ UNCHANGED <<jobs, asked, inflight, nudge, worker, worked, reset,
                 countVars>>

\* resetRunningJobs takes every running row, whoever runs it.  What follows is
\* the same whether it is answered or not.
Recover(i) ==
  /\ Up(i)
  /\ ~polling[i]
  /\ LET running == {j \in Jobs : jobs[j].status = "running"} IN
       /\ jobs' = [j \in Jobs |-> IF j \in running
                                  THEN [jobs[j] EXCEPT !.status = "queued"]
                                  ELSE jobs[j]]
       /\ reset' = reset \cup {j \in running : \E k \in Instances :
                                 Holding(k) /\ worker[k].job = j}
  /\ StartPolling(i)
  /\ UNCHANGED <<asked, inflight, nudge, worker, worked, countVars>>

RecoverFails(i) ==
  /\ Up(i)
  /\ ~polling[i]
  /\ DbError
  /\ StartPolling(i)
  /\ UNCHANGED <<jobs, asked, inflight, nudge, worker, worked, reset>>

Crash(i) ==
  /\ Up(i)
  /\ crashes < env.crashes
  /\ crashes' = crashes + 1
  /\ GoTo(i, Resting("down"))
  /\ inflight' = [inflight EXCEPT ![i] = {}]
  /\ nudge' = [nudge EXCEPT ![i] = FALSE]
  /\ polling' = [polling EXCEPT ![i] = FALSE]
  /\ UNCHANGED <<jobs, asked, worked, reset, errors, env>>

Work(i) == \/ Claim(i) \/ NothingToClaim(i)
           \/ HandlerReturns(i) \/ HandlerThrows(i)
           \/ Complete(i) \/ Settle(i) \/ Reject(i)

Process(i) == Boot(i) \/ Recover(i) \/ Nudge(i) \/ Poll(i) \/ Work(i)

Trouble(i) == \/ CompleteFails(i) \/ TickFails(i) \/ RecoverFails(i) \/ Crash(i)
              \/ \E j \in Jobs : PersistFails(i, j)

Next == \/ \E i \in Instances : \/ Process(i) \/ Trouble(i)
                                \/ \E j \in Jobs : Enqueue(i, j) \/ Persist(i, j)
        \/ \E j \in Jobs : Due(j)

Spec == Init /\ [][Next]_vars

\* A process that runs gets on with what it is doing, timers fire, inserts are
\* answered, handlers end and a dead process is started again.
Fairness ==
  /\ \A i \in Instances :
       /\ WF_vars(Boot(i)) /\ WF_vars(Recover(i))
       /\ WF_vars(Poll(i)) /\ WF_vars(Work(i))
       /\ \A j \in Jobs : WF_vars(Persist(i, j))
  /\ \A j \in Jobs : WF_vars(Due(j))

FairSpec == Spec /\ Fairness
-----------------------------------------------------------------------------
(* What the queue promises.                                                *)

TypeOK ==
  /\ jobs \in [Jobs -> Job]
  /\ asked \in Seq(Jobs)
  /\ inflight \in [Instances -> SUBSET Jobs]
  /\ nudge \in [Instances -> BOOLEAN]
  /\ polling \in [Instances -> BOOLEAN]
  /\ worker \in [Instances -> Worker]
  /\ worked \in SUBSET Jobs
  /\ reset \in SUBSET Jobs
  /\ crashes \in Nat
  /\ errors \in Nat
  /\ env \in Environment

\* Worker i wrote a verdict and was not answered: it is about to write again.
Unanswered(i) == worker[i].pc = "settle" /\ jobs[worker[i].job].status = "done"

\* With one process nobody else is there to claim what recovery re-queued.
Single    == \A i, k \in env.processes : i = k
Contested == IF Single THEN {} ELSE reset

\* Only boot recovery breaks exclusion: a job that was not re-queued under a
\* live worker is on one worker at most, and its row says running (or done, while
\* that worker does not know that its completeJob went through).
ExclusiveUnlessReset ==
  \A i \in Instances :
    Holding(i) /\ worker[i].job \notin reset =>
      /\ jobs[worker[i].job].status = "running" \/ Unanswered(i)
      /\ \A k \in Instances \ {i} :
           Holding(k) => worker[k].job # worker[i].job

\* completeJob is only reached through the handler: work reported done was done.
DoneWasWorked == \A j \in Jobs : jobs[j].status = "done" => j \in worked

\* A job with a handler only fails for good after its last attempt: database
\* errors, crashes and resets never cost it a try.
FailedIsEarned ==
  \A j \in Handled : jobs[j].status = "failed" => jobs[j].attempts >= MaxAttempts

\* A job is never started more often than its attempts, one for each crash and
\* one for each database error: a retry is not repeated for free.
RetryBudget ==
  \A j \in Jobs \ Contested : jobs[j].attempts <= MaxAttempts + crashes + errors

\* The verdict on j may still change: its worker missed the answer to completeJob.
InDoubt(j) == \E i \in Instances : Unanswered(i) /\ worker[i].job = j

\* Done and failed are final, unless recovery took the row from a live worker or
\* the worker that wrote done was not answered.
VerdictStands ==
  [][\A j \in Jobs \ Contested :
       jobs[j].status \in {"done", "failed"} /\ ~InDoubt(j)
         => jobs'[j] = jobs[j]]_jobs

\* However many processes share it, the table is a ledger of final verdicts on
\* the rows that recovery has not opened to a second worker.
Verdict(j) ==
  IF j \in Contested THEN "contested"
  ELSE CASE jobs[j].status = "absent"                           -> "none"
         [] jobs[j].status \in {"queued", "running"} \/ InDoubt(j) -> "pending"
         [] OTHER                                               -> jobs[j].status
Ledger == INSTANCE JobLedger WITH verdict <- [j \in Jobs |-> Verdict(j)]
LedgerKept == Ledger!Spec

Settled(j) == jobs[j].status \in {"done", "failed"}

\* The insert of an enqueued job never came, and nobody is waiting for it.
Lost(j) == /\ jobs[j].status = "absent"
           /\ \A i \in Instances : j \notin inflight[i]

\* The row says running and no worker is on it: no poll will claim it.
Orphaned(j) == /\ jobs[j].status = "running"
               /\ \A i \in Instances : Holding(i) => worker[i].job # j

\* An enqueued job is eventually done or failed.  Two things may keep it from
\* that: a crash or an error before its row was in, and, only after an error
\* of the database, a row left running for good.
JobsSettle ==
  \A j \in Jobs :
    (\E n \in DOMAIN asked : asked[n] = j)
      ~> \/ Settled(j)
         \/ crashes + errors > 0 /\ Lost(j)
         \/ errors > 0 /\ []Orphaned(j)

-----------------------------------------------------------------------------
(* What the repository says and a second process breaks.                   *)

\* No two workers run the same job at the same time.
OneRunner ==
  \A i, k \in Instances :
    worker[i].pc = "handle" /\ worker[k].pc = "handle"
    /\ worker[i].job = worker[k].job => i = k
=============================================================================
