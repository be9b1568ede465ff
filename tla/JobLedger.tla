----------------------------- MODULE JobLedger ------------------------------
(***************************************************************************)
(* What the job table promises of a job, whatever retries, crashes and     *)
(* recoveries happen beneath: once its row exists it stays pending until   *)
(* one verdict, done or failed, and the verdict is final.  A pending job   *)
(* may be opened to a second worker; nothing is promised of it from then.  *)
(***************************************************************************)
CONSTANT Jobs

VARIABLE verdict

Verdict == {"none", "pending", "done", "failed", "contested"}

Init == verdict = [j \in Jobs |-> "none"]

Accept(j) ==
  /\ verdict[j] = "none"
  /\ verdict' = [verdict EXCEPT ![j] = "pending"]

Decide(j) ==
  /\ verdict[j] = "pending"
  /\ \E v \in {"done", "failed"} : verdict' = [verdict EXCEPT ![j] = v]

\* Recovery opens all the jobs it finds at once.
Contest(opened) ==
  /\ \A j \in opened : verdict[j] = "pending"
  /\ verdict' = [j \in Jobs |-> IF j \in opened THEN "contested" ELSE verdict[j]]

Next == \/ \E j \in Jobs : Accept(j) \/ Decide(j)
        \/ \E opened \in SUBSET Jobs : Contest(opened)

Spec == Init /\ [][Next]_verdict
=============================================================================
