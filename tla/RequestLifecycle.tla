-------------------------- MODULE RequestLifecycle --------------------------
(***************************************************************************)
(* What the lifecycle of one request promises, whoever works on it: its    *)
(* status moves along the edges of the graph only, the statutory clock     *)
(* runs while the agency works, and it stops in the very step that records *)
(* a determination, for good.                                              *)
(***************************************************************************)
EXTENDS LifecycleGraph

VARIABLES status,        \* requests.status
          clockStopped   \* requests.closedAt is set

vars == <<status, clockStopped>>

Init == status = "submitted" /\ clockStopped = FALSE

\* The agency works on a request it has not answered.
Work(to) ==
  /\ to \notin Determined
  /\ ~clockStopped
  /\ CanTransition(status, to)
  /\ status' = to
  /\ UNCHANGED clockStopped

\* A named human records a determination, the first or a later, better one.
Determine(to) ==
  /\ to \in Determined
  /\ CanTransition(status, to)
  /\ status' = to
  /\ clockStopped' = TRUE

Next == \E to \in Status : Work(to) \/ Determine(to)

Spec == Init /\ [][Next]_vars
=============================================================================
