--------------------------- MODULE LifecycleGraph ---------------------------
(***************************************************************************)
(* The request status graph of src/domain/requestLifecycle.ts: the edges   *)
(* that assertTransition accepts, and nothing that has state.              *)
(***************************************************************************)

Status == {"draft", "submitted", "in_review", "clarification_needed",
           "in_progress", "records_review", "partially_fulfilled",
           "fulfilled", "denied", "referred", "withdrawn", "closed"}

\* From every working status a request may leave by one of these.
Exits == {"fulfilled", "denied", "referred", "withdrawn"}

Transitions ==
  [s \in Status |->
    CASE s = "draft" -> {"submitted", "withdrawn"}
      [] s = "submitted" -> {"in_review", "fulfilled", "referred", "withdrawn"}
      [] s = "in_review" -> {"clarification_needed", "in_progress"} \cup Exits
      [] s = "clarification_needed" -> {"in_review", "in_progress"} \cup Exits
      [] s = "in_progress" -> {"records_review", "clarification_needed"} \cup Exits
      [] s = "records_review" ->
           {"partially_fulfilled", "fulfilled", "in_progress", "denied"}
      [] s = "partially_fulfilled" ->
           {"records_review", "fulfilled", "denied", "closed"}
      [] s \in Exits -> {"closed"}
      [] OTHER -> {}]

CanTransition(from, to) == to \in Transitions[from]

(***************************************************************************)
(* The statuses whose writers also write closedAt: the agency has answered *)
(* and the statutory clock stops (releaseRequest, denyRequest,             *)
(* fulfillByReference, referRequest, forwardRequest).                      *)
(***************************************************************************)
Determined == {"partially_fulfilled", "fulfilled", "denied", "referred"}
=============================================================================
