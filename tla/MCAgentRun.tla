----------------------------- MODULE MCAgentRun -----------------------------
(* Instances of AgentRun for TLC.                                          *)
EXTENDS AgentRun, TLC

\* A gated step, two revisions that each insert another and a read, and an action
\* that nothing approves.
FullPlan  == <<"gated", "revise", "revise", "forbidden">>
GatedMore == <<"gated", "read">>

Calls(n, overlap, fail) == [calls |-> n, overlap |-> overlap, fail |-> fail]

\* In order, in order with failures, overlapping, overlapping with failures.
Circumstances == {Calls(4, FALSE, FALSE), Calls(4, FALSE, TRUE),
                  Calls(3, TRUE, FALSE), Calls(2, TRUE, TRUE)}
TwoTabs == {Calls(2, TRUE, FALSE)}
=============================================================================
