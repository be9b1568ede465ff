--------------------------- MODULE MCRequestCase ----------------------------
(* Instances of RequestCase for TLC.                                       *)
EXTENDS RequestCase, TLC

Calls(n, docs, overlap, fail) ==
  [calls |-> n, docs |-> docs, overlap |-> overlap, fail |-> fail]

\* Three use-cases one after the other, two that may fail but do not overlap,
\* and, on one document, two that overlap and may fail at any await.
AllEnvironments ==
  {Calls(3, Docs, FALSE, FALSE), Calls(2, Docs, FALSE, TRUE)}
    \cup {Calls(2, {d}, TRUE, TRUE) : d \in Docs}
Overlapping == {Calls(2, Docs, TRUE, FALSE)}

EveryHandler    == AllHandlers
RowHandlers     == AllHandlers \ {"release"}
ReleaseHandlers == {"release"}

\* Actors and documents are interchangeable; no property here is a liveness.
Symmetric == Permutations(Actors) \cup Permutations(Docs)
=============================================================================
