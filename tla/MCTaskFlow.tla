------------------------------ MODULE MCTaskFlow ------------------------------
(* Instances of TaskFlow for TLC.                                          *)
EXTENDS TaskFlow, TLC

Bounds(calls, overlap, fail) ==
  [calls |-> calls, overlap |-> overlap, fail |-> fail]

\* In order, apart, apart with failures, and overlapping with failures.
Circumstances == {Bounds(6, "none", FALSE), Bounds(4, "apart", FALSE),
                  Bounds(4, "apart", TRUE), Bounds(3, "any", TRUE)}

\* Callers are interchangeable.
Symmetric == Permutations(Callers)
=============================================================================
