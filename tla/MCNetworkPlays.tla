--------------------------- MODULE MCNetworkPlays ---------------------------
(* Instances of NetworkPlays for TLC.                                      *)
EXTENDS NetworkPlays, TLC

Bounds(calls, sweeps, n, overlap, fail) ==
  [calls |-> calls, sweeps |-> sweeps, days |-> n, overlap |-> overlap,
   fail |-> fail]

\* Three rebuilds, two with more saves between, three that may fail.
Circumstances == {Bounds(1, 3, 4, FALSE, FALSE), Bounds(2, 2, 2, FALSE, FALSE),
                  Bounds(1, 3, 0, FALSE, TRUE)}

\* Agencies are interchangeable.
Symmetric == Permutations(Agencies)
=============================================================================
