---------------------------- MODULE MCPublicRecord ----------------------------
(* Instances of PublicRecord for TLC.                                      *)
EXTENDS PublicRecord, TLC

\* Two periods of one dataset.
OneDataset == (1 :> "calls") @@ (2 :> "calls")

\* A clean slice, one that names somebody, one with other columns.
Layout == [tidy |-> "old", leaky |-> "old", moved |-> "new"]

Bounds(calls, syncs, changes, overlap, fail) ==
  [calls |-> calls, syncs |-> syncs, changes |-> changes,
   overlap |-> overlap, fail |-> fail]

\* In order (twice: many calls, many syncs), in order with failures, overlapping.
Circumstances == {Bounds(3, 2, 1, FALSE, FALSE), Bounds(2, 3, 2, FALSE, FALSE),
                  Bounds(2, 2, 1, FALSE, TRUE), Bounds(2, 2, 1, TRUE, FALSE)}

\* Staff are interchangeable; used for safety only.
Symmetric == Permutations(Staff)
=============================================================================
