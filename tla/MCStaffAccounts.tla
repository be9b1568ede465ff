---------------------------- MODULE MCStaffAccounts ----------------------------
(* Instances of StaffAccounts for TLC.                                     *)
EXTENDS StaffAccounts, TLC

\* One resident, who spells the address in two ways.
Normal == ("jane" :> "jane") @@ ("Jane" :> "jane")

Bounds(calls, overlap, fail) ==
  [calls |-> calls, overlap |-> overlap, fail |-> fail]

\* In order, overlapping unless alike (both also with failures), overlapping.
Circumstances == {Bounds(5, "none", FALSE), Bounds(4, "none", TRUE),
                  Bounds(4, "unlike", FALSE), Bounds(3, "unlike", TRUE),
                  Bounds(3, "any", TRUE)}

\* Callers are interchangeable, and so are staff.
Symmetric == Permutations(Callers) \cup Permutations(Staff)
=============================================================================
