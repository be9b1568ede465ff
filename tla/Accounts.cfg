SPECIFICATION Spec
CONSTANTS
  Callers = {c1, c2}
  Staff = {ann, bob}
  Residents = {"jane", "Jane"}
  Lower <- Normal
  Roles = {"admin", "coordinator"}
  Environments <- Circumstances
INVARIANTS HistoryNeedsProof SomeAdminCanSignIn LinkWorksOnce
SYMMETRY Symmetric
CHECK_DEADLOCK FALSE
