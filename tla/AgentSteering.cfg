SPECIFICATION FairSpec
CONSTANTS
  Staff = {s1, s2}
  Runner = runner
  Plan <- FullPlan
  Extra <- GatedMore
  MaxToolCalls = 4
  Environments <- Circumstances
INVARIANTS RunsOnce SkippedNeverRuns EveryStepAudited
  HumanGate
PROPERTIES CursorForward CancelSticks RunStops
CHECK_DEADLOCK FALSE
