SPECIFICATION Spec
CONSTANTS
  Staff = {s1, s2}
  Runner = runner
  Plan <- FullPlan
  Extra <- GatedMore
  MaxToolCalls = 4
  Environments <- TwoTabs
INVARIANTS ApprovedStepRunsOnce
CHECK_DEADLOCK FALSE
