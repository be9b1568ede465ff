SPECIFICATION FairSpec
CONSTANTS
  Instances = {"i1", "i2"}
  Jobs = {"j1", "j2"}
  Handled = {"j1"}
  MaxAttempts = 2
  Environments <- Deployments
INVARIANTS ExclusiveUnlessReset FailedIsEarned RetryBudget
PROPERTIES VerdictStands LedgerKept JobsSettle
