SPECIFICATION Spec
CONSTANTS
  Instances = {"i1", "i2"}
  Jobs = {"j1"}
  Handled = {"j1"}
  MaxAttempts = 2
  Environments <- Pair
INVARIANTS OneRunner
