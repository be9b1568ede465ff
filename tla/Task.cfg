SPECIFICATION Spec
CONSTANTS
  Callers = {c1, c2}
  MaxFiles = 3
  MaxBatch = 2
  Environments <- Circumstances
INVARIANTS AcceptedWasHandedOver WorkIsFiled AutoNeverSecondGuesses
SYMMETRY Symmetric
CHECK_DEADLOCK FALSE
