SPECIFICATION Spec
CONSTANTS
  Actors = {a1, a2}
  Docs = {d1, d2}
  Handlers <- EveryHandler
  Environments <- AllEnvironments
INVARIANTS LoggedEdgesLegal RedactedShipsBurned ToldIsClosed TrailExplainsStatus OneExtension OneFinalLetter NoOrphanFiling
PROPERTIES LifecycleKept ReleaseHonoursDecisions
CHECK_DEADLOCK FALSE
SYMMETRY Symmetric
