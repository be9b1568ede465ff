SPECIFICATION Spec
CONSTANTS
  Actors = {a1}
  Docs = {d1}
  Handlers <- ReleaseHandlers
  Environments <- Overlapping
PROPERTIES EveryReleaseHonoursDecisions
CHECK_DEADLOCK FALSE
