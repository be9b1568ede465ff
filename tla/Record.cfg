SPECIFICATION Spec
CONSTANTS
  Staff = {s1, s2}
  Slices = {1, 2}
  Datasets = {"calls"}
  DatasetOf <- OneDataset
  Contents = {"tidy", "leaky", "moved"}
  Leaky = {"leaky"}
  Shapes = {"old", "new"}
  ShapeOf <- Layout
  Environments <- Circumstances
INVARIANTS NothingPublicUnvouched DecisionsAgree ReviewSetIsHeld
PROPERTIES OnlyPeopleReclassify
SYMMETRY Symmetric
CHECK_DEADLOCK FALSE
