CONSTANTS
  Chars <- Characters
  Blank = " "
  Wide = {"w"}
  WordChars <- Letters
  Lower <- LowerCase
  Block = "#"
  Queries <- Finds
  Environments <- Sittings
SPECIFICATION Spec
INVARIANTS
  SelectionCovered
  WordsFoundEverywhere
PROPERTY
  UndoRedoRestore
CHECK_DEADLOCK FALSE
