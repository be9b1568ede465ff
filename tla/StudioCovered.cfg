CONSTANTS
  Chars <- Characters
  Blank = " "
  Wide = {"w"}
  WordChars <- Letters
  Lower <- LowerCase
  Block = "#"
  Queries <- Finds
  Environments <- Emoji
SPECIFICATION Spec
INVARIANT
  GoneNotCovered
CHECK_DEADLOCK FALSE
