SPECIFICATION MCSpec
CONSTANTS
  Alphabet = {"a", " ", "%"}
  MaxLen = 5
  Filename <- MCFilename
INVARIANTS
  CmdFits
  NothingLost
  AllOrNothing
