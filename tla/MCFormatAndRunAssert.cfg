SPECIFICATION MCSpec
CONSTANTS
  Alphabet = {"a", " ", "%"}
  MaxLen = 5
  Filename <- MCFilename
INVARIANTS
  TerminatorAsserted
