SPECIFICATION FairSpec
CONSTANTS
  Missing = Missing
  Pipe = Pipe
  SIZE_MAX = 63
  MaxEdits = 1
  Fragments <- Lines
  MaxLen = 3
  Files <- MCFiles
  Saves <- MCSaves
  Filename <- MCFilename
  Matching <- MCMatching
INVARIANTS
  PatchIsInvisible
  PatchInBounds
  CleanExit
PROPERTIES
  KeepsPromise
  Returns
