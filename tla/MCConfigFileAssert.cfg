SPECIFICATION Spec
CONSTANTS
  MaxLen = 4
  Files <- MCFiles
  Saves <- MCSaves
  Missing = Missing
  Pipe = Pipe
  SIZE_MAX = 7
  MaxEdits = 2
INVARIANTS
  ReadsWhatItMeasured
