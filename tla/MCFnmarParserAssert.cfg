SPECIFICATION Spec
CONSTANTS
  MaxLen = 4
  Files <- MCFiles
INVARIANTS
  FilePosAssertions
