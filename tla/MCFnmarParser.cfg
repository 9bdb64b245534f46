SPECIFICATION Spec
CONSTANTS
  MaxLen = 5
  Files <- MCFiles
INVARIANTS
  TypeOK
  TailIsSuffix
  TokensWellFormed
  AcceptsExactlyTheGrammar
  AbortsOnlyAtFinalDelim
  ReportedLine
PROPERTIES
  ReadsEveryByte
  Progress
