SPECIFICATION FairSpec
CONSTANTS
  MaxArgs = 4
  Options <- Table
  Numerals <- MCNumerals
  CommandLines <- MCCommandLines
INVARIANTS
  TypeOK
  NeverSetTwice
  NoElementReadTwice
  PositionalsInOrder
  OkMeansComplete
PROPERTIES
  SplitIsFinal
  Terminates
