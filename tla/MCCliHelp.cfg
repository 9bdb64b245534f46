SPECIFICATION Spec
CONSTANTS
  MaxOptions = 3
  N = 6
  Tables <- MCTables
INVARIANTS
  CleanReturn
  HelpIsComplete
  StringsOK
