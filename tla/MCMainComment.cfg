SPECIFICATION MCSpec
CONSTANTS
  MaxArgs = 2
  FileNames <- MCFileNames
  ConfigNames <- MCConfigNames
  Nothing = Nothing
  Options <- cli
  Numerals = {}
  CommandLines <- MCCommandLines
  Logs <- MCLogs
  Stores <- MCStores
  Stored <- MCStored
  Matches <- MCMatches
  NoFile = NoFile
  Pipe = Pipe
  SIZE_MAX = 63
INVARIANTS
  CheckAsCommented
