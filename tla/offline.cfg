SPECIFICATION MCSpec
CONSTANTS
  MAX_STRING_SIZE = 5
  MAX_WRITE_SIZE = 3
  UINT_MAX = 99
  ScriptLines = 2
  Garbage = Garbage
  Sheets <- MCSheets
INVARIANTS LinesDone ComponentsRight LongestWithoutCycles RodsBest
PROPERTY ReadersEnd
CHECK_DEADLOCK FALSE
