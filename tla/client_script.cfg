SPECIFICATION TestSpec
CONSTANTS
  MAX_STRING_SIZE = 40
  MAX_WRITE_SIZE = 256
  UINT_MAX = 4294967
  ScriptLines = 6
  Garbage = Garbage
  Sheets <- MCSheets
INVARIANT TestScriptDone
CHECK_DEADLOCK FALSE
