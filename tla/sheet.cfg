SPECIFICATION MCSpec
CONSTANTS
  Rows = 2
  Columns = 2
  Entries <- MCEntries
  WORD = 3
  MaxObjects = 3
  MaxCommands = 4
  Names = {"one", "two"}
  NoName = NoName
INVARIANTS LiteralsCurrent BufferIndependent CutPasteRestores UnchangedIsSaved
CHECK_DEADLOCK FALSE
