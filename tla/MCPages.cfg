\* vids.c runs between two reads of the server, and may crash anywhere.
CONSTANTS
  Tables <- MCTables
  Overlap = FALSE
  MaxCount = 3
  MaxEdits = 4
  MaxTicks = 3
SPECIFICATION Spec
INVARIANTS
  TypeOK
  LoadsWholeTable
  CssNotStale
\* The server exits when a read fails.
CHECK_DEADLOCK FALSE
