\* vids.c runs while the server reads the file.
CONSTANTS
  Tables <- MCTables
  Overlap = TRUE
  MaxCount = 3
  MaxEdits = 4
  MaxTicks = 3
SPECIFICATION Spec
INVARIANT ReadsWholeFile
\* The server exits when a read fails.
CHECK_DEADLOCK FALSE
