\* Three edits of build.c in four seconds, and as many runs as there is time for.
CONSTANTS
  MaxEdits = 3
  MaxTime = 3
  NoFile = NoFile
SPECIFICATION FairSpec
INVARIANTS
  TypeOK
  ProgramKept
  FailureRestores
  MainIsCurrent
PROPERTIES
  Ends
CHECK_DEADLOCK FALSE
