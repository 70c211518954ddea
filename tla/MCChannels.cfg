\* Three authors and up to three entries, added in any order.
CONSTANTS
  a = a
  b = b
  Null = Null
  Char <- MCChar
  AuthorAbs <- MCAuthorAbs
  EntryAbs <- MCEntryAbs
  AuthorCapacity = 1
  MaxAuthors = 3
  MaxEntries = 3
SPECIFICATION Spec
INVARIANTS
  TypeOK
  OffsetsDelimitEntries
  RsvInText
  WithinCapacity
PROPERTY ImplementsList
\* The model stops at its bounds.
CHECK_DEADLOCK FALSE
