\* A buffer of three characters: links of one and two fit, longer ones do not.
CONSTANTS
  a = a
  b = b
  Null = Null
  Space = Space
  Letter <- MCChar
  Char <- MCChar
  BufferSize = 3
  MaxLength = 9
  Files <- MCFiles
  FeedAt <- MCFeedAt
  Feeds <- MCFeeds
  AuthorCapacity = 1
  MaxAuthors = 3
  MaxEntries = 8
  MaxLinks = 4
  Partial = FALSE
SPECIFICATION VidsSpec
INVARIANTS
  VidsTypeOK
  UpdatesAreLinks
  AllUpdated
  TableIsWhatFeedsSaid
  PageShowsFile
PROPERTIES
  UsesTable
  Returns
\* vids.c ends.
CHECK_DEADLOCK FALSE
