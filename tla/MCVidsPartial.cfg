\* A transfer that fails may have delivered a part of the feed.
CONSTANTS
  a = a
  b = b
  Null = Null
  Space = Space
  Letter <- MCChar
  Char <- MCChar
  BufferSize = 3
  MaxLength = 4
  Files <- MCFiles
  FeedAt <- MCFeedAt
  Feeds <- MCFeeds
  AuthorCapacity = 1
  MaxAuthors = 3
  MaxEntries = 8
  MaxLinks = 4
  Partial = TRUE
SPECIFICATION VidsSpec
INVARIANT ParsesOneDocument
\* vids.c ends.
CHECK_DEADLOCK FALSE
