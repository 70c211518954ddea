\* Three clients for a poller that holds two connections, and a fourth
\* connection for a table of three; Ctrl-C at any time.
CONSTANTS
  Listener = Listener
  None = None
  Client = {c1, c2, c3}
  Silent = {c3}
  Abrupt = {c1}
  MaxConnections = 3
  Buffer = 2
  Requests <- MCRequests
  MaxConnects = 4
  MaxRequests = 1
SPECIFICATION FairSpec
INVARIANTS
  TypeOK
  NothingLeaks
  DataIsOwn
PROPERTIES
  Stops
  Served
\* The program ends after Ctrl-C or an error, and the clients with their bounds.
CHECK_DEADLOCK FALSE
