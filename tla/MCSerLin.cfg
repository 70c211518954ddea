\* Two clients, of which one may come back, and a third that only connects and
\* can fill the table; a request can fill the read buffer; poll may fail.
CONSTANTS
  Listener = Listener
  Client = {c1, c2, c3}
  Silent = {c3}
  Abrupt = {c1, c2}
  MaxConnections = 3
  Buffer = 2
  Requests <- MCRequests
  MaxConnects = 3
  MaxRequests = 2
  PollFails = TRUE
SPECIFICATION FairSpec
INVARIANTS
  TypeOK
  TableHoldsOpen
  HandlerClosesAll
PROPERTIES
  Answered
\* The program ends with SIGINT or an error, and the clients with their bounds.
CHECK_DEADLOCK FALSE
