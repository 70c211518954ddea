\* Two clients, of which one may come back, and a third that only connects and
\* can fill the table; Ctrl-C at any time.
CONSTANTS
  Listener = Listener
  Client = {c1, c2, c3}
  Silent = {c3}
  Abrupt = {c1}
  MaxConnections = 3
  Buffer = 1
  Requests <- MCRequests
  MaxConnects = 3
  MaxRequests = 1
SPECIFICATION FairSpec
INVARIANTS
  TypeOK
  TableHoldsOpen
PROPERTIES
  ClosedForGood
  Stops
  Answered
\* The program ends after Ctrl-C or an error, and the clients with their bounds.
CHECK_DEADLOCK FALSE
