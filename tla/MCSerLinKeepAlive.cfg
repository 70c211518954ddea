\* Clients that send every request in one piece, and room for all of them.
CONSTANTS
  Listener = Listener
  Client = {c1, c2, c3}
  Silent = {}
  Abrupt = {c1, c2}
  MaxConnections = 4
  Buffer = 2
  Requests <- MCWholeRequests
  MaxConnects = 3
  MaxRequests = 1
  PollFails = FALSE
SPECIFICATION Spec
PROPERTIES
  KeepAlive
\* The clients stop at their bounds.
CHECK_DEADLOCK FALSE
