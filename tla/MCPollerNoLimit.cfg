\* A poller without a limit, created for one socket.
CONSTANTS
  listener = listener
  s1 = s1
  s2 = s2
  in = in
  hup = hup
  d0 = d0
  d1 = d1
  None = None
  Socket <- MCSocket
  Events = {in}
  Conditions = {hup}
  Data = {d0, d1}
  Creations <- MCUnlimited
SPECIFICATION Spec
INVARIANT NoLimitNeverAborts
CHECK_DEADLOCK FALSE
