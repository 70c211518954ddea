\* Three descriptors: the limit of 2 is met, and a number is used again after
\* its socket was removed.
CONSTANTS
  listener = listener
  s1 = s1
  s2 = s2
  in = in
  hup = hup
  d0 = d0
  d1 = d1
  None = None
  Socket <- MCSocket
  Events = {in}
  Conditions = {hup}
  Data = {d0, d1}
  Creations <- MCCreations
SPECIFICATION FairSpec
INVARIANTS
  TypeOK
  WithinCapacity
  EventCountExact
  MessageIsCurrent
PROPERTIES
  ImplementsReadySet
  SweepEnds
\* The program stops at the limit, or frees the poller.
CHECK_DEADLOCK FALSE
