\* Three accepts and two connections on a listener of either constructor.
SPECIFICATION FairSpec
CONSTANTS
  Accepts = {a1, a2, a3}
  Connections = {c1, c2}
  NULL = NULL
  Backlog = 2
  Constructors = {"public", "bind"}
CHECK_DEADLOCK FALSE
INVARIANTS
  TypeOK
  AcceptListSound
  CompletesOnce
  CountedIsHeld
  WaitingIsPolled
PROPERTIES
  StopEndsAccept
  ConnectionServed
