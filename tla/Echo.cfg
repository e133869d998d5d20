\* Two connections, the second opened by the first.
SPECIFICATION FairSpec
CONSTANTS
  Connections = 2
  InitConn = 1
  Payload = 2
  Faults = {"connect", "send", "receive", "accept", "read", "write"}
CHECK_DEADLOCK FALSE
INVARIANTS
  TypeOK
  EchoedExactly
  NothingOutlivesItsScope
PROPERTIES
  BothReturn
