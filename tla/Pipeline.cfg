\* A client and a writer share a stream, a server and a sender a datagram socket.
SPECIFICATION FairSpec
CONSTANTS
  Pipelines <- MCPipelines
  Sockets <- MCSockets
  Kind <- MCKind
  First <- MCFirst
  Chain <- MCChain
  Stoppable = {"client", "server"}
  EmptySends = {"sender"}
  NULL = "null"
CHECK_DEADLOCK FALSE
INVARIANTS
  TypeOK
  CallbackFindsItsOperation
  CompletesOnce
  DeclaredCompletion
PROPERTIES
  StopEndsWait
  CloseEnds
