\* A server with a listener and a connection in its body, and an accept and a client spawned.
SPECIFICATION FairSpec
CONSTANTS
  Scopes <- MCScopes
  Kind <- MCKind
  Parent <- MCParent
  Spawned = {"next", "client"}
  In <- MCIn
  Ends <- MCEnds
  Throwing = {"server", "listener", "first", "client"}
  NothrowFn = {"first"}
  StopSource = {"server", "first"}
  Waits = {"server"}
  NULL = "null"
CHECK_DEADLOCK FALSE
INVARIANT TypeOK
PROPERTIES
  ImplementsScopedResource
  StopEndsScope
  ReleaseEnds
