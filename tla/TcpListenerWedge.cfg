\* The public constructor, one accept and one connection; nobody requests stop first.
SPECIFICATION Spec
CONSTANTS
  Accepts = {a1}
  Connections = {c1}
  NULL = NULL
  Backlog = 1
  Constructors = {"public"}
CHECK_DEADLOCK FALSE
INVARIANT NoStrandedConnection
