CONSTANTS
  Ops = {o1}
  NULL = NULL
  Adaptors = {}
  Faulty = {o1}
SPECIFICATION Spec
INVARIANT ErrorCompletesOnce
CHECK_DEADLOCK FALSE
