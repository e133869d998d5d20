CONSTANTS
  Threads = {t1, t2, t3}
  NULL = NULL
  Modes = {"sync_wait", "run", "run_once", "drain"}
  Kinds = {"throw", "finish", "timer", "transfer"}
  MaxCalls = 1
SPECIFICATION Spec
SYMMETRY ThreadSymmetry
INVARIANTS
  TypeOK
  OneLoopThread
  FrameOutlivesUse
  RunnersAlive
  NoStaleStop
PROPERTIES
  FinishedIsSticky
CHECK_DEADLOCK FALSE
