CONSTANTS
  Threads = {t1, t2}
  NULL = NULL
  Modes = {"sync_wait", "run"}
  Kinds = {"finish", "timer"}
  MaxCalls = 2
SPECIFICATION FairSpec
PROPERTIES
  CompletedSyncWaitReturns
CHECK_DEADLOCK FALSE
