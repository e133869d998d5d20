CONSTANTS
  Threads = {t1, t2}
  NULL = NULL
  Modes = {"sync_wait"}
  Kinds = {"schedule"}
  MaxCalls = 1
SPECIFICATION FairSpec
PROPERTIES
  SyncWaitReturns
CHECK_DEADLOCK FALSE
