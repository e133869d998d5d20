CONSTANTS
  Threads = {t1, t2}
  NULL = NULL
  Modes = {"sync_wait", "run"}
  Kinds = {"schedule", "timer", "transfer"}
  MaxCalls = 2
SPECIFICATION FairSpec
INVARIANTS
  AcquiredMeansRunning
PROPERTIES
  CompletedSyncWaitReturns
  SyncWaitReturnsWhenDriven
CHECK_DEADLOCK FALSE
