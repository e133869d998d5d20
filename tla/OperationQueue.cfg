CONSTANTS
  Threads = {t1, t2}
  Ops = {o1, o2, o3}
  NULL = NULL
SPECIFICATION FairSpec
INVARIANTS
  TypeOK
  NoStrandedOperation
PROPERTIES
  ImplementsFifo
