CONSTANTS
  Ops = {o1, o2, o3}
  NULL = NULL
  Adaptors = {o2}
  Faulty = {o3}
SPECIFICATION FairSpec
INVARIANTS
  TypeOK
  NoUseAfterCompletion
  CompletesOnce
  ClosesOnce
PROPERTIES
  ImplementsStopRace
  StopOrEventCompletes
CHECK_DEADLOCK FALSE
