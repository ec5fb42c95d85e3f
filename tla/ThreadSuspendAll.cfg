SPECIFICATION FairSpec
CONSTANTS
  Threads = {t1, t2}
  MaxPending = 2
CHECK_DEADLOCK FALSE
INVARIANTS
  Inv
  WorldStopped
  CleanWhenIdle
  OnlyResendRace
PROPERTIES
  SuspensionsEnd
