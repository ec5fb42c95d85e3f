CONSTANTS
  Threads = {0, 1, 2, 3}
  NIL = NIL
  TableSize = 2
  Growths = {1, 3}
  Programs <- ProgramsDef
SPECIFICATION FairSpec
INVARIANT Inv
INVARIANT NoDangling
INVARIANT OnlyKnownFaults
PROPERTY ForkReturns
CHECK_DEADLOCK FALSE
