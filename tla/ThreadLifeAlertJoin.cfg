CONSTANTS
  Threads = {0, 1, 2}
  NIL = NIL
  TableSize = 2
  Growths = {3}
  Programs <- AlertJoinPrograms
SPECIFICATION Spec
INVARIANT JoinableAfterAlert
CHECK_DEADLOCK FALSE
