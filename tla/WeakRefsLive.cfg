CONSTANTS
  Objects = {x, y}
  Finals = {y}
  MaxEntries = 3
  MaxB = 2
  MaxRefs = 1
  NIL = NIL
SPECIFICATION FairSpec
INVARIANTS EntriesInHeap
PROPERTIES FinalUnreachable CleanupCalled CollectionEnds
