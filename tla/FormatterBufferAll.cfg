CONSTANTS
  ChunkSize = 2
  MaxItems = 10
  MaxTakers = 1
SPECIFICATION FairSpec
CHECK_DEADLOCK FALSE
INVARIANTS Inv Intact NeverBothWaiting
PROPERTIES ExpandBothBlocked OperationsReturn
