CONSTANTS
  Objects = {x, y, z}
  Finals = {}
  MaxEntries = 3
  MaxB = 2
  MaxRefs = 3
  NIL = NIL
SPECIFICATION Spec
SYMMETRY Interchangeable
INVARIANTS Inv NothingLost TriColour TableSound
PROPERTIES DiesUnreachable DeadStaysDead
