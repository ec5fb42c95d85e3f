SPECIFICATION Spec
CONSTANTS
  t1 = t1
  t2 = t2
  t3 = t3
  m1 = m1
  m2 = m2
  c1 = c1
  NIL = NIL
  Threads = {t1, t2}
  Mutexes = {m1}
  Conditions = {c1}
  LockRank <- OneRank
  Calls <- AllCalls
CHECK_DEADLOCK FALSE
INVARIANT PrevNotNil
