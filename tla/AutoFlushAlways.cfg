CONSTANTS
  w1 = w1
  w2 = w2
  Writers = {w1, w2}
  Active = Active
  NIL = NIL
  Delay <- DelayDef
  Forever = 3
  Alertable = {}
  Room = 1
  MaxChars = 1
SPECIFICATION FairSpec
PROPERTY AllFlushed
CHECK_DEADLOCK FALSE
