CONSTANTS
  w1 = w1
  w2 = w2
  Writers = {w1, w2}
  Active = Active
  NIL = NIL
  Delay <- DelayDef
  Forever = 3
  Alertable = {w2}
  Room = 1
  MaxChars = 3
SPECIFICATION FairSpec
INVARIANT Inv
INVARIANT PauseShort
INVARIANT NoLostSignal
PROPERTY ListedFlushed
CHECK_DEADLOCK FALSE
