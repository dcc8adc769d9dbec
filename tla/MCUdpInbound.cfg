\* Two sources; connections enough for one to replace another while a third lives.
SPECIFICATION Spec
CONSTANTS
  Ids = {i1, i2}
  MaxConns = 3
INVARIANTS OnlyLateRemovalsHarm
PROPERTIES IdleIsClosed
CHECK_DEADLOCK FALSE
