\* Two peers, four connections; Terminate may run twice and the listener may close.
SPECIFICATION TableSpec
CONSTANTS
  Ids = {i1, i2}
  Conns = {c1, c2, c3, c4}
  NoConn = NoConn
SYMMETRY ListenerSymmetry
INVARIANTS ReleasedNotFed OneConnectionPerPeer
CHECK_DEADLOCK FALSE
