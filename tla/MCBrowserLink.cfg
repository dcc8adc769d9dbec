\* Two tabs that may race, one caller; a tab is closed or a link lost at any point.
SPECIFICATION Spec
CONSTANTS
  Pages = {p1, p2}
  Clients = {c1}
  Sessions = {1, 2, 3}
  MaxLosses = 1
INVARIANTS TypeOK OrphansNeedARace
PROPERTIES Recovers Ends
CHECK_DEADLOCK FALSE
