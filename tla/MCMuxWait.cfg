\* A mux connection that holds one frame each way.
SPECIFICATION LiveSpec
CONSTANTS
  a = a
  b = b
  Conns <- MCConns
  Aborters <- Nobody
  Finishers <- WaitFinishers
  MaxChunks <- TwoEach
  None = None
  MaxBeforeFailure = 0
  Pieces = 1
  LinkLimit = 1
  MaxConcurrency = 2
  MaxConnection = 0
PROPERTIES PeerIsNotified
CHECK_DEADLOCK FALSE
