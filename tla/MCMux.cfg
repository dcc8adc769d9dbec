\* Two connections, chunks taken in two reads, a mux connection never full.
SPECIFICATION LiveSpec
CONSTANTS
  a = a
  b = b
  Conns <- MCConns
  Aborters <- MCAborters
  Finishers <- MCFinishers
  MaxChunks <- MCMaxChunks
  None = None
  MaxBeforeFailure = 1
  Pieces = 2
  LinkLimit = 12
  MaxConcurrency = 2
  MaxConnection = 0
INVARIANTS TypeOK OwnDataInOrder CleanEnd OnlyIdleCloses
PROPERTIES SessionsEnd
CHECK_DEADLOCK FALSE
