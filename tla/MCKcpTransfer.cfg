\* A receiving window of two, a sending buffer of two and one more, two packets each way.
SPECIFICATION Spec
CONSTANTS
  Modulus = 12
  InFlightSize = 1
  BufferSize = 1
  WindowSize = 2
  InitialRemote = 1
  Magic = 1
  MaxPush = 3
  NetCap = 2
INVARIANTS TypeOK NothingAckedIsLost AckNotForgotten
PROPERTIES ImplementsStream
CHECK_DEADLOCK FALSE
