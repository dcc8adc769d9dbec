\* One packet in flight each way and a window that looks closed: still everything arrives.
SPECIFICATION LiveSpec
CONSTANTS
  Modulus = 8
  InFlightSize = 1
  BufferSize = 1
  WindowSize = 1
  InitialRemote = 1
  Magic = 1
  MaxPush = 3
  NetCap = 1
PROPERTIES EverySegmentArrives
CHECK_DEADLOCK FALSE
