\* One stream, a bucket of less than two frames, and either side may disappear.
SPECIFICATION Spec
CONSTANTS
  Streams = {2}
  MaxReceiveBuffer = 3
  FrameSize = 2
  ReadSizes = {1}
  MaxFrames = 3
  MayVanish = {"server", "page"}
INVARIANTS TypeOK TokensConserved NoLostWakeup CleanEnd
PROPERTIES Delivers
CHECK_DEADLOCK FALSE
