\* The ping updater, Input and Close race.
SPECIFICATION LiveSpec
CONSTANTS
  PeerTerminatingTime = 0
  TerminatingTime = 0
  ReadyToCloseTime = 0
  SilenceTime = 1
  Updaters = {"ping"}
  MaxLag = 0
INVARIANTS TypeOK ReleasedIsOver
PROPERTIES ConnectionsEnd
CHECK_DEADLOCK FALSE
