SPECIFICATION ServerSpec
CONSTANTS
  N = 1
  Snapshot <- MCSnapshot
  Tick = 3
  MaxQueue = 2
  MaxTime = 6
  MaxWire = 1
  MaxReply = 1
  Second = 2
INVARIANT
  FaultsAreNew
CHECK_DEADLOCK FALSE
