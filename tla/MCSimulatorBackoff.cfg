SPECIFICATION Spec
CONSTANTS
  N = 1
  Snapshot <- MCSnapshotOne
  Tick = 1
  MaxQueue = 1
  MaxTime = 1
  MaxWire = 1
  MaxReply = 1
INVARIANT
  BacksOff
CHECK_DEADLOCK FALSE
