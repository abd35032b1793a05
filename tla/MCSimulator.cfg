SPECIFICATION FairSpec
CONSTANTS
  N = 2
  Snapshot <- MCSnapshot
  Tick = 1
  MaxQueue = 3
  MaxTime = 2
  MaxWire = 1
  MaxReply = 1
INVARIANTS
  TypeOK
  SamplesInOrder
  QueueIsLatest
  TimerSparesConnection
PROPERTIES
  SnapshotNotSuperseded
  Reconnects
CHECK_DEADLOCK FALSE
