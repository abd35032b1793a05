SPECIFICATION ServerSpec
CONSTANTS
  N = 1
  Snapshot <- MCSnapshotSmall
  Tick = 3
  MaxQueue = 2
  MaxTime = 6
  MaxWire = 1
  MaxReply = 1
  Second = 2
INVARIANTS
  ServerTypeOK
  SamplesAreNew
PROPERTY
  KeepsSimulator
CHECK_DEADLOCK FALSE
