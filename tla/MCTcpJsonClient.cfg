SPECIFICATION Spec
CONSTANTS
  m1 = m1
  r1 = r1
  o1 = o1
  r2 = r2
  Request = {m1, r1, r2, o1}
  SafeRead = {r1, r2}
  Oversize = {o1}
  MaxReconnectAttempt = 2
  RetryAfterLoss = TRUE
  MaxInbox = 2
SYMMETRY Reads
INVARIANTS
  TypeOK
  ExactlyOneOutcome
  WriteBound
  OnlyReadsSurviveLoss
  ConnectedHasDeadlines
  LinkReported
  NoBytesAcrossConnections
PROPERTIES
  KeepsPromise
