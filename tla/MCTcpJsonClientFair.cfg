SPECIFICATION FairSpec
CONSTANTS
  m1 = m1
  r1 = r1
  Request = {m1, r1}
  SafeRead = {r1}
  Oversize = {}
  MaxReconnectAttempt = 2
  RetryAfterLoss = FALSE
  MaxInbox = 2
INVARIANTS
  ReconnectUnderWay
  ManualDisconnectSettles
PROPERTIES
  ResolvesRequests
