SPECIFICATION FairSpec
CONSTANTS
  Account = {a1}
  Offered <- OrderRun
  ProfileDuringCharge = TRUE
  MaxId = 4
  MaxGeneration = 2
INVARIANT
  ReadsFollowOutcome
PROPERTY
  OperationsEnd
CHECK_DEADLOCK FALSE
