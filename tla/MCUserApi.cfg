SPECIFICATION Spec
CONSTANTS
  Account = {a1, a2}
  Offered <- AccountRun
  ProfileDuringCharge = FALSE
  MaxId = 5
  MaxGeneration = 2
INVARIANTS
  TypeOK
  TablesAgree
  OneProfileOperation
  SessionIsolated
  ShownIsCurrent
CHECK_DEADLOCK FALSE
