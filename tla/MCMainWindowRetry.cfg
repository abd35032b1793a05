CONSTANTS
  None = None
  c1 = c1
  c2 = c2
  d1 = d1
  d2 = d2
  Charger <- OneCharger
  DetailId <- OneDetail
  MaxOrder = 2
  MaxElsewhere = 2
  LastPage = 0
SPECIFICATION Spec
INVARIANT RetryAfterFailedRefresh
