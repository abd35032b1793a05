CONSTANTS
  None = None
  c1 = c1
  c2 = c2
  d1 = d1
  d2 = d2
  Charger <- TwoChargers
  DetailId <- TwoDetails
  MaxOrder = 2
  MaxElsewhere = 1
  LastPage = 1
SYMMETRY Alike
SPECIFICATION Spec
CONSTRAINTS
  OnePageOnceSearched
  OneRequestOnceElsewhere
INVARIANTS
  TypeOK
  NoOrphanRead
  NoDeadEnd
  BlockReported
  NoBlindMutation
  ActsOnCurrentOrder
  AuthorityFollowsPage
  NoWithdrawnSelection
  SearchRecovers
  RefreshedBeforeLeaving
  MutationKeepsPage
  DetailAwaited
  ControlsRecover
