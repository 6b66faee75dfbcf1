SPECIFICATION Spec
CONSTANTS
  None = None
  Texts <- MCTexts
  EmptyText <- MCEmptyText
  MaxStorablePrice = 2
  MaxDiscountDuration = 2
  Hundred = 100
  ColumnUnit = 10
  NaN = NaN
  Products = {p1}
  Workers = {w1, w2}
  CreateRequests <- AllCreates
  UpdateRequests <- LifecycleRequests
  MaxLead = 0
  MaxVersion = 3
  MaxTime = 1
SYMMETRY Interchangeable
INVARIANTS
  IInv
  NoLostUpdate
  VersionCountsCommits
  ArchivedIsConsistent
  StoredRowsLoad
  PriceHistoryIsChain
  PriceHistoryInTime
PROPERTIES
  DiscountOnActiveOnly
  ArchivedIsFinal
