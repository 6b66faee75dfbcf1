SPECIFICATION Spec
CONSTANTS
  None = None
  Texts <- MCTexts
  EmptyText <- MCEmptyText
  MaxStorablePrice = 2
  MaxDiscountDuration = 2
  Hundred = 100
  ColumnUnit = 10
  NaN = NaN
  Products = {p1}
  Workers = {w1, w2}
  CreateRequests <- OneCreate
  UpdateRequests <- LifecycleRequests
  MaxLead = 1
  MaxVersion = 3
  MaxTime = 0
SYMMETRY Interchangeable
INVARIANTS
  NoLostUpdate
